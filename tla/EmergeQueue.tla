----------------------------- MODULE EmergeQueue -----------------------------
(***************************************************************************)
(* The queue of map blocks to emerge (src/src/emerge.cpp): how requests    *)
(* are put into m_blocks_enqueued and handed to the emerge threads, how    *)
(* the threads take them, are woken, report back, and are stopped.         *)
(*                                                                         *)
(* Two mutexes matter: m_queue_mutex of the EmergeManager, and             *)
(* m_env_mutex of the Server, under which all Lua callbacks of the server  *)
(* environment run; Lua may ask for blocks (core.emerge_area).  What an    *)
(* emerge thread does with a block is left open here; see MapGeneration.   *)
(***************************************************************************)
EXTENDS Naturals, Sequences, FiniteSets

CONSTANTS
    NThreads,               \* number of emerge threads
    Pos,                    \* block positions, numbered in the order Lua asks
    OverLimit,              \* those beyond MAX_MAP_GENERATION_LIMIT
    Peer,                   \* players
    PEER_ID_INEXISTENT,     \* who asks for the server itself
    Request,                \* requests, each of which is made once
    asks,                   \* of each: [peer, blocks, gen, force, callback]
    m_qlimit_total, m_qlimit_diskonly, m_qlimit_generate,
    AskingIn,               \* where Lua asks: "step", "finish", "calling", "hooks"
    Failing,                \* may a thread die of an exception or a bad script?
    Stopping,               \* may the server be stopped?
    None                    \* no actor, no request, no data

EThread == 1 .. NThreads
Server == 0                 \* ServerThread, later the thread in ~Server
Actor == EThread \cup {Server}
Requester == Peer \cup {PEER_ID_INEXISTENT}

ASSUME ThreadsAssumption == NThreads \in Nat \ {0}
ASSUME PosAssumption == Pos \subseteq Nat /\ IsFiniteSet(Pos) /\ OverLimit \subseteq Pos
\* rangelim and std::max in the constructor
ASSUME LimitsAssumption ==
    /\ m_qlimit_diskonly \in Nat \ {0, 1}
    /\ m_qlimit_generate \in Nat \ {0}
    /\ m_qlimit_total \in Nat
    /\ m_qlimit_total >= m_qlimit_diskonly /\ m_qlimit_total >= m_qlimit_generate
\* callbacks come with core.emerge_area, which passes FORCE_QUEUE, no players
ASSUME RequestsAssumption ==
    /\ asks \in [Request -> [peer : Requester, blocks : SUBSET Pos, gen : BOOLEAN,
                             force : BOOLEAN, callback : BOOLEAN]]
    /\ \A r \in Request : asks[r].callback => asks[r].force
    /\ \A r \in Request : asks[r].force => asks[r].peer = PEER_ID_INEXISTENT

VARIABLES
    m_blocks_enqueued,      \* of each position: its BlockEmergeData, or None
    m_peer_queue_count,
    m_block_queue,          \* of each thread: positions
    m_queue_event,          \* of each thread: has it been signalled?
    m_request_stop,         \* of each thread
    m_queue_mutex, m_env_mutex,     \* who holds it
    pc,                     \* where an actor is
    job,                    \* the block a thread has taken: [pos, callbacks]
    left,                   \* blocks an actor in Lua is still to ask for,
    request,                \* in which request,
    signalling,             \* and the thread it is still to signal
    asked,                  \* requests made so far
    refcount,               \* of each request: ScriptCallbackState::refcount
    lost                    \* history: callbacks dropped with a failed block

queueVars == <<m_blocks_enqueued, m_peer_queue_count, m_block_queue>>
threadVars == <<m_queue_event, m_request_stop>>
luaVars == <<left, request, signalling, asked>>
vars == <<queueVars, threadVars, m_queue_mutex, m_env_mutex, pc, job, luaVars,
          refcount, lost>>

BlockEmergeData == [peer : Requester, gen : BOOLEAN, callbacks : SUBSET Request]
Job == [pos : Pos, callbacks : SUBSET Request]

\* Lua runs nowhere else
ASSUME AskingInAssumption == AskingIn \subseteq {"step", "finish", "calling", "hooks"}
ASSUME NoneAssumption ==
    /\ None \notin Actor \cup Request /\ None \notin BlockEmergeData \cup Job
    /\ PEER_ID_INEXISTENT \notin Peer

InLua(a) == pc[a] \in {"step", "finish", "calling", "hooks"}
ThreadPc == {"off", "init", "loop", "waiting", "work", "generated", "finish",
             "callbacks", "calling", "ending", "cancelling", "ended"}
ServerPc == {"idle", "step", "stopping", "hooks", "over"}

TypeOK ==
    /\ m_blocks_enqueued \in [Pos -> BlockEmergeData \cup {None}]
    /\ m_peer_queue_count \in [Requester -> Nat]
    /\ m_block_queue \in [EThread -> Seq(Pos)]
    /\ m_queue_event \in [EThread -> BOOLEAN]
    /\ m_request_stop \in [EThread -> BOOLEAN]
    /\ m_queue_mutex \in EThread \cup {None}
    /\ m_env_mutex \in Actor \cup {None}
    /\ \A t \in EThread : pc[t] \in ThreadPc
    /\ pc[Server] \in ServerPc
    /\ job \in [EThread -> Job \cup {None}]
    /\ left \in [Actor -> SUBSET Pos]
    /\ request \in [Actor -> Request \cup {None}]
    /\ signalling \in [Actor -> EThread \cup {None}]
    /\ asked \subseteq Request
    /\ refcount \in [Request -> Nat]
    /\ lost \in [Request -> Nat]
    /\ \A a \in Actor : m_env_mutex = a <=> InLua(a)

Init ==
    /\ m_blocks_enqueued = [p \in Pos |-> None]
    /\ m_peer_queue_count = [q \in Requester |-> 0]
    /\ m_block_queue = [t \in EThread |-> <<>>]
    /\ m_queue_event = [t \in EThread |-> FALSE]
    /\ m_request_stop = [t \in EThread |-> FALSE]
    /\ m_queue_mutex = None
    /\ m_env_mutex = None
    /\ pc = [a \in Actor |-> IF a = Server THEN "idle" ELSE "off"]
    /\ job = [t \in EThread |-> None]
    /\ left = [a \in Actor |-> {}]
    /\ request = [a \in Actor |-> None]
    /\ signalling = [a \in Actor |-> None]
    /\ asked = {}
    /\ refcount = [r \in Request |-> 0]
    /\ lost = [r \in Request |-> 0]

Goto(a, step) == pc' = [pc EXCEPT ![a] = step]

-----------------------------------------------------------------------------
(* Asking for blocks, in Lua or elsewhere under the environment mutex.     *)

Enqueued == {p \in Pos : m_blocks_enqueued[p] # None}

(* getOptimalThread: the first of those with the shortest queue. *)
OptimalThread ==
    CHOOSE t \in EThread : \A u \in EThread :
        /\ Len(m_block_queue[t]) <= Len(m_block_queue[u])
        /\ u < t => Len(m_block_queue[t]) < Len(m_block_queue[u])

(* pushBlockEmergeData: do the limits refuse the request? *)
RefusedOneLate(q) ==    \* mutant: > for >=
    LET count == m_peer_queue_count[q.peer]
    IN  /\ ~q.force
        /\ \/ Cardinality(Enqueued) > m_qlimit_total
           \/ q.peer = PEER_ID_INEXISTENT /\ count * 2 > m_qlimit_total
           \/ /\ q.peer # PEER_ID_INEXISTENT
              /\ count > (IF q.gen THEN m_qlimit_generate ELSE m_qlimit_diskonly)
Refused(q) ==
    LET count == m_peer_queue_count[q.peer]
    IN  /\ ~q.force
        /\ \/ Cardinality(Enqueued) >= m_qlimit_total
           \/ q.peer = PEER_ID_INEXISTENT /\ count * 2 >= m_qlimit_total
           \/ /\ q.peer # PEER_ID_INEXISTENT
              /\ count >= (IF q.gen THEN m_qlimit_generate ELSE m_qlimit_diskonly)

(* emerge_area starts on its area, GetNextBlocks or a packet handler on    *)
(* the blocks a player is to get.                                          *)
Ask(a, r) ==
    /\ pc[a] \in AskingIn
    /\ left[a] = {} /\ signalling[a] = None
    /\ r \notin asked
    /\ asked' = asked \cup {r}
    /\ request' = [request EXCEPT ![a] = r]
    /\ left' = [left EXCEPT ![a] = asks[r].blocks]
    /\ refcount' = [refcount EXCEPT ![r] =
                        IF asks[r].callback THEN Cardinality(asks[r].blocks) ELSE 0]
    /\ UNCHANGED <<queueVars, threadVars, m_queue_mutex, m_env_mutex, pc, job,
                   signalling, lost>>

(* The entry of p when request r joins in. *)
Merged(p, r) ==
    [m_blocks_enqueued[p] EXCEPT !.gen = @ \/ asks[r].gen,
                                 !.callbacks = @ \cup {x \in {r} : asks[r].callback}]

IsNewAlways(p) == TRUE    \* mutant: entry_already_exists is not looked at
IsNew(p) == m_blocks_enqueued[p] = None

(* enqueueBlockEmergeEx, up to the release of m_queue_mutex.  A refusal    *)
(* ends the request (queue_full_break in GetNextBlocks).                   *)
EnqueueBlockEmergeEx(a) ==
    LET p == CHOOSE x \in left[a] : \A y \in left[a] : x <= y
        r == request[a]
        q == asks[r]
    IN  /\ left[a] # {} /\ signalling[a] = None
        /\ m_queue_mutex = None
        /\ left' = [left EXCEPT ![a] = IF Refused(q) THEN {} ELSE @ \ {p}]
        /\ \/ /\ Refused(q)
              /\ UNCHANGED <<queueVars, signalling>>
           \/ /\ ~Refused(q) /\ ~IsNew(p)
              /\ m_blocks_enqueued' = [m_blocks_enqueued EXCEPT ![p] = Merged(p, r)]
              /\ UNCHANGED <<m_peer_queue_count, m_block_queue, signalling>>
           \/ /\ ~Refused(q) /\ IsNew(p)
              /\ m_blocks_enqueued' = [m_blocks_enqueued EXCEPT ![p] =
                    [peer |-> q.peer, gen |-> q.gen,
                     callbacks |-> {x \in {r} : q.callback}]]
              /\ m_peer_queue_count' = [m_peer_queue_count EXCEPT ![q.peer] = @ + 1]
              /\ m_block_queue' = [m_block_queue EXCEPT ![OptimalThread] = Append(@, p)]
              /\ signalling' = [signalling EXCEPT ![a] = OptimalThread]
        /\ UNCHANGED <<threadVars, m_queue_mutex, m_env_mutex, pc, job, request,
                       asked, refcount, lost>>

(* thread->signal(), outside the mutex: the event stays set until waited for. *)
Signal(a) ==
    /\ signalling[a] # None
    /\ m_queue_event' = [m_queue_event EXCEPT ![signalling[a]] = TRUE]
    /\ signalling' = [signalling EXCEPT ![a] = None]
    /\ UNCHANGED <<queueVars, m_request_stop, m_queue_mutex, m_env_mutex, pc, job,
                   left, request, asked, refcount, lost>>

(* The Lua callback returns and the environment mutex is released. *)
LeaveLua(a) ==
    /\ InLua(a)
    /\ left[a] = {} /\ signalling[a] = None
    /\ m_env_mutex' = None
    /\ Goto(a, CASE pc[a] = "step" -> "idle"
                 [] pc[a] = "hooks" -> "over"
                 [] pc[a] \in {"finish", "calling"} -> "callbacks")
    /\ UNCHANGED <<queueVars, threadVars, m_queue_mutex, job, luaVars, refcount, lost>>

-----------------------------------------------------------------------------
(* An emerge thread *)

(* It takes the environment mutex and goes on under it. *)
EnterLua(a, from, to) ==
    /\ pc[a] = from
    /\ m_env_mutex = None
    /\ m_env_mutex' = a
    /\ Goto(a, to)

(* A move that changes nothing but the place in run(). *)
Move(t, from, to) ==
    /\ pc[t] = from
    /\ Goto(t, to)
    /\ UNCHANGED <<queueVars, threadVars, m_queue_mutex, m_env_mutex, luaVars,
                   refcount, lost>>

(* initScripting; a thread whose script fails does not enter the main loop. *)
InitScripting(t) ==
    /\ pc[t] = "init"
    /\ Goto(t, "loop")
    /\ \/ UNCHANGED m_request_stop
       \/ Failing /\ m_request_stop' = [m_request_stop EXCEPT ![t] = TRUE]
    /\ UNCHANGED <<queueVars, m_queue_event, m_queue_mutex, m_env_mutex, job,
                   luaVars, refcount, lost>>

(* The front of the thread's queue, with its data (popBlockEmergeData). *)
PopCountedTwice(t) ==    \* mutant: the requester is credited twice
    LET p == Head(m_block_queue[t])
        data == m_blocks_enqueued[p]
    IN  /\ m_block_queue' = [m_block_queue EXCEPT ![t] = Tail(@)]
        /\ m_blocks_enqueued' = [m_blocks_enqueued EXCEPT ![p] = None]
        /\ m_peer_queue_count' = [m_peer_queue_count EXCEPT ![data.peer] = @ - 2]
PopBlockEmergeData(t) ==
    LET p == Head(m_block_queue[t])
        data == m_blocks_enqueued[p]
    IN  /\ m_block_queue' = [m_block_queue EXCEPT ![t] = Tail(@)]
        /\ m_blocks_enqueued' = [m_blocks_enqueued EXCEPT ![p] = None]
        /\ m_peer_queue_count' = [m_peer_queue_count EXCEPT ![data.peer] = @ - 1]

FrontSilent(t) ==    \* mutant: its callbacks are not copied
    [pos |-> Head(m_block_queue[t]), callbacks |-> {}]
Front(t) == [pos |-> Head(m_block_queue[t]),
             callbacks |-> m_blocks_enqueued[Head(m_block_queue[t])].callbacks]

(* One more callback of each of these requests will never be run. *)
Forget(callbacks) ==
    lost' = [r \in Request |-> IF r \in callbacks THEN lost[r] + 1 ELSE lost[r]]

(* popBlockEmerge at the head of the main loop finds nothing, *)
FindNothingLocked(t) ==    \* mutant: waits with m_queue_mutex still held
    /\ pc[t] = "loop" /\ ~m_request_stop[t]
    /\ m_queue_mutex = None /\ m_block_queue[t] = <<>>
    /\ m_queue_mutex' = t
    /\ Goto(t, "waiting")
    /\ UNCHANGED <<queueVars, threadVars, m_env_mutex, job, luaVars, refcount, lost>>
FindNothing(t) ==
    /\ ~m_request_stop[t]
    /\ m_queue_mutex = None /\ m_block_queue[t] = <<>>
    /\ Move(t, "loop", "waiting")
    /\ UNCHANGED job

(* or takes a block.  A position over the limit is passed over.            *)
PopBlockEmerge(t) ==
    /\ pc[t] = "loop" /\ ~m_request_stop[t]
    /\ m_queue_mutex = None /\ m_block_queue[t] # <<>>
    /\ PopBlockEmergeData(t)
    /\ IF Head(m_block_queue[t]) \in OverLimit
       THEN /\ Forget(Front(t).callbacks)
            /\ UNCHANGED <<pc, job>>
       ELSE /\ job' = [job EXCEPT ![t] = Front(t)]
            /\ Goto(t, "work")
            /\ UNCHANGED lost
    /\ UNCHANGED <<threadVars, m_queue_mutex, m_env_mutex, luaVars, refcount>>

(* m_queue_event.wait() *)
WaitForEvent(t) ==
    /\ pc[t] = "waiting" /\ m_queue_event[t]
    /\ m_queue_event' = [m_queue_event EXCEPT ![t] = FALSE]
    /\ Goto(t, "loop")
    /\ UNCHANGED <<queueVars, m_request_stop, m_queue_mutex, m_env_mutex, job,
                   luaVars, refcount, lost>>

(* getBlockOrStartGen, under the environment mutex, finds the block or     *)
(* sends the thread to the map generator.                                  *)
GetBlockOrStartGen(t) ==
    /\ m_env_mutex = None
    /\ Move(t, "work", "callbacks") \/ Move(t, "work", "generated")
    /\ UNCHANGED job

(* It throws on invalid block data, which ends the main loop.              *)
LoadError(t) ==
    /\ Failing
    /\ pc[t] = "work" /\ m_env_mutex = None
    /\ Goto(t, "ending")
    /\ Forget(job[t].callbacks)
    /\ job' = [job EXCEPT ![t] = None]
    /\ UNCHANGED <<queueVars, threadVars, m_queue_mutex, m_env_mutex, luaVars, refcount>>

(* finishGen runs the on_generated callbacks of the server environment,    *)
(* unless those of the mapgen environment failed.                          *)
FinishGen(t) ==
    /\ EnterLua(t, "generated", "finish")
    /\ UNCHANGED <<queueVars, threadVars, m_queue_mutex, job, luaVars, refcount, lost>>

OnGeneratedError(t) == Failing /\ Move(t, "generated", "callbacks") /\ UNCHANGED job

(* runCompletionCallbacks: LuaEmergeAreaCallback takes the environment     *)
(* mutex for each.                                                         *)
RunCallback(t, r) ==
    /\ EnterLua(t, "callbacks", "calling")
    /\ r \in job[t].callbacks
    /\ job' = [job EXCEPT ![t].callbacks = @ \ {r}]
    /\ refcount' = [refcount EXCEPT ![r] = @ - 1]
    /\ UNCHANGED <<queueVars, threadVars, m_queue_mutex, luaVars, lost>>

CallbacksDoneAndWait(t) ==    \* mutant: one block for each signal
    /\ pc[t] = "callbacks" /\ job[t].callbacks = {}
    /\ job' = [job EXCEPT ![t] = None]
    /\ Move(t, "callbacks", IF m_queue_mutex = t THEN "cancelling" ELSE "waiting")
CallbacksDone(t) ==
    /\ pc[t] = "callbacks" /\ job[t].callbacks = {}
    /\ job' = [job EXCEPT ![t] = None]
    /\ Move(t, "callbacks", IF m_queue_mutex = t THEN "cancelling" ELSE "loop")

LeaveLoop(t) == m_request_stop[t] /\ Move(t, "loop", "ending") /\ UNCHANGED job

(* cancelPendingItems holds m_queue_mutex from its start to its end, and   *)
(* runs the callbacks of each item.                                        *)
CancelPendingItems(t) ==
    /\ pc[t] = "ending" /\ m_queue_mutex = None
    /\ m_queue_mutex' = t
    /\ Goto(t, "cancelling")
    /\ UNCHANGED <<queueVars, threadVars, m_env_mutex, job, luaVars, refcount, lost>>

CancelItem(t) ==
    /\ pc[t] = "cancelling" /\ m_block_queue[t] # <<>>
    /\ PopBlockEmergeData(t)
    /\ job' = [job EXCEPT ![t] = Front(t)]
    /\ Goto(t, "callbacks")
    /\ UNCHANGED <<threadVars, m_queue_mutex, m_env_mutex, luaVars, refcount, lost>>

EndThread(t) ==
    /\ pc[t] = "cancelling" /\ m_block_queue[t] = <<>>
    /\ m_queue_mutex' = None
    /\ Goto(t, "ended")
    /\ UNCHANGED <<queueVars, threadVars, m_env_mutex, job, luaVars, refcount, lost>>

-----------------------------------------------------------------------------
(* The server *)

StartThreads ==
    /\ pc[Server] = "idle" /\ pc[1] = "off"
    /\ pc' = [a \in Actor |-> IF a \in EThread THEN "init" ELSE pc[a]]
    /\ UNCHANGED <<queueVars, threadVars, m_queue_mutex, m_env_mutex, job, luaVars,
                   refcount, lost>>

(* A part of the server's step that runs under the environment mutex. *)
ServerStep ==
    /\ EnterLua(Server, "idle", "step")
    /\ UNCHANGED <<queueVars, threadVars, m_queue_mutex, job, luaVars, refcount, lost>>

(* ~Server ends ServerThread, then stops the emerge threads. *)
StopServer ==
    /\ Stopping
    /\ pc[Server] = "idle"
    /\ Goto(Server, "stopping")
    /\ UNCHANGED <<queueVars, threadVars, m_queue_mutex, m_env_mutex, job, luaVars,
                   refcount, lost>>

(* stopThreads: stop() and signal() for each thread, *)
StopThreadUnsignalled(t) ==    \* mutant: who waits for blocks is not woken
    /\ pc[Server] = "stopping" /\ pc[t] # "off"
    /\ m_request_stop' = [m_request_stop EXCEPT ![t] = TRUE]
    /\ UNCHANGED <<queueVars, m_queue_event, m_queue_mutex, m_env_mutex, pc, job,
                   luaVars, refcount, lost>>
StopThread(t) ==
    /\ pc[Server] = "stopping" /\ pc[t] # "off"
    /\ m_request_stop' = [m_request_stop EXCEPT ![t] = TRUE]
    /\ m_queue_event' = [m_queue_event EXCEPT ![t] = TRUE]
    /\ UNCHANGED <<queueVars, m_queue_mutex, m_env_mutex, pc, job, luaVars, refcount, lost>>

(* then wait() for each.  The shutdown hooks of Lua follow. *)
ThreadsStopped ==
    /\ \A t \in EThread : pc[t] \in {"off", "ended"}
    /\ EnterLua(Server, "stopping", "hooks")
    /\ UNCHANGED <<queueVars, threadVars, m_queue_mutex, job, luaVars, refcount, lost>>

-----------------------------------------------------------------------------
ThreadStep(t) ==
    \/ InitScripting(t) \/ FindNothing(t) \/ PopBlockEmerge(t) \/ WaitForEvent(t)
    \/ GetBlockOrStartGen(t) \/ LoadError(t)
    \/ FinishGen(t) \/ OnGeneratedError(t)
    \/ \E r \in Request : RunCallback(t, r)
    \/ CallbacksDone(t) \/ LeaveLoop(t)
    \/ CancelPendingItems(t) \/ CancelItem(t) \/ EndThread(t)

LuaStep(a) ==
    \/ \E r \in Request : Ask(a, r)
    \/ EnqueueBlockEmergeEx(a) \/ Signal(a) \/ LeaveLua(a)

Next ==
    \/ \E t \in EThread : ThreadStep(t) \/ StopThread(t)
    \/ \E a \in Actor : LuaStep(a)
    \/ StartThreads \/ ServerStep \/ StopServer \/ ThreadsStopped

Spec == Init /\ [][Next]_vars

(* The threads keep running.  m_env_mutex is an ordered_mutex, which lets  *)
(* everybody in who waits; m_queue_mutex is never held for long unless its *)
(* owner is stuck.  The server starts the threads at its next step.        *)
Fairness ==
    /\ \A t \in EThread : SF_vars(ThreadStep(t)) /\ WF_vars(StopThread(t))
    /\ \A a \in Actor : WF_vars(EnqueueBlockEmergeEx(a) \/ Signal(a) \/ LeaveLua(a))
    /\ SF_vars(StartThreads)
    /\ SF_vars(ThreadsStopped)

FairSpec == Spec /\ Fairness

-----------------------------------------------------------------------------
(* Every block in m_blocks_enqueued is in the queue of exactly one thread, *)
(* once, and nothing else is: none is emerged twice for the same requests, *)
(* and popBlockEmergeData always finds what it looks for.                  *)
Places(p) ==
    {at \in EThread \X (1 .. Cardinality(Pos) + 1) :
        LET queue == m_block_queue[at[1]]
        IN  at[2] \in DOMAIN queue /\ queue[at[2]] = p}
QueuesMatchEntries ==
    \A p \in Pos : Cardinality(Places(p)) = (IF p \in Enqueued THEN 1 ELSE 0)

(* m_peer_queue_count is the number of entries a requester is charged      *)
(* with, whoever else joins in, so that nobody is locked out for ever; and *)
(* no sequence of requests takes the players past the limits, neither one  *)
(* past the limits per player nor all of them past the total.              *)
EntriesOf(q) == {p \in Enqueued : m_blocks_enqueued[p].peer = q}
QuotaExact ==
    /\ \A q \in Requester : m_peer_queue_count[q] = Cardinality(EntriesOf(q))
    /\ \A q \in Peer : Cardinality(EntriesOf(q)) <=
            (IF m_qlimit_diskonly > m_qlimit_generate
             THEN m_qlimit_diskonly ELSE m_qlimit_generate)
    /\ Cardinality({p \in Enqueued : m_blocks_enqueued[p].peer \in Peer}) <= m_qlimit_total

(* The refcount that emerge_area starts with is always the number of       *)
(* callbacks still to come or lost to a failure: each is run exactly once, *)
(* the state is deleted by the last and by no earlier one, and             *)
(* "assert(state->refcount > 0)" holds.                                    *)
Asking(r) == UNION {IF request[a] = r THEN left[a] ELSE {} : a \in Actor}
Queued(r) == {p \in Enqueued : r \in m_blocks_enqueued[p].callbacks}
InHand(r) == {t \in EThread : job[t] # None /\ r \in job[t].callbacks}
RefcountExact ==
    \A r \in asked : asks[r].callback =>
        refcount[r] = Cardinality(Asking(r)) + Cardinality(Queued(r))
                      + Cardinality(InHand(r)) + lost[r]

(* The mutexes an actor cannot go on without. *)
WantsEnv(a) ==
    \/ pc[a] \in {"work", "generated"}
    \/ pc[a] = "callbacks" /\ job[a].callbacks # {}
WantsQueue(a) ==
    \/ left[a] # {} /\ signalling[a] = None
    \/ pc[a] = "ending"
    \/ pc[a] = "loop" /\ ~m_request_stop[a]
WaitsFor(a, b) ==
    \/ WantsEnv(a) /\ m_env_mutex = b
    \/ WantsQueue(a) /\ m_queue_mutex = b

(* No actor waits for a mutex it holds itself, and no two wait for each    *)
(* other.  ~Server, "Stop all emerge activity and finish off mapgen        *)
(* callbacks", counts on it when it waits for the threads.                 *)
NoLockCycle == \A a, b \in Actor : ~(WaitsFor(a, b) /\ WaitsFor(b, a))

(* No wake-up is lost: once the threads have been started, every callback  *)
(* of every request is run in the end, even if the server is stopped.      *)
EveryCallbackRun ==
    \A r \in Request : r \in asked /\ pc[1] # "off" ~> refcount[r] = 0

(* A server told to stop gets past its emerge threads. *)
StopEnds == pc[Server] = "stopping" ~> pc[Server] = "over"
=============================================================================
