-------------------------- MODULE EmergeQueueProofs --------------------------
(* The bookkeeping of the emerge queue is exact: entries, queues, quotas   *)
(* and refcounts, for any number of threads, players and requests, and     *)
(* whatever fails or is stopped.  Its two mutexes are never waited for     *)
(* crosswise if Lua asks for blocks in the server's steps only.            *)
EXTENDS EmergeQueue, FiniteSetTheorems, WellFoundedInduction, TLAPS

(* Entries and queues, said place by place. *)
QueueInv ==
    /\ \A t \in EThread : \A i \in DOMAIN m_block_queue[t] : m_block_queue[t][i] \in Enqueued
    /\ \A t, u \in EThread : \A i \in DOMAIN m_block_queue[t], j \in DOMAIN m_block_queue[u] :
            m_block_queue[t][i] = m_block_queue[u][j] => t = u /\ i = j
    /\ \A p \in Enqueued : \E t \in EThread : \E i \in DOMAIN m_block_queue[t] :
            m_block_queue[t][i] = p

(* Where a thread is tells whether it has a block; the threads start       *)
(* together.                                                               *)
PlacesInv ==
    /\ pc \in [Actor -> ThreadPc \cup ServerPc]
    /\ \A t \in EThread : job[t] # None <=>
            pc[t] \in {"work", "generated", "finish", "callbacks", "calling"}
    /\ \A t \in EThread : pc[t] = "off" => \A u \in EThread : pc[u] = "off"

(* A request is made once, by one actor, and asks for a position once.     *)
AskInv ==
    /\ \A a, b \in Actor : request[a] = request[b] /\ request[a] # None => a = b
    /\ \A a \in Actor : request[a] # None => request[a] \in asked
    /\ \A a \in Actor : left[a] # {} => request[a] # None
    /\ \A a \in Actor : request[a] # None =>
            \A p \in left[a] \cap Enqueued : request[a] \notin m_blocks_enqueued[p].callbacks

(* Only what has been asked for, with a callback, calls back. *)
Calling == {r \in asked : asks[r].callback}
CallbackInv ==
    /\ \A p \in Enqueued : m_blocks_enqueued[p].callbacks \subseteq Calling
    /\ \A t \in EThread : job[t] # None => job[t].callbacks \subseteq Calling
    /\ \A r \in Request \ asked : lost[r] = 0

IInv ==
    /\ TypeOK
    /\ QueueInv /\ QuotaExact
    /\ PlacesInv
    /\ AskInv /\ CallbackInv
    /\ RefcountExact
-----------------------------------------------------------------------------
(* Choices *)

LEMMA Least ==
    ASSUME NEW S \in SUBSET Nat, S # {}
    PROVE  \E n \in S : \A m \in S : n <= m
<1> DEFINE R == StrictSubsetOrdering(Nat)
           T == {1 .. n : n \in S}
<1>1. IsWellFoundedOn(R, FiniteSubsetsOf(Nat))
  BY FS_StrictSubsetOrderingWellFounded
<1>2. T \subseteq FiniteSubsetsOf(Nat) /\ T # {}
  <2>1. ASSUME NEW n \in S PROVE 1 .. n \in FiniteSubsetsOf(Nat)
    <3>1. n \in Nat /\ 1 .. n \in SUBSET Nat
      OBVIOUS
    <3>2. IsFiniteSet(1 .. n)
      BY <3>1, FS_Interval
    <3> QED
      BY <3>1, <3>2 DEF FiniteSubsetsOf
  <2>2. PICK k \in S : TRUE
    OBVIOUS
  <2>3. 1 .. k \in T
    OBVIOUS
  <2> QED
    BY <2>1, <2>3
<1>3. PICK X \in T : \A Y \in T : ~(<<Y, X>> \in R)
  <2> HIDE DEF R, T
  <2> QED
    BY <1>1, <1>2, WFMin
<1>4. PICK n \in S : X = 1 .. n
  OBVIOUS
<1>5. ASSUME NEW m \in S, m < n PROVE FALSE
  <2>1. 1 .. m \subseteq 1 .. n /\ n \in 1 .. n /\ n \notin 1 .. m
    BY <1>5
  <2>2. <<1 .. m, 1 .. n>> \in R
    BY <2>1, <1>2, <1>4 DEF StrictSubsetOrdering, FiniteSubsetsOf
  <2> QED
    BY <1>3, <1>4, <2>2
<1> QED
  BY <1>5

LEMMA ActorsFinite == IsFiniteSet(EThread) /\ IsFiniteSet(Actor) /\ 1 \in EThread
<1>1. IsFiniteSet(EThread) /\ 1 \in EThread
  BY ThreadsAssumption, FS_Interval DEF EThread
<1> QED
  BY <1>1, FS_AddElement DEF Actor

(* getOptimalThread finds a thread. *)
LEMMA OptimalThreadType ==
    ASSUME m_block_queue \in [EThread -> Seq(Pos)]
    PROVE  OptimalThread \in EThread
<1> DEFINE Lengths == {Len(m_block_queue[t]) : t \in EThread}
<1>1. Lengths \subseteq Nat
  OBVIOUS
<1>2. Lengths # {}
  <2>1. Len(m_block_queue[1]) \in Lengths
    BY ActorsFinite
  <2> QED
    BY <2>1
<1>3. PICK n \in Lengths : \A m \in Lengths : n <= m
  <2> HIDE DEF Lengths
  <2> QED
    BY <1>1, <1>2, Least
<1> DEFINE Shortest == {t \in EThread : Len(m_block_queue[t]) = n}
<1>4. Shortest \subseteq Nat /\ Shortest # {}
  <2>1. Shortest \subseteq Nat
    BY ThreadsAssumption DEF EThread
  <2>2. PICK u \in EThread : n = Len(m_block_queue[u])
    OBVIOUS
  <2>3. u \in Shortest
    BY <2>2
  <2> QED
    BY <2>1, <2>3
<1>5. PICK t \in Shortest : \A u \in Shortest : t <= u
  <2> HIDE DEF Shortest
  <2> QED
    BY <1>4, Least
<1>6. \A u \in EThread : /\ Len(m_block_queue[t]) <= Len(m_block_queue[u])
                         /\ u < t => Len(m_block_queue[t]) < Len(m_block_queue[u])
  <2> TAKE u \in EThread
  <2>1. n = Len(m_block_queue[t]) /\ n <= Len(m_block_queue[u])
    BY <1>3, <1>5
  <2>2. t \in Nat /\ u \in Nat /\ Len(m_block_queue[u]) \in Nat /\ n \in Nat
    BY <1>1, <1>3, <1>4, <1>5, ThreadsAssumption DEF EThread
  <2>3. u < t => u \notin Shortest
    BY <1>5, <2>2
  <2> QED
    BY <2>1, <2>2, <2>3
<1>7. t \in EThread
  BY <1>5
<1> QED
  BY <1>6, <1>7 DEF OptimalThread

(* The position that is asked for next. *)
LEMMA FirstPosition ==
    ASSUME NEW S \in SUBSET Pos, S # {}
    PROVE  (CHOOSE x \in S : \A y \in S : x <= y) \in S
<1>1. S \in SUBSET Nat
  BY PosAssumption
<1>2. \E x \in S : \A y \in S : x <= y
  BY <1>1, Least
<1> QED
  BY <1>2

LEMMA PositionsFinite ==
    ASSUME NEW S \in SUBSET Pos
    PROVE  IsFiniteSet(S) /\ Cardinality(S) \in Nat
BY PosAssumption, FS_Subset, FS_CardinalityType

LEMMA CountPlus ==
    ASSUME NEW S, NEW x, IsFiniteSet(S), x \notin S
    PROVE  Cardinality(S \cup {x}) = Cardinality(S) + 1
BY FS_AddElement

LEMMA CountMinus ==
    ASSUME NEW S, NEW x, IsFiniteSet(S), x \in S
    PROVE  Cardinality(S \ {x}) = Cardinality(S) - 1
BY FS_RemoveElement

-----------------------------------------------------------------------------
(* Entries and queues *)

EntryTypes ==
    /\ m_blocks_enqueued \in [Pos -> BlockEmergeData \cup {None}]
    /\ m_peer_queue_count \in [Requester -> Nat]
    /\ m_block_queue \in [EThread -> Seq(Pos)]

LEMMA EntriesAre ==
    ASSUME EntryTypes
    PROVE  /\ Enqueued \subseteq Pos
           /\ \A p \in Enqueued : m_blocks_enqueued[p] \in BlockEmergeData
           /\ \A q : EntriesOf(q) \subseteq Pos
           /\ {p \in Enqueued : m_blocks_enqueued[p].peer \in Peer} \subseteq Pos
BY DEF EntryTypes, Enqueued, EntriesOf

(* No position is in the queues twice, so a queue is no longer than there  *)
(* are positions.                                                          *)
LEMMA QueuesShort ==
    ASSUME EntryTypes, QueueInv, NEW t \in EThread
    PROVE  Len(m_block_queue[t]) <= Cardinality(Pos)
<1> DEFINE s == m_block_queue[t]
           n == Len(s)
<1>1. s \in Seq(Pos) /\ n \in Nat
  BY DEF EntryTypes
<1>2. \A i, j \in DOMAIN s : s[i] = s[j] => i = j
  BY DEF QueueInv
<1>3. IsFiniteSet(Pos) /\ Cardinality(Pos) \in Nat
  BY PositionsFinite
<1>4. IsFiniteSet(1 .. n) /\ Cardinality(1 .. n) = n
  BY <1>1, FS_Interval
<1> HIDE DEF s
<1>5. [i \in 1 .. n |-> s[i]] \in [1 .. n -> Pos]
  BY <1>1
<1>6. ~(Cardinality(Pos) < Cardinality(1 .. n))
  <2> SUFFICES ASSUME Cardinality(Pos) < Cardinality(1 .. n) PROVE FALSE
    OBVIOUS
  <2> DEFINE f == [i \in 1 .. n |-> s[i]]
  <2>1. \A i \in 1 .. n : f[i] = s[i]
    OBVIOUS
  <2>2. f \in [1 .. n -> Pos]
    BY <1>5
  <2> HIDE DEF f
  <2>3. \E x, y \in 1 .. n : x # y /\ f[x] = f[y]
    BY <1>3, <1>4, <2>2, FS_PigeonHole
  <2>4. DOMAIN s = 1 .. n
    BY <1>1
  <2> QED
    BY <1>2, <2>1, <2>3, <2>4
<1> QED
  BY <1>1, <1>3, <1>4, <1>6 DEF s

(* What is said place by place is what the cardinalities say. *)
LEMMA PlacesMatch ==
    ASSUME EntryTypes, QueueInv
    PROVE  QueuesMatchEntries
<1> SUFFICES ASSUME NEW p \in Pos
             PROVE  Cardinality(Places(p)) = (IF p \in Enqueued THEN 1 ELSE 0)
  BY DEF QueuesMatchEntries
<1>1. CASE p \in Enqueued
  <2>1a. PICK t \in EThread : \E i \in DOMAIN m_block_queue[t] : m_block_queue[t][i] = p
    BY <1>1 DEF QueueInv
  <2>1. PICK i \in DOMAIN m_block_queue[t] : m_block_queue[t][i] = p
    BY <2>1a
  <2>2. i \in 1 .. Cardinality(Pos) + 1
    <3>1. i \in 1 .. Len(m_block_queue[t]) /\ Len(m_block_queue[t]) \in Nat
      BY DEF EntryTypes
    <3> QED
      BY <3>1, QueuesShort, PositionsFinite
  <2>3. <<t, i>> \in Places(p)
    BY <2>1, <2>2 DEF Places
  <2>4. \A x \in Places(p) : x = <<t, i>>
    BY <2>1 DEF Places, QueueInv
  <2>5. Places(p) = {<<t, i>>}
    BY <2>3, <2>4
  <2> QED
    BY <1>1, <2>5, FS_Singleton
<1>2. CASE p \notin Enqueued
  <2>1. Places(p) = {}
    BY <1>2 DEF Places, QueueInv
  <2> QED
    BY <1>2, <2>1, FS_EmptySet
<1> QED
  BY <1>1, <1>2

LEMMA FrontIs ==
    ASSUME EntryTypes, QueueInv, NEW t \in EThread, m_block_queue[t] # <<>>
    PROVE  /\ Head(m_block_queue[t]) \in Enqueued
           /\ m_blocks_enqueued[Head(m_block_queue[t])] \in BlockEmergeData
           /\ 1 \in DOMAIN m_block_queue[t] /\ Head(m_block_queue[t]) = m_block_queue[t][1]
<1>1. 1 \in DOMAIN m_block_queue[t] /\ Head(m_block_queue[t]) = m_block_queue[t][1]
  BY DEF EntryTypes
<1>2. Head(m_block_queue[t]) \in Enqueued
  BY <1>1 DEF QueueInv
<1> QED
  BY <1>1, <1>2, EntriesAre

(* Fewer entries keep to the limits. *)
LEMMA FewerEntries ==
    ASSUME EntryTypes, QuotaExact,
           \A q \in Requester : m_peer_queue_count'[q] = Cardinality(EntriesOf(q)'),
           Enqueued' \subseteq Enqueued,
           \A x \in Enqueued' : m_blocks_enqueued'[x] = m_blocks_enqueued[x]
    PROVE  QuotaExact'
<1>1. ASSUME NEW S, NEW T \in SUBSET Pos, S \subseteq T, NEW n \in Nat, Cardinality(T) <= n
      PROVE  Cardinality(S) <= n
  <2>1. S \in SUBSET Pos /\ IsFiniteSet(T) /\ Cardinality(T) \in Nat
    BY <1>1, PositionsFinite
  <2>2. Cardinality(S) \in Nat /\ Cardinality(S) <= Cardinality(T)
    BY <2>1, <1>1, FS_Subset, PositionsFinite
  <2> QED
    BY <2>1, <2>2, <1>1
<1>2. ASSUME NEW q \in Peer
      PROVE  Cardinality(EntriesOf(q)') <=
                (IF m_qlimit_diskonly > m_qlimit_generate
                 THEN m_qlimit_diskonly ELSE m_qlimit_generate)
  <2>1. EntriesOf(q)' \subseteq EntriesOf(q) /\ EntriesOf(q) \in SUBSET Pos
    BY EntriesAre DEF EntriesOf
  <2> QED
    BY <2>1, <1>1, LimitsAssumption DEF QuotaExact
<1>3. Cardinality({x \in Enqueued : m_blocks_enqueued[x].peer \in Peer}') <= m_qlimit_total
  <2>1. /\ {x \in Enqueued : m_blocks_enqueued[x].peer \in Peer}'
                \subseteq {x \in Enqueued : m_blocks_enqueued[x].peer \in Peer}
        /\ {x \in Enqueued : m_blocks_enqueued[x].peer \in Peer} \in SUBSET Pos
    BY EntriesAre
  <2> QED
    BY <2>1, <1>1, LimitsAssumption DEF QuotaExact
<1> QED
  BY <1>2, <1>3 DEF QuotaExact

LEMMA TailIs ==
    ASSUME NEW S, NEW s \in Seq(S), s # <<>>
    PROVE  /\ Tail(s) \in Seq(S)
           /\ \A i \in DOMAIN Tail(s) :
                i \in Nat /\ i + 1 # 1 /\ i + 1 \in DOMAIN s /\ Tail(s)[i] = s[i + 1]
           /\ \A i \in DOMAIN s :
                i # 1 => i - 1 \in DOMAIN Tail(s) /\ Tail(s)[i - 1] = s[i]
<1>1. /\ Tail(s) \in Seq(S) /\ Len(Tail(s)) = Len(s) - 1
      /\ Len(s) \in Nat \ {0}
      /\ DOMAIN s = 1 .. Len(s) /\ DOMAIN Tail(s) = 1 .. Len(s) - 1
  OBVIOUS
<1>2. \A i \in 1 .. Len(s) - 1 : Tail(s)[i] = s[i + 1]
  OBVIOUS
<1>3. ASSUME NEW i \in DOMAIN Tail(s)
      PROVE  i \in Nat /\ i + 1 # 1 /\ i + 1 \in DOMAIN s /\ Tail(s)[i] = s[i + 1]
  BY <1>1, <1>2
<1>4. ASSUME NEW i \in DOMAIN s, i # 1
      PROVE  i - 1 \in DOMAIN Tail(s) /\ Tail(s)[i - 1] = s[i]
  <2>1. i - 1 \in 1 .. Len(s) - 1 /\ (i - 1) + 1 = i
    BY <1>1, <1>4
  <2> QED
    BY <2>1, <1>1, <1>2
<1> QED
  BY <1>1, <1>3, <1>4

(* popBlockEmergeData takes away one entry, its place and its charge. *)
LEMMA PopStep ==
    ASSUME EntryTypes, QueueInv, QuotaExact,
           NEW t \in EThread, m_block_queue[t] # <<>>, PopBlockEmergeData(t)
    PROVE  /\ EntryTypes' /\ QueueInv' /\ QuotaExact'
           /\ Enqueued' = Enqueued \ {Head(m_block_queue[t])}
           /\ \A x \in Enqueued' : m_blocks_enqueued'[x] = m_blocks_enqueued[x]
<1>1. PICK s \in Seq(Pos) : s = m_block_queue[t]
  BY DEF EntryTypes
<1>2. PICK p \in Enqueued : p = Head(s) /\ 1 \in DOMAIN s /\ p = s[1]
  BY <1>1, FrontIs
<1>3. PICK peer \in Requester : peer = m_blocks_enqueued[p].peer
  BY <1>2, EntriesAre DEF BlockEmergeData
<1>4. /\ m_block_queue' = [m_block_queue EXCEPT ![t] = Tail(s)]
      /\ m_blocks_enqueued' = [m_blocks_enqueued EXCEPT ![p] = None]
      /\ m_peer_queue_count' = [m_peer_queue_count EXCEPT ![peer] = @ - 1]
  BY <1>1, <1>2, <1>3 DEF PopBlockEmergeData
<1>5. /\ Enqueued' = Enqueued \ {p}
      /\ \A x \in Enqueued' : m_blocks_enqueued'[x] = m_blocks_enqueued[x]
  BY <1>2, <1>4 DEF EntryTypes, Enqueued
<1>6. EntriesOf(peer) \subseteq Pos /\ p \in EntriesOf(peer)
  BY <1>2, <1>3, EntriesAre DEF EntriesOf
<1>7. \A q : EntriesOf(q)' = IF q = peer THEN EntriesOf(q) \ {p} ELSE EntriesOf(q)
  BY <1>3, <1>5 DEF EntriesOf
<1>8. /\ Cardinality(EntriesOf(peer)) \in Nat
      /\ Cardinality(EntriesOf(peer)') = Cardinality(EntriesOf(peer)) - 1
      /\ Cardinality(EntriesOf(peer)') \in Nat
  <2>1. EntriesOf(peer)' = EntriesOf(peer) \ {p} /\ EntriesOf(peer)' \in SUBSET Pos
    BY <1>6, <1>7
  <2> QED
    BY <2>1, <1>6, PositionsFinite, CountMinus
<1>9. m_peer_queue_count[peer] = Cardinality(EntriesOf(peer))
  BY DEF QuotaExact
<1>10. EntryTypes'
  <2>1. m_peer_queue_count[peer] - 1 \in Nat
    BY <1>8, <1>9
  <2>2. m_block_queue' \in [EThread -> Seq(Pos)]
    <3>1. Tail(s) \in Seq(Pos)
      BY <1>1, TailIs
    <3> QED
      BY <3>1, <1>4 DEF EntryTypes
  <2>3. m_blocks_enqueued' \in [Pos -> BlockEmergeData \cup {None}]
    BY <1>4 DEF EntryTypes
  <2>4. m_peer_queue_count' \in [Requester -> Nat]
    BY <1>4, <2>1 DEF EntryTypes
  <2> QED
    BY <2>2, <2>3, <2>4 DEF EntryTypes
<1>11. QueueInv'
  <2>0. \A u \in EThread : m_block_queue'[u] = IF u = t THEN Tail(s) ELSE m_block_queue[u]
    BY <1>4 DEF EntryTypes
  <2>1. \A i \in DOMAIN Tail(s) :
            i \in Nat /\ i + 1 # 1 /\ i + 1 \in DOMAIN s /\ Tail(s)[i] = s[i + 1]
    BY <1>1, TailIs
  <2>2. \A i \in DOMAIN s : i # 1 => i - 1 \in DOMAIN Tail(s) /\ Tail(s)[i - 1] = s[i]
    BY <1>1, TailIs
  <2>3. ASSUME NEW u \in EThread, NEW i \in DOMAIN m_block_queue'[u]
        PROVE  \E j \in DOMAIN m_block_queue[u] :
                    /\ m_block_queue'[u][i] = m_block_queue[u][j]
                    /\ m_block_queue[u][j] # p
                    /\ j = (IF u = t THEN i + 1 ELSE i)
    <3>1. CASE u = t
      <4>1. i \in DOMAIN Tail(s) /\ m_block_queue'[u][i] = Tail(s)[i]
        BY <2>0, <2>3, <3>1
      <4>2. i + 1 \in DOMAIN s /\ Tail(s)[i] = s[i + 1] /\ i + 1 # 1
        BY <4>1, <2>1
      <4>3. s[i + 1] # s[1]
        BY <4>2, <1>1, <1>2 DEF QueueInv
      <4> QED
        BY <4>1, <4>2, <4>3, <3>1, <1>1, <1>2
    <3>2. CASE u # t
      <4>1. i \in DOMAIN m_block_queue[u] /\ m_block_queue'[u][i] = m_block_queue[u][i]
        BY <2>0, <2>3, <3>2
      <4>2. m_block_queue[u][i] # m_block_queue[t][1]
        BY <4>1, <3>2, <1>1, <1>2 DEF QueueInv
      <4> QED
        BY <4>1, <4>2, <3>2, <1>1, <1>2
    <3> QED
      BY <3>1, <3>2
  <2>4. ASSUME NEW u \in EThread, NEW i \in DOMAIN m_block_queue'[u]
        PROVE  m_block_queue'[u][i] \in Enqueued'
    BY <2>3, <1>5 DEF QueueInv
  <2>5. ASSUME NEW u \in EThread, NEW v \in EThread,
               NEW i \in DOMAIN m_block_queue'[u], NEW j \in DOMAIN m_block_queue'[v],
               m_block_queue'[u][i] = m_block_queue'[v][j]
        PROVE  u = v /\ i = j
    <3>1. PICK k \in DOMAIN m_block_queue[u] :
                /\ m_block_queue'[u][i] = m_block_queue[u][k]
                /\ k = (IF u = t THEN i + 1 ELSE i)
      BY <2>3
    <3>2. PICK l \in DOMAIN m_block_queue[v] :
                /\ m_block_queue'[v][j] = m_block_queue[v][l]
                /\ l = (IF v = t THEN j + 1 ELSE j)
      BY <2>3
    <3>3. u = v /\ k = l
      BY <3>1, <3>2, <2>5 DEF QueueInv
    <3>4. u = t => i \in Nat /\ j \in Nat
      BY <3>3, <2>0, <2>1
    <3> QED
      BY <3>1, <3>2, <3>3, <3>4
  <2>6. ASSUME NEW x \in Enqueued'
        PROVE  \E u \in EThread : \E i \in DOMAIN m_block_queue'[u] : m_block_queue'[u][i] = x
    <3>1. x \in Enqueued /\ x # p
      BY <1>5
    <3>2. PICK u \in EThread : \E i \in DOMAIN m_block_queue[u] : m_block_queue[u][i] = x
      BY <3>1 DEF QueueInv
    <3>3. PICK i \in DOMAIN m_block_queue[u] : m_block_queue[u][i] = x
      BY <3>2
    <3>4. CASE u = t
      <4>1. i \in DOMAIN s /\ s[i] = x /\ i # 1
        BY <3>1, <3>3, <3>4, <1>1, <1>2
      <4>2. i - 1 \in DOMAIN Tail(s) /\ Tail(s)[i - 1] = x
        BY <4>1, <2>2
      <4> QED
        BY <4>2, <3>4, <2>0
    <3>5. CASE u # t
      BY <3>3, <3>5, <2>0
    <3> QED
      BY <3>4, <3>5
  <2> QED
    BY <2>4, <2>5, <2>6 DEF QueueInv
<1>12. QuotaExact'
  <2>1. ASSUME NEW q \in Requester PROVE m_peer_queue_count'[q] = Cardinality(EntriesOf(q)')
    <3>1. CASE q = peer
      BY <3>1, <1>4, <1>8, <1>9 DEF EntryTypes
    <3>2. CASE q # peer
      BY <3>2, <1>4, <1>7 DEF EntryTypes, QuotaExact
    <3> QED
      BY <3>1, <3>2
  <2>2. \A q : EntriesOf(q)' \subseteq EntriesOf(q)
    BY <1>7
  <2> QED
    BY <2>1, <2>2, <1>5, FewerEntries
<1> QED
  BY <1>2, <1>1, <1>5, <1>10, <1>11, <1>12

(* A new entry gets one place and is charged to who asks first, whom the   *)
(* limits do not refuse.                                                   *)
LEMMA PushStep ==
    ASSUME EntryTypes, QueueInv, QuotaExact,
           NEW p \in Pos, p \notin Enqueued, NEW r \in Request, ~Refused(asks[r]),
           NEW callbacks \in SUBSET Request,
           m_blocks_enqueued' = [m_blocks_enqueued EXCEPT ![p] =
                [peer |-> asks[r].peer, gen |-> asks[r].gen, callbacks |-> callbacks]],
           m_peer_queue_count' = [m_peer_queue_count EXCEPT ![asks[r].peer] = @ + 1],
           m_block_queue' = [m_block_queue EXCEPT ![OptimalThread] = Append(@, p)]
    PROVE  /\ EntryTypes' /\ QueueInv' /\ QuotaExact'
           /\ Enqueued' = Enqueued \cup {p}
           /\ \A x \in Enqueued : m_blocks_enqueued'[x] = m_blocks_enqueued[x]
           /\ m_blocks_enqueued'[p].callbacks = callbacks
<1>1. PICK t \in EThread : t = OptimalThread
  BY OptimalThreadType DEF EntryTypes
<1>2. PICK s \in Seq(Pos) : s = m_block_queue[t]
  BY DEF EntryTypes
<1>3. PICK peer \in Requester : peer = asks[r].peer
  BY RequestsAssumption
<1>4. PICK d \in BlockEmergeData :
            d = [peer |-> asks[r].peer, gen |-> asks[r].gen, callbacks |-> callbacks]
  BY RequestsAssumption DEF BlockEmergeData
<1>5. /\ m_block_queue' = [m_block_queue EXCEPT ![t] = Append(s, p)]
      /\ m_blocks_enqueued' = [m_blocks_enqueued EXCEPT ![p] = d]
      /\ m_peer_queue_count' = [m_peer_queue_count EXCEPT ![peer] = @ + 1]
      /\ d # None /\ d.peer = peer /\ d.callbacks = callbacks
  BY <1>1, <1>2, <1>3, <1>4, NoneAssumption
<1>6. /\ Enqueued' = Enqueued \cup {p}
      /\ \A x \in Enqueued : m_blocks_enqueued'[x] = m_blocks_enqueued[x]
      /\ m_blocks_enqueued'[p] = d
  BY <1>5 DEF EntryTypes, Enqueued
<1>7. \A q : EntriesOf(q)' = IF q = peer THEN EntriesOf(q) \cup {p} ELSE EntriesOf(q)
  BY <1>5, <1>6 DEF EntriesOf
<1>8. /\ Cardinality(EntriesOf(peer)) \in Nat
      /\ Cardinality(EntriesOf(peer)') = Cardinality(EntriesOf(peer)) + 1
  <2>1. EntriesOf(peer) \in SUBSET Pos /\ p \notin EntriesOf(peer)
    BY EntriesAre DEF EntriesOf
  <2>2. EntriesOf(peer)' = EntriesOf(peer) \cup {p}
    BY <1>7
  <2> QED
    BY <2>1, <2>2, PositionsFinite, CountPlus
<1>9. m_peer_queue_count[peer] = Cardinality(EntriesOf(peer))
  BY DEF QuotaExact
<1>10. EntryTypes'
  <2>1. m_block_queue' \in [EThread -> Seq(Pos)]
    <3>1. Append(s, p) \in Seq(Pos)
      OBVIOUS
    <3> QED
      BY <3>1, <1>5 DEF EntryTypes
  <2>2. m_blocks_enqueued' \in [Pos -> BlockEmergeData \cup {None}]
    BY <1>5 DEF EntryTypes
  <2>3. m_peer_queue_count' \in [Requester -> Nat]
    BY <1>5 DEF EntryTypes
  <2> QED
    BY <2>1, <2>2, <2>3 DEF EntryTypes
<1>11. QueueInv'
  <2>1. /\ Append(s, p) \in Seq(Pos) /\ Len(s) \in Nat
        /\ DOMAIN s = 1 .. Len(s) /\ DOMAIN Append(s, p) = 1 .. Len(s) + 1
        /\ \A i \in 1 .. Len(s) : Append(s, p)[i] = s[i]
        /\ Append(s, p)[Len(s) + 1] = p
    OBVIOUS
  <2>2. \A u \in EThread : m_block_queue'[u] = IF u = t THEN Append(s, p) ELSE m_block_queue[u]
    BY <1>5 DEF EntryTypes
  <2>3. ASSUME NEW u \in EThread, NEW i \in DOMAIN m_block_queue'[u]
        PROVE  \/ i \in DOMAIN m_block_queue[u] /\ m_block_queue'[u][i] = m_block_queue[u][i]
               \/ u = t /\ i = Len(s) + 1 /\ m_block_queue'[u][i] = p
    <3>1. CASE u = t
      <4>1. i \in 1 .. Len(s) + 1 /\ m_block_queue'[u][i] = Append(s, p)[i]
        BY <2>1, <2>2, <2>3, <3>1
      <4>2. i \in 1 .. Len(s) \/ i = Len(s) + 1
        BY <4>1, <2>1
      <4> QED
        BY <4>1, <4>2, <2>1, <3>1, <1>2
    <3>2. CASE u # t
      BY <2>2, <2>3, <3>2
    <3> QED
      BY <3>1, <3>2
  <2>4. \A u \in EThread : \A i \in DOMAIN m_block_queue[u] : m_block_queue[u][i] # p
    BY DEF QueueInv
  <2>5. ASSUME NEW u \in EThread, NEW i \in DOMAIN m_block_queue'[u]
        PROVE  m_block_queue'[u][i] \in Enqueued'
    BY <2>3, <1>6 DEF QueueInv
  <2>6. ASSUME NEW u \in EThread, NEW v \in EThread,
               NEW i \in DOMAIN m_block_queue'[u], NEW j \in DOMAIN m_block_queue'[v],
               m_block_queue'[u][i] = m_block_queue'[v][j]
        PROVE  u = v /\ i = j
    BY <2>3, <2>4, <2>6 DEF QueueInv
  <2>7. ASSUME NEW x \in Enqueued'
        PROVE  \E u \in EThread : \E i \in DOMAIN m_block_queue'[u] : m_block_queue'[u][i] = x
    <3>1. CASE x = p
      <4>1. Len(s) + 1 \in DOMAIN Append(s, p) /\ Append(s, p)[Len(s) + 1] = x
        BY <2>1, <3>1
      <4> QED
        BY <4>1, <2>2
    <3>2. CASE x # p
      <4>1. x \in Enqueued
        BY <1>6, <3>2
      <4>2. PICK u \in EThread : \E i \in DOMAIN m_block_queue[u] : m_block_queue[u][i] = x
        BY <4>1 DEF QueueInv
      <4>3. PICK i \in DOMAIN m_block_queue[u] : m_block_queue[u][i] = x
        BY <4>2
      <4>4. i \in DOMAIN m_block_queue'[u] /\ m_block_queue'[u][i] = x
        <5>1. CASE u = t
          <6>1. i \in 1 .. Len(s) /\ s[i] = x /\ i \in 1 .. Len(s) + 1
            BY <4>3, <5>1, <2>1, <1>2
          <6> QED
            BY <6>1, <5>1, <2>1, <2>2
        <5>2. CASE u # t
          BY <4>3, <5>2, <2>2
        <5> QED
          BY <5>1, <5>2
      <4> QED
        BY <4>4
    <3> QED
      BY <3>1, <3>2
  <2> QED
    BY <2>5, <2>6, <2>7 DEF QueueInv
<1>12. QuotaExact'
  <2>1. ASSUME NEW q \in Requester PROVE m_peer_queue_count'[q] = Cardinality(EntriesOf(q)')
    <3>1. CASE q = peer
      BY <3>1, <1>5, <1>8, <1>9 DEF EntryTypes
    <3>2. CASE q # peer
      BY <3>2, <1>5, <1>7 DEF EntryTypes, QuotaExact
    <3> QED
      BY <3>1, <3>2
  <2>2. peer \in Peer =>
            /\ Cardinality(Enqueued) < m_qlimit_total
            /\ Cardinality(EntriesOf(peer)) <
                    (IF asks[r].gen THEN m_qlimit_generate ELSE m_qlimit_diskonly)
    <3> SUFFICES ASSUME peer \in Peer
                 PROVE  /\ Cardinality(Enqueued) < m_qlimit_total
                        /\ Cardinality(EntriesOf(peer)) <
                                (IF asks[r].gen THEN m_qlimit_generate ELSE m_qlimit_diskonly)
      OBVIOUS
    <3>1. peer # PEER_ID_INEXISTENT /\ ~asks[r].force
      BY <1>3, NoneAssumption, RequestsAssumption
    <3>2. ~(Cardinality(Enqueued) >= m_qlimit_total)
      BY <3>1 DEF Refused
    <3>3. ~(Cardinality(EntriesOf(peer)) >=
                (IF asks[r].gen THEN m_qlimit_generate ELSE m_qlimit_diskonly))
      BY <3>1, <1>3, <1>9 DEF Refused
    <3>4. Cardinality(Enqueued) \in Nat
      BY EntriesAre, PositionsFinite
    <3> QED
      BY <3>2, <3>3, <3>4, <1>8, LimitsAssumption
  <2>3. ASSUME NEW q \in Peer
        PROVE  Cardinality(EntriesOf(q)') <=
                  (IF m_qlimit_diskonly > m_qlimit_generate
                   THEN m_qlimit_diskonly ELSE m_qlimit_generate)
    <3>1. CASE q = peer
      BY <3>1, <2>2, <1>8, LimitsAssumption
    <3>2. CASE q # peer
      BY <3>2, <1>7 DEF QuotaExact
    <3> QED
      BY <3>1, <3>2
  <2>4. Cardinality({x \in Enqueued : m_blocks_enqueued[x].peer \in Peer}') <= m_qlimit_total
    <3>1. CASE peer \in Peer
      <4>1. /\ {x \in Enqueued : m_blocks_enqueued[x].peer \in Peer}' \subseteq Enqueued \cup {p}
            /\ Enqueued \cup {p} \in SUBSET Pos
        BY <1>6, EntriesAre
      <4>2. Cardinality(Enqueued) \in Nat /\ Cardinality(Enqueued \cup {p}) = Cardinality(Enqueued) + 1
        BY EntriesAre, PositionsFinite, CountPlus
      <4>3. /\ Cardinality({x \in Enqueued : m_blocks_enqueued[x].peer \in Peer}') \in Nat
            /\ Cardinality({x \in Enqueued : m_blocks_enqueued[x].peer \in Peer}')
                    <= Cardinality(Enqueued \cup {p})
        BY <4>1, PositionsFinite, FS_Subset
      <4> QED
        BY <4>2, <4>3, <2>2, <3>1, LimitsAssumption
    <3>2. CASE peer \notin Peer
      <4>1. {x \in Enqueued : m_blocks_enqueued[x].peer \in Peer}'
                = {x \in Enqueued : m_blocks_enqueued[x].peer \in Peer}
        BY <3>2, <1>5, <1>6
      <4> QED
        BY <4>1 DEF QuotaExact
    <3> QED
      BY <3>1, <3>2
  <2> QED
    BY <2>1, <2>3, <2>4 DEF QuotaExact
<1> QED
  BY <1>5, <1>6, <1>10, <1>11, <1>12

(* Whoever joins in, an entry stays in its place and with its requester. *)
LEMMA MergeStep ==
    ASSUME EntryTypes, QueueInv, QuotaExact,
           NEW p \in Enqueued, NEW r \in Request,
           m_blocks_enqueued' = [m_blocks_enqueued EXCEPT ![p] = Merged(p, r)],
           UNCHANGED <<m_peer_queue_count, m_block_queue>>
    PROVE  /\ EntryTypes' /\ QueueInv' /\ QuotaExact'
           /\ Enqueued' = Enqueued
           /\ \A x \in Enqueued \ {p} : m_blocks_enqueued'[x] = m_blocks_enqueued[x]
           /\ m_blocks_enqueued'[p].callbacks =
                    m_blocks_enqueued[p].callbacks \cup {x \in {r} : asks[r].callback}
<1>1. PICK d \in BlockEmergeData : d = m_blocks_enqueued[p]
  BY EntriesAre
<1>2. PICK e \in BlockEmergeData :
            /\ e = Merged(p, r)
            /\ e.peer = d.peer
            /\ e.callbacks = d.callbacks \cup {x \in {r} : asks[r].callback}
  <2>1. /\ asks[r].gen \in BOOLEAN /\ d.gen \in BOOLEAN
        /\ d = [peer |-> d.peer, gen |-> d.gen, callbacks |-> d.callbacks]
        /\ d.peer \in Requester /\ d.callbacks \in SUBSET Request
    BY RequestsAssumption DEF BlockEmergeData
  <2>2. PICK g \in BOOLEAN : g = (d.gen \/ asks[r].gen)
    OBVIOUS
  <2>3. Merged(p, r) = [d EXCEPT !.gen = g,
                                 !.callbacks = @ \cup {x \in {r} : asks[r].callback}]
    BY <1>1, <2>2, Zenon DEF Merged
  <2> QED
    BY <2>1, <2>3 DEF BlockEmergeData
<1>3. p \in Pos /\ e # None /\ m_blocks_enqueued' = [m_blocks_enqueued EXCEPT ![p] = e]
  BY <1>2, EntriesAre, NoneAssumption
<1>4. /\ Enqueued' = Enqueued
      /\ \A x \in Enqueued \ {p} : m_blocks_enqueued'[x] = m_blocks_enqueued[x]
      /\ m_blocks_enqueued'[p] = e
  BY <1>3 DEF EntryTypes, Enqueued
<1>5. \A x \in Enqueued : m_blocks_enqueued'[x].peer = m_blocks_enqueued[x].peer
  BY <1>1, <1>2, <1>4
<1>6. EntryTypes'
  BY <1>3 DEF EntryTypes
<1>7. QueueInv'
  BY <1>4 DEF QueueInv
<1>8. QuotaExact'
  <2>1. \A q : EntriesOf(q)' = EntriesOf(q)
    BY <1>4, <1>5 DEF EntriesOf
  <2>2. {x \in Enqueued : m_blocks_enqueued[x].peer \in Peer}'
            = {x \in Enqueued : m_blocks_enqueued[x].peer \in Peer}
    BY <1>4, <1>5
  <2> QED
    BY <2>1, <2>2 DEF QuotaExact
<1> QED
  BY <1>1, <1>2, <1>4, <1>6, <1>7, <1>8

-----------------------------------------------------------------------------
(* Requests and their callbacks *)

RestTypes ==
    /\ m_queue_event \in [EThread -> BOOLEAN]
    /\ m_request_stop \in [EThread -> BOOLEAN]
    /\ m_queue_mutex \in EThread \cup {None}
    /\ m_env_mutex \in Actor \cup {None}
    /\ \A t \in EThread : pc[t] \in ThreadPc
    /\ pc[Server] \in ServerPc
    /\ job \in [EThread -> Job \cup {None}]
    /\ left \in [Actor -> SUBSET Pos]
    /\ request \in [Actor -> Request \cup {None}]
    /\ signalling \in [Actor -> EThread \cup {None}]
    /\ asked \subseteq Request
    /\ refcount \in [Request -> Nat]
    /\ lost \in [Request -> Nat]
    /\ \A a \in Actor : m_env_mutex = a <=> InLua(a)

LEMMA Types == TypeOK <=> EntryTypes /\ RestTypes
BY DEF TypeOK, EntryTypes, RestTypes

(* What a request is still waiting for can be counted. *)
LEMMA CallbacksFinite ==
    ASSUME TypeOK, NEW r
    PROVE  /\ Asking(r) \in SUBSET Pos /\ Cardinality(Asking(r)) \in Nat
           /\ Queued(r) \in SUBSET Pos /\ Cardinality(Queued(r)) \in Nat
           /\ IsFiniteSet(InHand(r)) /\ Cardinality(InHand(r)) \in Nat
<1>1. Asking(r) \in SUBSET Pos /\ Queued(r) \in SUBSET Pos
  BY DEF TypeOK, Asking, Queued, Enqueued
<1>2. IsFiniteSet(InHand(r))
  BY ActorsFinite, FS_Subset DEF InHand
<1> QED
  BY <1>1, <1>2, PositionsFinite, FS_CardinalityType

(* Only one actor asks in the name of a request. *)
LEMMA OneAsks ==
    ASSUME NEW of, NEW for, NEW r, NEW a \in Actor,
           \A b \in Actor : of[b] = r /\ for[b] # {} => b = a
    PROVE  UNION {IF of[b] = r THEN for[b] ELSE {} : b \in Actor}
                = IF of[a] = r THEN for[a] ELSE {}
OBVIOUS

(* What has been said of the queues holds while they are left alone. *)
LEMMA QuietQueue ==
    ASSUME EntryTypes, QueueInv, QuotaExact, UNCHANGED queueVars
    PROVE  /\ EntryTypes' /\ QueueInv' /\ QuotaExact' /\ Enqueued' = Enqueued
<1> USE DEF queueVars
<1>1. EntryTypes'
  BY DEF EntryTypes
<1>2. Enqueued' = Enqueued
  BY DEF Enqueued
<1>3. QueueInv'
  BY <1>2 DEF QueueInv
<1>4. \A q : EntriesOf(q)' = EntriesOf(q)
  BY <1>2 DEF EntriesOf
<1>5. {x \in Enqueued : m_blocks_enqueued[x].peer \in Peer}'
            = {x \in Enqueued : m_blocks_enqueued[x].peer \in Peer}
  BY <1>2
<1>6. QuotaExact'
  BY <1>4, <1>5 DEF QuotaExact
<1> QED
  BY <1>1, <1>2, <1>3, <1>6

(* A step that touches neither the queues nor the requests. *)
LEMMA QuietStep ==
    ASSUME IInv, RestTypes', PlacesInv',
           UNCHANGED <<queueVars, job, left, request, asked, refcount, lost>>
    PROVE  IInv'
<1> USE DEF IInv
<1>1. EntryTypes' /\ QueueInv' /\ QuotaExact' /\ Enqueued' = Enqueued
  BY Types, QuietQueue
<1>2. TypeOK'
  BY <1>1 DEF TypeOK, EntryTypes, RestTypes
<1>3. AskInv'
  BY <1>1 DEF AskInv, queueVars
<1>4. CallbackInv'
  BY <1>1 DEF CallbackInv, Calling, queueVars
<1>5. RefcountExact'
  <2>1. \A r : Asking(r)' = Asking(r) /\ Queued(r)' = Queued(r) /\ InHand(r)' = InHand(r)
    BY <1>1 DEF Asking, Queued, InHand, queueVars
  <2> QED
    BY <2>1 DEF RefcountExact
<1> QED
  BY <1>1, <1>2, <1>3, <1>4, <1>5

(* A new request: nothing of it is queued or in hand yet. *)
LEMMA AskStep ==
    ASSUME IInv, NEW a \in Actor, NEW r \in Request, Ask(a, r)
    PROVE  IInv'
<1> USE DEF IInv
<1>1. /\ left[a] = {} /\ r \notin asked /\ r # None
      /\ asked' = asked \cup {r}
      /\ request' = [request EXCEPT ![a] = r]
      /\ left' = [left EXCEPT ![a] = asks[r].blocks]
      /\ refcount' = [refcount EXCEPT ![r] =
                        IF asks[r].callback THEN Cardinality(asks[r].blocks) ELSE 0]
      /\ UNCHANGED <<queueVars, threadVars, m_queue_mutex, m_env_mutex, pc, job,
                     signalling, lost>>
  BY NoneAssumption DEF Ask
<1>2. asks[r].blocks \in SUBSET Pos /\ Cardinality(asks[r].blocks) \in Nat
  BY RequestsAssumption, PositionsFinite
<1>3. EntryTypes' /\ QueueInv' /\ QuotaExact' /\ Enqueued' = Enqueued
  BY <1>1, Types, QuietQueue
<1>4. /\ request \in [Actor -> Request \cup {None}] /\ left \in [Actor -> SUBSET Pos]
      /\ refcount \in [Request -> Nat] /\ asked \subseteq Request
  BY DEF TypeOK
<1>5. RestTypes'
  BY <1>1, <1>2, <1>4, Types DEF RestTypes, InLua, threadVars
<1>6. TypeOK'
  BY <1>3, <1>5 DEF TypeOK, EntryTypes, RestTypes
<1>7. PlacesInv'
  BY <1>1 DEF PlacesInv
<1>8. \A b \in Actor : request[b] # r
  BY <1>1 DEF AskInv
<1>9. \A b \in Actor : /\ request'[b] = IF b = a THEN r ELSE request[b]
                       /\ left'[b] = IF b = a THEN asks[r].blocks ELSE left[b]
  BY <1>1, <1>4
<1>10. /\ \A p \in Enqueued : r \notin m_blocks_enqueued[p].callbacks
       /\ \A t \in EThread : job[t] # None => r \notin job[t].callbacks
       /\ lost[r] = 0
  BY <1>1 DEF CallbackInv, Calling
<1>11. AskInv'
  <2>1. \A b, c \in Actor : request'[b] = request'[c] /\ request'[b] # None => b = c
    BY <1>8, <1>9 DEF AskInv
  <2>2. \A b \in Actor : request'[b] # None => request'[b] \in asked'
    BY <1>1, <1>9 DEF AskInv
  <2>3. \A b \in Actor : left'[b] # {} => request'[b] # None
    BY <1>1, <1>9 DEF AskInv
  <2>4. ASSUME NEW b \in Actor, request'[b] # None, NEW p \in left'[b] \cap Enqueued'
        PROVE  request'[b] \notin m_blocks_enqueued'[p].callbacks
    <3>1. m_blocks_enqueued' = m_blocks_enqueued /\ p \in Enqueued
      BY <1>1, <1>3 DEF queueVars
    <3>2. CASE b = a
      BY <3>1, <3>2, <1>9, <1>10
    <3>3. CASE b # a
      BY <3>1, <3>3, <2>4, <1>9 DEF AskInv
    <3> QED
      BY <3>2, <3>3
  <2> QED
    BY <2>1, <2>2, <2>3, <2>4 DEF AskInv
<1>12. CallbackInv'
  BY <1>1, <1>3 DEF CallbackInv, Calling, queueVars
<1>13. RefcountExact'
  <2> SUFFICES ASSUME NEW x \in asked', asks[x].callback
               PROVE  refcount'[x] = Cardinality(Asking(x)') + Cardinality(Queued(x)')
                                     + Cardinality(InHand(x)') + lost'[x]
    BY DEF RefcountExact
  <2>1. Queued(x)' = Queued(x) /\ InHand(x)' = InHand(x)
    BY <1>1, <1>3 DEF Queued, InHand, queueVars
  <2>2. CASE x = r
    <3>1. Queued(x) = {} /\ InHand(x) = {}
      BY <1>10, <2>2 DEF Queued, InHand
    <3>2. Asking(x)' = asks[r].blocks
      BY <1>8, <1>9, <2>2, OneAsks DEF Asking
    <3>3. refcount'[x] = Cardinality(asks[r].blocks) /\ lost'[x] = 0
      BY <1>1, <1>4, <1>10, <2>2
    <3> QED
      BY <3>1, <3>2, <3>3, <2>1, <1>2, FS_EmptySet
  <2>3. CASE x # r
    <3>1. Asking(x)' = Asking(x)
      <4>1. \A b \in Actor : (IF request'[b] = x THEN left'[b] ELSE {})
                                = (IF request[b] = x THEN left[b] ELSE {})
        BY <1>1, <1>9, <2>3
      <4> QED
        BY <4>1 DEF Asking
    <3>2. x \in asked /\ x \in Request /\ refcount'[x] = refcount[x] /\ lost'[x] = lost[x]
      BY <1>1, <1>4, <2>3
    <3> QED
      BY <3>1, <3>2, <2>1 DEF RefcountExact
  <2> QED
    BY <2>2, <2>3
<1> QED
  BY <1>3, <1>6, <1>7, <1>11, <1>12, <1>13

(* A refusal ends a request, which has no callbacks. *)
LEMMA RefusedStep ==
    ASSUME IInv, NEW a \in Actor, left[a] # {}, Refused(asks[request[a]]),
           left' = [left EXCEPT ![a] = {}],
           UNCHANGED <<queueVars, signalling, threadVars, m_queue_mutex, m_env_mutex,
                       pc, job, request, asked, refcount, lost>>
    PROVE  IInv'
<1> USE DEF IInv
<1>1. EntryTypes' /\ QueueInv' /\ QuotaExact' /\ Enqueued' = Enqueued
  BY Types, QuietQueue
<1>2. PICK r \in Request : r = request[a]
  BY DEF TypeOK, AskInv
<1>3. ~asks[r].callback
  BY <1>2, RequestsAssumption DEF Refused
<1>4. \A b \in Actor : left'[b] = IF b = a THEN {} ELSE left[b]
  BY DEF TypeOK
<1>5. RestTypes'
  BY Types DEF RestTypes, InLua, threadVars
<1>6. TypeOK'
  BY <1>1, <1>5 DEF TypeOK, EntryTypes, RestTypes
<1>7. PlacesInv'
  BY DEF PlacesInv
<1>8. AskInv'
  BY <1>1, <1>4 DEF AskInv, queueVars
<1>9. CallbackInv'
  BY <1>1 DEF CallbackInv, Calling, queueVars
<1>10. RefcountExact'
  <2> SUFFICES ASSUME NEW x \in asked', asks[x].callback
               PROVE  refcount'[x] = Cardinality(Asking(x)') + Cardinality(Queued(x)')
                                     + Cardinality(InHand(x)') + lost'[x]
    BY DEF RefcountExact
  <2>1. Queued(x)' = Queued(x) /\ InHand(x)' = InHand(x)
    BY <1>1 DEF Queued, InHand, queueVars
  <2>2. \A b \in Actor : (IF request'[b] = x THEN left'[b] ELSE {})
                            = (IF request[b] = x THEN left[b] ELSE {})
    BY <1>2, <1>3, <1>4
  <2>3. Asking(x)' = Asking(x)
    BY <2>2 DEF Asking
  <2> QED
    BY <2>1, <2>3 DEF RefcountExact
<1> QED
  BY <1>1, <1>6, <1>7, <1>8, <1>9, <1>10

(* What is asked for moves from the request to the entry. *)
LEMMA JoinStep ==
    ASSUME IInv, NEW a \in Actor, NEW r \in Request, r = request[a],
           NEW p \in Pos, p \in left[a],
           left' = [left EXCEPT ![a] = @ \ {p}],
           EntryTypes', QueueInv', QuotaExact',
           Enqueued' = Enqueued \cup {p},
           \A x \in Enqueued \ {p} : m_blocks_enqueued'[x] = m_blocks_enqueued[x],
           m_blocks_enqueued'[p].callbacks =
                (IF p \in Enqueued THEN m_blocks_enqueued[p].callbacks ELSE {})
                    \cup {x \in {r} : asks[r].callback},
           signalling' \in [Actor -> EThread \cup {None}],
           UNCHANGED <<threadVars, m_queue_mutex, m_env_mutex, pc, job, request,
                       asked, refcount, lost>>
    PROVE  IInv'
<1> USE DEF IInv
<1>1. r \in asked /\ r # None
  BY NoneAssumption DEF AskInv
<1>2. \A b \in Actor : left'[b] = IF b = a THEN left[a] \ {p} ELSE left[b]
  BY DEF TypeOK
<1>3. p \in Enqueued => r \notin m_blocks_enqueued[p].callbacks
  BY <1>1 DEF AskInv
<1>4. RestTypes'
  BY Types DEF RestTypes, InLua, threadVars
<1>5. TypeOK'
  BY <1>4 DEF TypeOK, EntryTypes, RestTypes
<1>6. PlacesInv'
  BY DEF PlacesInv
<1>7. AskInv'
  <2>1. \A b \in Actor : left'[b] # {} => request'[b] # None
    BY <1>2 DEF AskInv
  <2>2. ASSUME NEW b \in Actor, request'[b] # None, NEW x \in left'[b] \cap Enqueued'
        PROVE  request'[b] \notin m_blocks_enqueued'[x].callbacks
    <3>1. CASE x # p
      <4>1. x \in left[b] \cap Enqueued /\ m_blocks_enqueued'[x] = m_blocks_enqueued[x]
        BY <2>2, <3>1, <1>2
      <4> QED
        BY <4>1, <2>2 DEF AskInv
    <3>2. CASE x = p
      <4>1. b # a /\ x \in left[b]
        BY <2>2, <3>2, <1>2
      <4>2. request[b] # r
        BY <4>1, <1>1 DEF AskInv
      <4>3. p \in Enqueued => request[b] \notin m_blocks_enqueued[p].callbacks
        BY <4>1, <2>2, <3>2 DEF AskInv
      <4> QED
        BY <4>2, <4>3, <3>2
    <3> QED
      BY <3>1, <3>2
  <2> QED
    BY <2>1, <2>2 DEF AskInv
<1>8. CallbackInv'
  <2>1. ASSUME NEW x \in Enqueued' PROVE m_blocks_enqueued'[x].callbacks \subseteq Calling'
    <3>1. Calling' = Calling
      BY DEF Calling
    <3>2. CASE x # p
      <4>1. x \in Enqueued /\ m_blocks_enqueued'[x] = m_blocks_enqueued[x]
        BY <3>2
      <4> QED
        BY <4>1, <3>1 DEF CallbackInv
    <3>3. CASE x = p
      <4>1. {y \in {r} : asks[r].callback} \subseteq Calling
        BY <1>1 DEF Calling
      <4> QED
        BY <4>1, <3>1, <3>3 DEF CallbackInv
    <3> QED
      BY <3>2, <3>3
  <2> QED
    BY <2>1 DEF CallbackInv, Calling
<1>9. RefcountExact'
  <2> SUFFICES ASSUME NEW x \in asked', asks[x].callback
               PROVE  refcount'[x] = Cardinality(Asking(x)') + Cardinality(Queued(x)')
                                     + Cardinality(InHand(x)') + lost'[x]
    BY DEF RefcountExact
  <2>1. /\ x \in asked /\ x \in Request
        /\ refcount'[x] = refcount[x] /\ lost'[x] = lost[x] /\ lost[x] \in Nat
    BY DEF TypeOK
  <2>2. InHand(x)' = InHand(x)
    BY DEF InHand
  <2>3. refcount[x] = Cardinality(Asking(x)) + Cardinality(Queued(x))
                      + Cardinality(InHand(x)) + lost[x]
    BY <2>1 DEF RefcountExact
  <2>4. CASE x = r
    <3>1. \A b \in Actor : request[b] = r => b = a
      BY <1>1 DEF AskInv
    <3>2. Asking(x) = left[a]
      BY <3>1, <2>4, OneAsks DEF Asking
    <3>3. Asking(x)' = left[a] \ {p}
      <4>1. \A b \in Actor : request'[b] = x /\ left'[b] # {} => b = a
        BY <3>1, <2>4
      <4> QED
        BY <4>1, <1>2, <2>4, OneAsks DEF Asking
    <3>4. Cardinality(Asking(x)') = Cardinality(Asking(x)) - 1
      BY <3>2, <3>3, CallbacksFinite, PositionsFinite, CountMinus
    <3>5. Queued(x)' = Queued(x) \cup {p} /\ p \notin Queued(x)
      BY <1>3, <2>4 DEF Queued
    <3>6. Cardinality(Queued(x)') = Cardinality(Queued(x)) + 1
      BY <3>5, CallbacksFinite, PositionsFinite, CountPlus
    <3> QED
      BY <3>4, <3>6, <2>1, <2>2, <2>3, CallbacksFinite
  <2>5. CASE x # r
    <3>1. Queued(x)' = Queued(x)
      BY <2>5 DEF Queued
    <3>2. \A b \in Actor : (IF request'[b] = x THEN left'[b] ELSE {})
                              = (IF request[b] = x THEN left[b] ELSE {})
      BY <1>2, <2>5
    <3>3. Asking(x)' = Asking(x)
      BY <3>2 DEF Asking
    <3> QED
      BY <3>1, <3>3, <2>1, <2>2, <2>3
  <2> QED
    BY <2>4, <2>5
<1> QED
  BY <1>5, <1>6, <1>7, <1>8, <1>9

LEMMA EnqueueStep ==
    ASSUME IInv, NEW a \in Actor, EnqueueBlockEmergeEx(a)
    PROVE  IInv'
<1>0. TypeOK /\ EntryTypes /\ QueueInv /\ QuotaExact /\ AskInv
  BY Types DEF IInv
<1>1. left[a] # {} /\ left[a] \in SUBSET Pos
  BY <1>0 DEF EnqueueBlockEmergeEx, TypeOK
<1>2. PICK p \in left[a] : p = CHOOSE x \in left[a] : \A y \in left[a] : x <= y
  BY <1>1, FirstPosition
<1>3. PICK r \in Request : r = request[a]
  BY <1>0, <1>1 DEF TypeOK, AskInv
<1>4. UNCHANGED <<threadVars, m_queue_mutex, m_env_mutex, pc, job, request, asked,
                  refcount, lost>>
  BY DEF EnqueueBlockEmergeEx
<1>5. left' = [left EXCEPT ![a] = IF Refused(asks[r]) THEN {} ELSE @ \ {p}]
  BY <1>2, <1>3 DEF EnqueueBlockEmergeEx
<1>6. \/ /\ Refused(asks[r])
         /\ UNCHANGED <<queueVars, signalling>>
      \/ /\ ~Refused(asks[r]) /\ ~IsNew(p)
         /\ m_blocks_enqueued' = [m_blocks_enqueued EXCEPT ![p] = Merged(p, r)]
         /\ UNCHANGED <<m_peer_queue_count, m_block_queue, signalling>>
      \/ /\ ~Refused(asks[r]) /\ IsNew(p)
         /\ m_blocks_enqueued' = [m_blocks_enqueued EXCEPT ![p] =
                [peer |-> asks[r].peer, gen |-> asks[r].gen,
                 callbacks |-> {x \in {r} : asks[r].callback}]]
         /\ m_peer_queue_count' = [m_peer_queue_count EXCEPT ![asks[r].peer] = @ + 1]
         /\ m_block_queue' = [m_block_queue EXCEPT ![OptimalThread] = Append(@, p)]
         /\ signalling' = [signalling EXCEPT ![a] = OptimalThread]
  BY <1>2, <1>3 DEF EnqueueBlockEmergeEx
<1>7. p \in Pos /\ (p \in Enqueued <=> ~IsNew(p))
  BY <1>1 DEF Enqueued, IsNew
<1>8. CASE Refused(asks[r])
  BY <1>1, <1>3, <1>4, <1>5, <1>6, <1>8, RefusedStep
<1>9. CASE ~Refused(asks[r]) /\ p \in Enqueued
  <2>1. /\ EntryTypes' /\ QueueInv' /\ QuotaExact'
        /\ Enqueued' = Enqueued
        /\ \A x \in Enqueued \ {p} : m_blocks_enqueued'[x] = m_blocks_enqueued[x]
        /\ m_blocks_enqueued'[p].callbacks =
                m_blocks_enqueued[p].callbacks \cup {x \in {r} : asks[r].callback}
    BY <1>0, <1>6, <1>7, <1>9, MergeStep
  <2>2. signalling' \in [Actor -> EThread \cup {None}]
    BY <1>0, <1>6, <1>7, <1>9 DEF TypeOK
  <2>3. /\ left' = [left EXCEPT ![a] = @ \ {p}]
        /\ Enqueued' = Enqueued \cup {p}
        /\ m_blocks_enqueued'[p].callbacks =
                (IF p \in Enqueued THEN m_blocks_enqueued[p].callbacks ELSE {})
                    \cup {x \in {r} : asks[r].callback}
    BY <2>1, <1>5, <1>9
  <2> QED
    BY <2>1, <2>2, <2>3, <1>3, <1>4, <1>7, JoinStep
<1>10. CASE ~Refused(asks[r]) /\ p \notin Enqueued
  <2> DEFINE callbacks == {x \in {r} : asks[r].callback}
  <2>0. callbacks \in SUBSET Request
    OBVIOUS
  <2>1. /\ m_blocks_enqueued' = [m_blocks_enqueued EXCEPT ![p] =
                [peer |-> asks[r].peer, gen |-> asks[r].gen, callbacks |-> callbacks]]
        /\ m_peer_queue_count' = [m_peer_queue_count EXCEPT ![asks[r].peer] = @ + 1]
        /\ m_block_queue' = [m_block_queue EXCEPT ![OptimalThread] = Append(@, p)]
    BY <1>6, <1>7, <1>10
  <2> HIDE DEF callbacks
  <2>2. /\ EntryTypes' /\ QueueInv' /\ QuotaExact'
        /\ Enqueued' = Enqueued \cup {p}
        /\ \A x \in Enqueued : m_blocks_enqueued'[x] = m_blocks_enqueued[x]
        /\ m_blocks_enqueued'[p].callbacks = callbacks
    BY <2>0, <2>1, <1>0, <1>7, <1>10, PushStep
  <2>3. signalling' \in [Actor -> EThread \cup {None}]
    BY <1>0, <1>6, <1>7, <1>10, OptimalThreadType DEF TypeOK
  <2>4. /\ left' = [left EXCEPT ![a] = @ \ {p}]
        /\ m_blocks_enqueued'[p].callbacks =
                (IF p \in Enqueued THEN m_blocks_enqueued[p].callbacks ELSE {})
                    \cup {x \in {r} : asks[r].callback}
    BY <2>2, <1>5, <1>10 DEF callbacks
  <2> QED
    BY <2>2, <2>3, <2>4, <1>3, <1>4, <1>7, JoinStep
<1> QED
  BY <1>8, <1>9, <1>10

-----------------------------------------------------------------------------
(* The threads *)

LEMMA ServerIsNoThread == Server \notin EThread /\ Server \in Actor /\ EThread \subseteq Actor
BY ThreadsAssumption DEF Server, EThread, Actor

LEMMA FrontType ==
    ASSUME IInv, NEW t \in EThread, m_block_queue[t] # <<>>
    PROVE  /\ Front(t) \in Job /\ Front(t) # None
           /\ Front(t).callbacks = m_blocks_enqueued[Head(m_block_queue[t])].callbacks
           /\ Front(t).callbacks \subseteq Calling /\ Front(t).callbacks \subseteq Request
<1>1. /\ Head(m_block_queue[t]) \in Enqueued /\ Head(m_block_queue[t]) \in Pos
      /\ m_blocks_enqueued[Head(m_block_queue[t])] \in BlockEmergeData
  BY Types, FrontIs, EntriesAre DEF IInv
<1>2. Front(t) \in Job /\ Front(t) # None
  BY <1>1, NoneAssumption DEF Front, Job, BlockEmergeData
<1> QED
  BY <1>1, <1>2 DEF Front, Job, IInv, CallbackInv

(* An entry that goes takes its callbacks along. *)
LEMMA PopLeaves ==
    ASSUME IInv, NEW t \in EThread, m_block_queue[t] # <<>>, PopBlockEmergeData(t),
           UNCHANGED <<left, request, asked>>
    PROVE  /\ EntryTypes' /\ QueueInv' /\ QuotaExact' /\ AskInv'
           /\ \A x \in Enqueued' : m_blocks_enqueued'[x].callbacks \subseteq Calling
           /\ \A r : /\ Asking(r)' = Asking(r)
                     /\ Cardinality(Queued(r)') = Cardinality(Queued(r))
                            - (IF r \in Front(t).callbacks THEN 1 ELSE 0)
<1> USE DEF IInv
<1>1. PICK p \in Enqueued : p = Head(m_block_queue[t])
  BY Types, FrontIs
<1>2. /\ EntryTypes' /\ QueueInv' /\ QuotaExact'
      /\ Enqueued' = Enqueued \ {p}
      /\ \A x \in Enqueued' : m_blocks_enqueued'[x] = m_blocks_enqueued[x]
  BY <1>1, Types, PopStep
<1>3. AskInv'
  BY <1>2 DEF AskInv
<1>4. \A x \in Enqueued' : m_blocks_enqueued'[x].callbacks \subseteq Calling
  BY <1>2 DEF CallbackInv
<1>5. ASSUME NEW r
      PROVE  /\ Asking(r)' = Asking(r)
             /\ Cardinality(Queued(r)') = Cardinality(Queued(r))
                    - (IF r \in Front(t).callbacks THEN 1 ELSE 0)
  <2>1. Asking(r)' = Asking(r)
    BY DEF Asking
  <2>2. r \in Front(t).callbacks <=> p \in Queued(r)
    BY <1>1, FrontType DEF Queued
  <2>3. Queued(r)' = Queued(r) \ {p}
    BY <1>2 DEF Queued
  <2>4. CASE p \in Queued(r)
    <3>1. Cardinality(Queued(r)') = Cardinality(Queued(r)) - 1
      BY <2>3, <2>4, CallbacksFinite, PositionsFinite, CountMinus
    <3> QED
      BY <3>1, <2>1, <2>2, <2>4
  <2>5. CASE p \notin Queued(r)
    <3>1. Queued(r)' = Queued(r) /\ Cardinality(Queued(r)) \in Nat
      BY <2>3, <2>5, CallbacksFinite
    <3> QED
      BY <3>1, <2>1, <2>2, <2>5
  <2> QED
    BY <2>4, <2>5
<1> QED
  BY <1>2, <1>3, <1>4, <1>5

(* What goes from an entry into a thread's hands, *)
LEMMA TakeStep ==
    ASSUME IInv, NEW t \in EThread, m_block_queue[t] # <<>>, job[t] = None,
           PopBlockEmergeData(t), job' = [job EXCEPT ![t] = Front(t)],
           RestTypes', PlacesInv',
           UNCHANGED <<left, request, asked, refcount, lost>>
    PROVE  IInv'
<1> USE DEF IInv
<1>1. /\ EntryTypes' /\ QueueInv' /\ QuotaExact' /\ AskInv'
      /\ \A x \in Enqueued' : m_blocks_enqueued'[x].callbacks \subseteq Calling
  BY PopLeaves
<1>2. PICK j \in Job : /\ j = Front(t) /\ j # None
                       /\ j.callbacks \subseteq Calling
  BY FrontType
<1>3. \A u \in EThread : job'[u] = IF u = t THEN j ELSE job[u]
  BY <1>2 DEF TypeOK
<1>4. TypeOK'
  BY <1>1 DEF TypeOK, EntryTypes, RestTypes
<1>5. CallbackInv'
  BY <1>1, <1>2, <1>3 DEF CallbackInv, Calling
<1>6. RefcountExact'
  <2> SUFFICES ASSUME NEW x \in asked', asks[x].callback
               PROVE  refcount'[x] = Cardinality(Asking(x)') + Cardinality(Queued(x)')
                                     + Cardinality(InHand(x)') + lost'[x]
    BY DEF RefcountExact
  <2>1. Cardinality(Queued(x)') =
            Cardinality(Queued(x)) - (IF x \in j.callbacks THEN 1 ELSE 0)
    BY <1>2, PopLeaves
  <2>2. Asking(x)' = Asking(x)
    BY PopLeaves
  <2>3. refcount[x] = Cardinality(Asking(x)) + Cardinality(Queued(x))
                      + Cardinality(InHand(x)) + lost[x]
    BY DEF RefcountExact
  <2>4. Cardinality(InHand(x)') =
            Cardinality(InHand(x)) + (IF x \in j.callbacks THEN 1 ELSE 0)
    <3>1. CASE x \in j.callbacks
      <4>1. InHand(x)' = InHand(x) \cup {t} /\ t \notin InHand(x)
        BY <3>1, <1>2, <1>3 DEF InHand
      <4> QED
        BY <4>1, <3>1, CallbacksFinite, CountPlus
    <3>2. CASE x \notin j.callbacks
      <4>1. InHand(x)' = InHand(x) /\ Cardinality(InHand(x)) \in Nat
        BY <3>2, <1>2, <1>3, CallbacksFinite DEF InHand
      <4> QED
        BY <4>1, <3>2
    <3> QED
      BY <3>1, <3>2
  <2>5. lost'[x] = lost[x] /\ lost[x] \in Nat /\ refcount'[x] = refcount[x]
    BY DEF TypeOK
  <2>6. /\ Cardinality(Asking(x)) \in Nat /\ Cardinality(Queued(x)) \in Nat
        /\ Cardinality(InHand(x)) \in Nat
    BY CallbacksFinite
  <2> QED
    BY <2>1, <2>2, <2>3, <2>4, <2>5, <2>6
<1> QED
  BY <1>1, <1>4, <1>5, <1>6

(* or is lost with a position that is passed over. *)
LEMMA PassOverStep ==
    ASSUME IInv, NEW t \in EThread, m_block_queue[t] # <<>>,
           PopBlockEmergeData(t), Forget(Front(t).callbacks),
           UNCHANGED <<threadVars, m_queue_mutex, m_env_mutex, pc, job, luaVars, refcount>>
    PROVE  IInv'
<1> USE DEF IInv, luaVars
<1>1. /\ EntryTypes' /\ QueueInv' /\ QuotaExact' /\ AskInv'
      /\ \A x \in Enqueued' : m_blocks_enqueued'[x].callbacks \subseteq Calling
  BY PopLeaves
<1>2. \A r \in Request :
        lost'[r] = IF r \in Front(t).callbacks THEN lost[r] + 1 ELSE lost[r]
  BY DEF Forget
<1>3. lost' \in [Request -> Nat]
  BY DEF Forget, TypeOK
<1>4. RestTypes'
  BY <1>3, Types DEF RestTypes, InLua, threadVars
<1>5. TypeOK'
  BY <1>1, <1>4 DEF TypeOK, EntryTypes, RestTypes
<1>6. PlacesInv'
  BY DEF PlacesInv
<1>7. CallbackInv'
  <2>1. \A r \in Request \ asked : r \notin Front(t).callbacks
    BY FrontType DEF Calling
  <2> QED
    BY <2>1, <1>1, <1>2 DEF CallbackInv, Calling
<1>8. RefcountExact'
  <2> SUFFICES ASSUME NEW x \in asked', asks[x].callback
               PROVE  refcount'[x] = Cardinality(Asking(x)') + Cardinality(Queued(x)')
                                     + Cardinality(InHand(x)') + lost'[x]
    BY DEF RefcountExact
  <2>1. /\ Cardinality(Queued(x)') = Cardinality(Queued(x))
                - (IF x \in Front(t).callbacks THEN 1 ELSE 0)
        /\ Asking(x)' = Asking(x)
    BY PopLeaves
  <2>2. refcount[x] = Cardinality(Asking(x)) + Cardinality(Queued(x))
                      + Cardinality(InHand(x)) + lost[x]
    BY DEF RefcountExact
  <2>3. InHand(x)' = InHand(x)
    BY DEF InHand
  <2>4. /\ lost'[x] = lost[x] + (IF x \in Front(t).callbacks THEN 1 ELSE 0)
        /\ lost[x] \in Nat /\ refcount'[x] = refcount[x]
    <3>1. x \in Request /\ lost[x] \in Nat /\ refcount'[x] = refcount[x]
      BY DEF TypeOK
    <3> QED
      BY <3>1, <1>2
  <2>5. /\ Cardinality(Asking(x)) \in Nat /\ Cardinality(Queued(x)) \in Nat
        /\ Cardinality(InHand(x)) \in Nat
    BY CallbacksFinite
  <2> QED
    BY <2>1, <2>2, <2>3, <2>4, <2>5
<1> QED
  BY <1>1, <1>5, <1>6, <1>7, <1>8

(* What a thread has in hand: it is lost when loading fails, *)
LEMMA LoadErrorStep ==
    ASSUME IInv, NEW t \in EThread, LoadError(t)
    PROVE  IInv'
<1> USE DEF IInv
<1>1. /\ pc[t] = "work" /\ pc' = [pc EXCEPT ![t] = "ending"]
      /\ Forget(job[t].callbacks)
      /\ job' = [job EXCEPT ![t] = None]
      /\ UNCHANGED <<queueVars, threadVars, m_queue_mutex, m_env_mutex, luaVars, refcount>>
  BY DEF LoadError, Goto
<1>2. PICK j \in Job : j = job[t] /\ j # None /\ j.callbacks \subseteq Calling
  BY <1>1 DEF PlacesInv, CallbackInv, TypeOK
<1>3. EntryTypes' /\ QueueInv' /\ QuotaExact' /\ Enqueued' = Enqueued
  BY <1>1, Types, QuietQueue
<1>4. \A u \in EThread : job'[u] = IF u = t THEN None ELSE job[u]
  BY <1>1 DEF TypeOK
<1>5. /\ lost' \in [Request -> Nat]
      /\ \A r \in Request : lost'[r] = IF r \in j.callbacks THEN lost[r] + 1 ELSE lost[r]
  BY <1>1, <1>2 DEF Forget, TypeOK
<1>6. \A a \in Actor : pc'[a] = IF a = t THEN "ending" ELSE pc[a]
  BY <1>1 DEF PlacesInv
<1>7. RestTypes'
  BY <1>1, <1>5, <1>6, ServerIsNoThread, Types
  DEF RestTypes, InLua, threadVars, luaVars, ThreadPc
<1>8. TypeOK'
  BY <1>3, <1>7 DEF TypeOK, EntryTypes, RestTypes
<1>9. PlacesInv'
  <2>1. pc' \in [Actor -> ThreadPc \cup ServerPc]
    BY <1>1 DEF PlacesInv, ThreadPc
  <2> QED
    BY <2>1, <1>1, <1>4, <1>6, ServerIsNoThread DEF PlacesInv
<1>10. AskInv'
  BY <1>1, <1>3 DEF AskInv, queueVars, luaVars
<1>11. CallbackInv'
  <2>1. \A r \in Request \ asked : r \notin j.callbacks
    BY <1>2 DEF Calling
  <2>2. \A u \in EThread : job'[u] # None => job'[u].callbacks \subseteq Calling
    BY <1>4 DEF CallbackInv
  <2> QED
    BY <2>1, <2>2, <1>1, <1>3, <1>5 DEF CallbackInv, Calling, queueVars, luaVars
<1>12. RefcountExact'
  <2> SUFFICES ASSUME NEW x \in asked', asks[x].callback
               PROVE  refcount'[x] = Cardinality(Asking(x)') + Cardinality(Queued(x)')
                                     + Cardinality(InHand(x)') + lost'[x]
    BY DEF RefcountExact
  <2>1. Asking(x)' = Asking(x) /\ Queued(x)' = Queued(x)
    BY <1>1, <1>3 DEF Asking, Queued, queueVars, luaVars
  <2>2. /\ x \in Request /\ refcount'[x] = refcount[x] /\ lost[x] \in Nat
        /\ refcount[x] = Cardinality(Asking(x)) + Cardinality(Queued(x))
                         + Cardinality(InHand(x)) + lost[x]
    BY <1>1 DEF TypeOK, RefcountExact, luaVars
  <2>3. /\ Cardinality(Asking(x)) \in Nat /\ Cardinality(Queued(x)) \in Nat
        /\ IsFiniteSet(InHand(x)) /\ Cardinality(InHand(x)) \in Nat
    BY CallbacksFinite
  <2>4. CASE x \in j.callbacks
    <3>1. t \in InHand(x) /\ InHand(x)' = InHand(x) \ {t}
      BY <2>4, <1>2, <1>4 DEF InHand
    <3>2. Cardinality(InHand(x)') = Cardinality(InHand(x)) - 1
      BY <3>1, <2>3, CountMinus
    <3> QED
      BY <3>2, <2>1, <2>2, <2>3, <2>4, <1>5
  <2>5. CASE x \notin j.callbacks
    <3>1. InHand(x)' = InHand(x)
      BY <2>5, <1>2, <1>4 DEF InHand
    <3> QED
      BY <3>1, <2>1, <2>2, <2>5, <1>5
  <2> QED
    BY <2>4, <2>5
<1> QED
  BY <1>3, <1>8, <1>9, <1>10, <1>11, <1>12

(* and counted down as the callbacks are run: there is one to count. *)
LEMMA CallStep ==
    ASSUME IInv, NEW t \in EThread, NEW r \in Request, RunCallback(t, r)
    PROVE  IInv'
<1> USE DEF IInv
<1>1. /\ pc[t] = "callbacks" /\ m_env_mutex = None /\ m_env_mutex' = t
      /\ pc' = [pc EXCEPT ![t] = "calling"]
      /\ r \in job[t].callbacks
      /\ job' = [job EXCEPT ![t].callbacks = @ \ {r}]
      /\ refcount' = [refcount EXCEPT ![r] = @ - 1]
      /\ UNCHANGED <<queueVars, threadVars, m_queue_mutex, luaVars, lost>>
  BY DEF RunCallback, EnterLua, Goto
<1>2. PICK j \in Job : j = job[t] /\ j # None /\ j.callbacks \subseteq Calling
  BY <1>1 DEF PlacesInv, CallbackInv, TypeOK
<1>3. PICK k \in Job : /\ k # None /\ k.callbacks = j.callbacks \ {r}
                       /\ \A u \in EThread : job'[u] = IF u = t THEN k ELSE job[u]
                       /\ job' = [job EXCEPT ![t] = k]
  <2>1. [j EXCEPT !.callbacks = @ \ {r}] \in Job
    BY DEF Job
  <2>2. job' = [job EXCEPT ![t] = [j EXCEPT !.callbacks = @ \ {r}]]
    BY <1>1, <1>2
  <2>3. [j EXCEPT !.callbacks = @ \ {r}].callbacks = j.callbacks \ {r}
    BY DEF Job
  <2> QED
    BY <2>1, <2>2, <2>3, NoneAssumption DEF TypeOK
<1>4. EntryTypes' /\ QueueInv' /\ QuotaExact' /\ Enqueued' = Enqueued
  BY <1>1, Types, QuietQueue
<1>5. r \in asked /\ asks[r].callback /\ t \in InHand(r)
  BY <1>1, <1>2 DEF Calling, InHand
<1>6. /\ refcount[r] = Cardinality(Asking(r)) + Cardinality(Queued(r))
                       + Cardinality(InHand(r)) + lost[r]
      /\ lost[r] \in Nat
  BY <1>5 DEF RefcountExact, TypeOK
<1>7. /\ InHand(r)' = InHand(r) \ {t}
      /\ Cardinality(InHand(r)') = Cardinality(InHand(r)) - 1
      /\ Cardinality(InHand(r)') \in Nat
  <2>1. InHand(r)' = InHand(r) \ {t}
    BY <1>3 DEF InHand
  <2>2. IsFiniteSet(InHand(r)) /\ IsFiniteSet(InHand(r) \ {t})
    BY CallbacksFinite, FS_RemoveElement
  <2> QED
    BY <2>1, <2>2, <1>5, CountMinus, FS_CardinalityType
<1>8. refcount[r] - 1 \in Nat
  BY <1>6, <1>7, CallbacksFinite
<1>9. \A a \in Actor : pc'[a] = IF a = t THEN "calling" ELSE pc[a]
  BY <1>1 DEF PlacesInv
<1>10. RestTypes'
  <2>1. /\ refcount' = [refcount EXCEPT ![r] = @ - 1] /\ refcount \in [Request -> Nat]
        /\ job' = [job EXCEPT ![t] = k] /\ job \in [EThread -> Job \cup {None}]
    BY <1>1, <1>3 DEF TypeOK
  <2>2. refcount' \in [Request -> Nat] /\ job' \in [EThread -> Job \cup {None}]
    <3> HIDE DEF IInv
    <3> QED
      BY <2>1, <1>8
  <2>3. \A a \in Actor : m_env_mutex' = a <=> InLua(a)'
    BY <1>1, <1>9, ServerIsNoThread, NoneAssumption DEF TypeOK, InLua
  <2>4. (\A u \in EThread : pc'[u] \in ThreadPc) /\ pc'[Server] \in ServerPc
    BY <1>9, ServerIsNoThread DEF TypeOK, ThreadPc
  <2> QED
    BY <2>1, <2>2, <2>3, <2>4, <1>1, ServerIsNoThread DEF TypeOK, RestTypes, threadVars, luaVars
<1>11. TypeOK'
  BY <1>4, <1>10 DEF TypeOK, EntryTypes, RestTypes
<1>12. PlacesInv'
  <2>1. pc' \in [Actor -> ThreadPc \cup ServerPc]
    BY <1>1 DEF PlacesInv, ThreadPc
  <2> QED
    BY <2>1, <1>1, <1>3, <1>9, ServerIsNoThread DEF PlacesInv
<1>13. AskInv'
  BY <1>1, <1>4 DEF AskInv, queueVars, luaVars
<1>14. CallbackInv'
  BY <1>1, <1>2, <1>3, <1>4 DEF CallbackInv, Calling, queueVars, luaVars
<1>15. RefcountExact'
  <2> SUFFICES ASSUME NEW x \in asked', asks[x].callback
               PROVE  refcount'[x] = Cardinality(Asking(x)') + Cardinality(Queued(x)')
                                     + Cardinality(InHand(x)') + lost'[x]
    BY DEF RefcountExact
  <2>1. Asking(x)' = Asking(x) /\ Queued(x)' = Queued(x)
    BY <1>1, <1>4 DEF Asking, Queued, queueVars, luaVars
  <2>2. CASE x = r
    <3>1. refcount'[x] = refcount[r] - 1 /\ lost'[x] = lost[r]
      BY <1>1, <2>2 DEF TypeOK
    <3> QED
      BY <3>1, <2>1, <2>2, <1>6, <1>7, CallbacksFinite
  <2>3. CASE x # r
    <3>1. InHand(x)' = InHand(x)
      BY <2>3, <1>2, <1>3 DEF InHand
    <3>2. x \in asked /\ refcount'[x] = refcount[x] /\ lost'[x] = lost[x]
      BY <1>1, <2>3 DEF TypeOK, luaVars
    <3> QED
      BY <3>1, <3>2, <2>1 DEF RefcountExact
  <2> QED
    BY <2>2, <2>3
<1> QED
  BY <1>4, <1>11, <1>12, <1>13, <1>14, <1>15

(* None is left when the thread puts the block down. *)
LEMMA DoneStep ==
    ASSUME IInv, NEW t \in EThread, CallbacksDone(t)
    PROVE  IInv'
<1> USE DEF IInv
<1>1. PICK next \in {"cancelling", "loop"} :
      /\ pc[t] = "callbacks" /\ job[t].callbacks = {}
      /\ pc' = [pc EXCEPT ![t] = next]
      /\ job' = [job EXCEPT ![t] = None]
      /\ UNCHANGED <<queueVars, threadVars, m_queue_mutex, m_env_mutex, luaVars,
                     refcount, lost>>
  BY DEF CallbacksDone, Move, Goto
<1>2. EntryTypes' /\ QueueInv' /\ QuotaExact' /\ Enqueued' = Enqueued
  BY <1>1, Types, QuietQueue
<1>3. \A u \in EThread : job'[u] = IF u = t THEN None ELSE job[u]
  BY <1>1 DEF TypeOK
<1>4. \A a \in Actor : pc'[a] = IF a = t THEN next ELSE pc[a]
  BY <1>1 DEF PlacesInv
<1>5. RestTypes'
  BY <1>1, <1>4, ServerIsNoThread, Types
  DEF RestTypes, InLua, threadVars, luaVars, ThreadPc
<1>6. TypeOK'
  BY <1>2, <1>5 DEF TypeOK, EntryTypes, RestTypes
<1>7. PlacesInv'
  <2>1. pc' \in [Actor -> ThreadPc \cup ServerPc]
    BY <1>1 DEF PlacesInv, ThreadPc
  <2> QED
    BY <2>1, <1>1, <1>3, <1>4, ServerIsNoThread DEF PlacesInv
<1>8. AskInv'
  BY <1>1, <1>2 DEF AskInv, queueVars, luaVars
<1>9. CallbackInv'
  BY <1>1, <1>2, <1>3 DEF CallbackInv, Calling, queueVars, luaVars
<1>10. RefcountExact'
  <2>1. \A x : Asking(x)' = Asking(x) /\ Queued(x)' = Queued(x)
    BY <1>1, <1>2 DEF Asking, Queued, queueVars, luaVars
  <2>2. \A x : InHand(x)' = InHand(x)
    BY <1>1, <1>3 DEF InHand
  <2> QED
    BY <2>1, <2>2, <1>1 DEF RefcountExact, luaVars
<1> QED
  BY <1>2, <1>6, <1>7, <1>8, <1>9, <1>10

(* Steps that only move an actor on.                                       *)
LEMMA PlaceStep ==
    ASSUME IInv, NEW a \in Actor, NEW to, Goto(a, to),
           to \in (IF a = Server THEN ServerPc ELSE ThreadPc \ {"off"}),
           a \in EThread => /\ pc[a] # "off"
                            /\ to \in {"work", "generated", "finish", "callbacks", "calling"}
                                    <=> job[a] # None,
           m_queue_event' \in [EThread -> BOOLEAN],
           m_request_stop' \in [EThread -> BOOLEAN],
           m_queue_mutex' \in EThread \cup {None},
           \/ /\ to \notin {"step", "finish", "calling", "hooks"}
              /\ m_env_mutex' = IF InLua(a) THEN None ELSE m_env_mutex
           \/ /\ to \in {"step", "finish", "calling", "hooks"}
              /\ m_env_mutex = None /\ m_env_mutex' = a,
           UNCHANGED <<queueVars, job, luaVars, refcount, lost>>
    PROVE  IInv'
<1> USE DEF IInv, luaVars
<1>1. \A b \in Actor : pc'[b] = IF b = a THEN to ELSE pc[b]
  BY DEF Goto, PlacesInv
<1>2. RestTypes'
  <2>1. m_env_mutex' \in Actor \cup {None}
    BY DEF TypeOK
  <2>2. ASSUME NEW b \in Actor PROVE m_env_mutex' = b <=> InLua(b)'
    <3>1. InLua(b)' <=> (IF b = a THEN to \in {"step", "finish", "calling", "hooks"}
                                  ELSE InLua(b))
      BY <1>1 DEF InLua
    <3>2. (m_env_mutex = a <=> InLua(a)) /\ (m_env_mutex = b <=> InLua(b))
      BY DEF TypeOK
    <3>3. b # None /\ a # None
      BY NoneAssumption
    <3> QED
      BY <3>1, <3>2, <3>3
  <2>3. (\A u \in EThread : pc'[u] \in ThreadPc) /\ pc'[Server] \in ServerPc
    BY <1>1, ServerIsNoThread DEF TypeOK
  <2> QED
    BY <2>1, <2>2, <2>3 DEF TypeOK, RestTypes
<1>3. PlacesInv'
  <2>1. pc' \in [Actor -> ThreadPc \cup ServerPc]
    BY DEF PlacesInv, Goto
  <2> QED
    BY <2>1, <1>1, ServerIsNoThread DEF PlacesInv
<1> QED
  BY <1>2, <1>3, QuietStep

LEMMA Stays ==
    ASSUME IInv, [Next]_vars
    PROVE  IInv'
<1>0. /\ EThread \subseteq Actor /\ Server \in Actor /\ Server \notin EThread
      /\ m_queue_event \in [EThread -> BOOLEAN]
      /\ m_request_stop \in [EThread -> BOOLEAN]
      /\ m_queue_mutex \in EThread \cup {None}
      /\ PlacesInv
  BY ServerIsNoThread DEF IInv, TypeOK
<1>1. ASSUME NEW t \in EThread, InitScripting(t) PROVE IInv'
  BY <1>0, <1>1, PlaceStep DEF InitScripting, InLua, ThreadPc, PlacesInv
<1>2. ASSUME NEW t \in EThread, FindNothing(t) PROVE IInv'
  BY <1>0, <1>2, PlaceStep DEF FindNothing, Move, InLua, ThreadPc, PlacesInv, threadVars
<1>3. ASSUME NEW t \in EThread, PopBlockEmerge(t) PROVE IInv'
  <2>1. /\ pc[t] = "loop" /\ m_block_queue[t] # <<>> /\ PopBlockEmergeData(t)
        /\ UNCHANGED <<threadVars, m_queue_mutex, m_env_mutex, luaVars, refcount>>
    BY <1>3 DEF PopBlockEmerge
  <2>2. CASE Head(m_block_queue[t]) \in OverLimit
    BY <2>1, <2>2, <1>3, PassOverStep DEF PopBlockEmerge
  <2>3. CASE Head(m_block_queue[t]) \notin OverLimit
    <3>1. /\ job' = [job EXCEPT ![t] = Front(t)]
          /\ pc' = [pc EXCEPT ![t] = "work"]
          /\ UNCHANGED lost
      BY <2>3, <1>3 DEF PopBlockEmerge, Goto
    <3>2. job[t] = None
      BY <2>1, <1>0 DEF PlacesInv
    <3>3. Front(t) \in Job /\ Front(t) # None
      BY <2>1, FrontType
    <3>4. \A b \in Actor : pc'[b] = IF b = t THEN "work" ELSE pc[b]
      BY <3>1, <1>0 DEF PlacesInv
    <3>5. RestTypes'
      BY <2>1, <3>1, <3>3, <3>4, <1>0, Types
      DEF IInv, RestTypes, InLua, threadVars, luaVars, ThreadPc
    <3>6. PlacesInv'
      <4>1. pc' \in [Actor -> ThreadPc \cup ServerPc]
        BY <3>1, <1>0 DEF PlacesInv, ThreadPc
      <4>2. \A u \in EThread : job'[u] = IF u = t THEN Front(t) ELSE job[u]
        BY <3>1 DEF IInv, TypeOK
      <4> QED
        BY <4>1, <4>2, <2>1, <3>3, <3>4, <1>0 DEF PlacesInv
    <3> QED
      BY <2>1, <3>1, <3>2, <3>5, <3>6, TakeStep DEF luaVars
  <2> QED
    BY <2>2, <2>3
<1>4. ASSUME NEW t \in EThread, WaitForEvent(t) PROVE IInv'
  BY <1>0, <1>4, PlaceStep DEF WaitForEvent, InLua, ThreadPc, PlacesInv
<1>5. ASSUME NEW t \in EThread, GetBlockOrStartGen(t) PROVE IInv'
  BY <1>0, <1>5, PlaceStep DEF GetBlockOrStartGen, Move, InLua, ThreadPc, PlacesInv, threadVars
<1>6. ASSUME NEW t \in EThread, LoadError(t) PROVE IInv'
  BY <1>6, LoadErrorStep
<1>7. ASSUME NEW t \in EThread, FinishGen(t) PROVE IInv'
  BY <1>0, <1>7, PlaceStep DEF FinishGen, EnterLua, ThreadPc, PlacesInv, threadVars
<1>8. ASSUME NEW t \in EThread, OnGeneratedError(t) PROVE IInv'
  BY <1>0, <1>8, PlaceStep DEF OnGeneratedError, Move, InLua, ThreadPc, PlacesInv, threadVars
<1>9. ASSUME NEW t \in EThread, NEW r \in Request, RunCallback(t, r) PROVE IInv'
  BY <1>9, CallStep
<1>10. ASSUME NEW t \in EThread, CallbacksDone(t) PROVE IInv'
  BY <1>10, DoneStep
<1>11. ASSUME NEW t \in EThread, LeaveLoop(t) PROVE IInv'
  BY <1>0, <1>11, PlaceStep DEF LeaveLoop, Move, InLua, ThreadPc, PlacesInv, threadVars
<1>12. ASSUME NEW t \in EThread, CancelPendingItems(t) PROVE IInv'
  BY <1>0, <1>12, PlaceStep DEF CancelPendingItems, InLua, ThreadPc, PlacesInv, threadVars
<1>13. ASSUME NEW t \in EThread, CancelItem(t) PROVE IInv'
  <2>1. /\ pc[t] = "cancelling" /\ m_block_queue[t] # <<>> /\ PopBlockEmergeData(t)
        /\ job' = [job EXCEPT ![t] = Front(t)]
        /\ pc' = [pc EXCEPT ![t] = "callbacks"]
        /\ UNCHANGED <<threadVars, m_queue_mutex, m_env_mutex, luaVars, refcount, lost>>
    BY <1>13 DEF CancelItem, Goto
  <2>2. job[t] = None
    BY <2>1, <1>0 DEF PlacesInv
  <2>3. Front(t) \in Job /\ Front(t) # None
    BY <2>1, FrontType
  <2>4. \A b \in Actor : pc'[b] = IF b = t THEN "callbacks" ELSE pc[b]
    BY <2>1, <1>0 DEF PlacesInv
  <2>5. RestTypes'
    BY <2>1, <2>3, <2>4, <1>0, Types
    DEF IInv, RestTypes, InLua, threadVars, luaVars, ThreadPc
  <2>6. PlacesInv'
    <3>1. pc' \in [Actor -> ThreadPc \cup ServerPc]
      BY <2>1, <1>0 DEF PlacesInv, ThreadPc
    <3>2. \A u \in EThread : job'[u] = IF u = t THEN Front(t) ELSE job[u]
      BY <2>1 DEF IInv, TypeOK
    <3> QED
      BY <3>1, <3>2, <2>1, <2>3, <2>4, <1>0 DEF PlacesInv
  <2> QED
    BY <2>1, <2>2, <2>5, <2>6, TakeStep DEF luaVars
<1>14. ASSUME NEW t \in EThread, EndThread(t) PROVE IInv'
  BY <1>0, <1>14, PlaceStep DEF EndThread, InLua, ThreadPc, PlacesInv, threadVars
<1>15. ASSUME NEW t \in EThread, StopThread(t) PROVE IInv'
  <2>1. RestTypes'
    BY <1>15, Types DEF IInv, StopThread, RestTypes, InLua, luaVars
  <2>2. PlacesInv'
    BY <1>0, <1>15 DEF StopThread, PlacesInv
  <2> QED
    BY <2>1, <2>2, <1>15, QuietStep DEF StopThread, luaVars
<1>16. ASSUME NEW a \in Actor, NEW r \in Request, Ask(a, r) PROVE IInv'
  BY <1>16, AskStep
<1>17. ASSUME NEW a \in Actor, EnqueueBlockEmergeEx(a) PROVE IInv'
  BY <1>17, EnqueueStep
<1>18. ASSUME NEW a \in Actor, Signal(a) PROVE IInv'
  <2>1. RestTypes'
    BY <1>18, Types DEF IInv, Signal, RestTypes, InLua
  <2>2. PlacesInv'
    BY <1>0, <1>18 DEF Signal, PlacesInv
  <2> QED
    BY <2>1, <2>2, <1>18, QuietStep DEF Signal
<1>19. ASSUME NEW a \in Actor, LeaveLua(a) PROVE IInv'
  <2>1. PICK to : /\ Goto(a, to)
                  /\ pc[a] = "step" => to = "idle"
                  /\ pc[a] = "hooks" => to = "over"
                  /\ pc[a] \in {"finish", "calling"} => to = "callbacks"
    BY <1>19 DEF LeaveLua
  <2>2. /\ pc[a] \in {"step", "finish", "calling", "hooks"} /\ m_env_mutex' = None
        /\ UNCHANGED <<queueVars, threadVars, m_queue_mutex, job, luaVars, refcount, lost>>
    BY <1>19 DEF LeaveLua, InLua
  <2>3. a = Server \/ a \in EThread
    BY DEF Actor
  <2>4. CASE a = Server
    <3>1. pc[a] \in ServerPc
      BY <2>4 DEF IInv, TypeOK
    <3>2. to \in {"idle", "over"}
      BY <3>1, <2>1, <2>2 DEF ServerPc
    <3> QED
      BY <3>2, <2>1, <2>2, <2>4, <1>0, PlaceStep DEF InLua, ServerPc, threadVars
  <2>5. CASE a \in EThread
    <3>1. pc[a] \in ThreadPc
      BY <2>5 DEF IInv, TypeOK
    <3>2. to = "callbacks" /\ pc[a] \in {"finish", "calling"}
      BY <3>1, <2>1, <2>2 DEF ThreadPc
    <3>3. job[a] # None
      BY <3>2, <2>5, <1>0 DEF PlacesInv
    <3> QED
      BY <3>2, <3>3, <2>1, <2>2, <2>5, <1>0, PlaceStep DEF InLua, ThreadPc, threadVars
  <2> QED
    BY <2>3, <2>4, <2>5
<1>20. CASE StartThreads
  <2>1. \A t \in EThread : pc[t] = "off"
    BY <1>20, <1>0, ActorsFinite DEF StartThreads, PlacesInv
  <2>2. /\ \A t \in EThread : pc'[t] = "init" /\ job'[t] = None
        /\ pc'[Server] = pc[Server]
        /\ pc' \in [Actor -> ThreadPc \cup ServerPc]
    BY <1>20, <1>0, <2>1 DEF StartThreads, PlacesInv, ThreadPc
  <2>3. RestTypes'
    <3>1. \A a \in Actor : InLua(a)' <=> InLua(a)
      BY <2>1, <2>2 DEF InLua, Actor
    <3> QED
      BY <1>20, <2>2, <3>1, Types DEF IInv, StartThreads, RestTypes, ThreadPc, threadVars, luaVars
  <2>4. PlacesInv'
    BY <2>2 DEF PlacesInv
  <2> QED
    BY <1>20, <2>3, <2>4, QuietStep DEF StartThreads, luaVars
<1>21. CASE ServerStep
  BY <1>0, <1>21, PlaceStep DEF ServerStep, EnterLua, ServerPc, threadVars
<1>22. CASE StopServer
  BY <1>0, <1>22, PlaceStep DEF StopServer, InLua, ServerPc, threadVars
<1>23. CASE ThreadsStopped
  BY <1>0, <1>23, PlaceStep DEF ThreadsStopped, EnterLua, ServerPc, threadVars
<1>24. CASE UNCHANGED vars
  <2>1. RestTypes'
    BY <1>24, Types DEF IInv, vars, RestTypes, InLua, threadVars, luaVars
  <2>2. PlacesInv'
    BY <1>0, <1>24 DEF vars, PlacesInv
  <2> QED
    BY <2>1, <2>2, <1>24, QuietStep DEF vars, luaVars
<1> QED
  BY <1>1, <1>2, <1>3, <1>4, <1>5, <1>6, <1>7, <1>8, <1>9, <1>10, <1>11, <1>12, <1>13,
     <1>14, <1>15, <1>16, <1>17, <1>18, <1>19, <1>20, <1>21, <1>22, <1>23, <1>24
  DEF Next, ThreadStep, LuaStep

LEMMA Initially ==
    ASSUME Init
    PROVE  IInv
<1> USE DEF Init
<1>1. TypeOK
  <2>1. \A a \in Actor : ~InLua(a) /\ m_env_mutex # a
    BY ServerIsNoThread, NoneAssumption DEF InLua
  <2>2. (\A t \in EThread : pc[t] \in ThreadPc) /\ pc[Server] \in ServerPc
    BY ServerIsNoThread DEF ThreadPc, ServerPc
  <2>3. m_block_queue \in [EThread -> Seq(Pos)]
    OBVIOUS
  <2> QED
    BY <2>1, <2>2, <2>3 DEF TypeOK
<1>2. Enqueued = {}
  BY DEF Enqueued
<1>3. QueueInv
  BY <1>2 DEF QueueInv
<1>4. QuotaExact
  <2>1. \A q : EntriesOf(q) = {}
    BY <1>2 DEF EntriesOf
  <2>2. {p \in Enqueued : m_blocks_enqueued[p].peer \in Peer} = {}
    BY <1>2
  <2>3. Cardinality({}) = 0
    BY FS_EmptySet
  <2>4. \A q \in Requester : m_peer_queue_count[q] = 0
    OBVIOUS
  <2>5. 0 <= m_qlimit_total /\ 0 <= m_qlimit_diskonly /\ 0 <= m_qlimit_generate
    BY LimitsAssumption
  <2> HIDE DEF Init
  <2> QED
    BY <2>1, <2>2, <2>3, <2>4, <2>5 DEF QuotaExact
<1>5. PlacesInv
  BY ServerIsNoThread DEF PlacesInv, ThreadPc, ServerPc
<1>6. AskInv
  BY DEF AskInv
<1>7. CallbackInv
  BY <1>2 DEF CallbackInv
<1>8. RefcountExact
  BY DEF RefcountExact
<1> QED
  BY <1>1, <1>3, <1>4, <1>5, <1>6, <1>7, <1>8 DEF IInv

LEMMA Invariance == Spec => []IInv
<1>1. Init => IInv
  BY Initially
<1>2. IInv /\ [Next]_vars => IInv'
  BY Stays
<1> QED
  BY <1>1, <1>2, PTL DEF Spec

-----------------------------------------------------------------------------
(* What is enqueued, who asks, where the threads are, and that who is in   *)
(* Lua holds m_env_mutex.                                                  *)
THEOREM TypeCorrect == Spec => []TypeOK
<1>1. IInv => TypeOK
  BY DEF IInv
<1> QED
  BY <1>1, Invariance, PTL

(* Whatever is asked for, taken or cancelled, by any number of threads:    *)
(* each entry of m_blocks_enqueued is in one queue, once, and nothing else *)
(* is in any.                                                              *)
THEOREM QueuesMatchEntriesHolds == Spec => []QueuesMatchEntries
<1>1. IInv => QueuesMatchEntries
  BY Types, PlacesMatch DEF IInv
<1> QED
  BY <1>1, Invariance, PTL

(* For any limits that the constructor accepts, whoever asks: a requester  *)
(* is charged with its entries, exactly, and no player and no crowd of     *)
(* players gets past the limits.                                           *)
THEOREM QuotaExactHolds == Spec => []QuotaExact
<1>1. IInv => QuotaExact
  BY DEF IInv
<1> QED
  BY <1>1, Invariance, PTL

(* Each callback of emerge_area is counted exactly once, wherever it is:   *)
(* with who asks, in an entry, in a thread's hands, or lost.               *)
THEOREM RefcountExactHolds == Spec => []RefcountExact
<1>1. IInv => RefcountExact
  BY DEF IInv
<1> QED
  BY <1>1, Invariance, PTL

-----------------------------------------------------------------------------
(* When the two mutexes never wait for each other.                         *)

(* Lua asks for blocks only in the server's own steps and in the shutdown  *)
(* hooks, never in on_generated callbacks or callbacks of emerge_area; and *)
(* if it asks in steps, then no thread stops on its own.                   *)
Calm ==
    /\ AskingIn \cap {"finish", "calling"} = {}
    /\ "step" \in AskingIn => ~Failing

(* A thread gives up its work, or is to do so. *)
Ending(t) == m_request_stop[t] \/ pc[t] \in {"ending", "cancelling"} \/ m_queue_mutex = t

(* Who has m_queue_mutex is cancelling and has run out of blocks to ask    *)
(* for; without failures that comes after the server's last step, and the  *)
(* hooks come after it.                                                    *)
HolderCancels ==
    \A t \in EThread : m_queue_mutex = t => pc[t] \in {"cancelling", "callbacks", "calling"}
AskersAsk == \A a \in Actor : left[a] # {} => pc[a] \in AskingIn
EndsAreOrdered ==
    ~Failing => \A t \in EThread : Ending(t) => pc[Server] \in {"stopping", "hooks", "over"}
HooksComeLast ==
    pc[Server] \in {"hooks", "over"} => \A t \in EThread : pc[t] \in {"off", "ended"}
LockInv == HolderCancels /\ AskersAsk /\ EndsAreOrdered /\ HooksComeLast

LEMMA LocksInitially ==
    ASSUME Init
    PROVE  LockInv
<1>1. Server \notin EThread /\ Server \in Actor /\ None \notin EThread
  BY ServerIsNoThread, NoneAssumption
<1> QED
  BY <1>1 DEF Init, LockInv, HolderCancels, AskersAsk, EndsAreOrdered, HooksComeLast, Ending, Actor

(* What a step does to the places, once for all steps.                     *)
LEMMA LocksStay ==
    ASSUME IInv, LockInv, [Next]_vars
    PROVE  LockInv'
<1>0. /\ EThread \subseteq Actor /\ Server \in Actor /\ Server \notin EThread
      /\ None \notin EThread
      /\ m_request_stop \in [EThread -> BOOLEAN]
      /\ m_queue_mutex \in EThread \cup {None}
      /\ pc \in [Actor -> ThreadPc \cup ServerPc]
      /\ left \in [Actor -> SUBSET Pos]
      /\ \A t \in EThread : pc[t] \in ThreadPc
      /\ pc[Server] \in ServerPc
      /\ \A t \in EThread : pc[t] = "off" => \A u \in EThread : pc[u] = "off"
      /\ 1 \in EThread
  BY ServerIsNoThread, NoneAssumption, ActorsFinite DEF IInv, TypeOK, PlacesInv
<1> USE DEF LockInv, HolderCancels, AskersAsk, EndsAreOrdered, HooksComeLast, Ending
<1>a. ASSUME NEW a \in Actor, NEW to, Goto(a, to)
      PROVE  \A b \in Actor : pc'[b] = IF b = a THEN to ELSE pc[b]
  BY <1>0, <1>a DEF Goto
<1>1. ASSUME NEW t \in EThread, InitScripting(t) PROVE LockInv'
  <2>1. \A b \in Actor : pc'[b] = IF b = t THEN "loop" ELSE pc[b]
    BY <1>0, <1>1, <1>a DEF InitScripting
  <2> QED
    BY <1>0, <1>1, <2>1, AskingInAssumption DEF InitScripting, threadVars, luaVars
<1>2. ASSUME NEW t \in EThread, FindNothing(t) PROVE LockInv'
  <2>1. \A b \in Actor : pc'[b] = IF b = t THEN "waiting" ELSE pc[b]
    BY <1>0, <1>2, <1>a DEF FindNothing, Move
  <2> QED
    BY <1>0, <1>2, <2>1, AskingInAssumption DEF FindNothing, Move, threadVars, luaVars
<1>3. ASSUME NEW t \in EThread, PopBlockEmerge(t) PROVE LockInv'
  <2>1. /\ pc[t] = "loop" /\ ~m_request_stop[t]
        /\ UNCHANGED <<threadVars, m_queue_mutex, luaVars>>
        /\ UNCHANGED pc \/ Goto(t, "work")
    BY <1>3 DEF PopBlockEmerge
  <2>2. CASE UNCHANGED pc
    BY <2>1, <2>2 DEF threadVars, luaVars
  <2>3. CASE Goto(t, "work")
    <3>1. \A b \in Actor : pc'[b] = IF b = t THEN "work" ELSE pc[b]
      BY <1>0, <2>3, <1>a
    <3> QED
      BY <1>0, <2>1, <3>1, AskingInAssumption DEF threadVars, luaVars
  <2> QED
    BY <2>1, <2>2, <2>3
<1>4. ASSUME NEW t \in EThread, WaitForEvent(t) PROVE LockInv'
  <2>1. \A b \in Actor : pc'[b] = IF b = t THEN "loop" ELSE pc[b]
    BY <1>0, <1>4, <1>a DEF WaitForEvent
  <2> QED
    BY <1>0, <1>4, <2>1, AskingInAssumption DEF WaitForEvent, threadVars, luaVars
<1>5. ASSUME NEW t \in EThread, GetBlockOrStartGen(t) PROVE LockInv'
  <2>1. PICK to \in {"callbacks", "generated"} : Move(t, "work", to)
    BY <1>5 DEF GetBlockOrStartGen
  <2>2. \A b \in Actor : pc'[b] = IF b = t THEN to ELSE pc[b]
    BY <1>0, <2>1, <1>a DEF Move
  <2> QED
    BY <1>0, <2>1, <2>2, AskingInAssumption DEF Move, threadVars, luaVars
<1>6. ASSUME NEW t \in EThread, LoadError(t) PROVE LockInv'
  <2>1. \A b \in Actor : pc'[b] = IF b = t THEN "ending" ELSE pc[b]
    BY <1>0, <1>6, <1>a DEF LoadError
  <2> QED
    BY <1>0, <1>6, <2>1, AskingInAssumption DEF LoadError, threadVars, luaVars
<1>7. ASSUME NEW t \in EThread, FinishGen(t) PROVE LockInv'
  <2>1. \A b \in Actor : pc'[b] = IF b = t THEN "finish" ELSE pc[b]
    BY <1>0, <1>7, <1>a DEF FinishGen, EnterLua
  <2> QED
    BY <1>0, <1>7, <2>1, AskingInAssumption DEF FinishGen, EnterLua, threadVars, luaVars
<1>8. ASSUME NEW t \in EThread, OnGeneratedError(t) PROVE LockInv'
  <2>1. \A b \in Actor : pc'[b] = IF b = t THEN "callbacks" ELSE pc[b]
    BY <1>0, <1>8, <1>a DEF OnGeneratedError, Move
  <2> QED
    BY <1>0, <1>8, <2>1, AskingInAssumption DEF OnGeneratedError, Move, threadVars, luaVars
<1>9. ASSUME NEW t \in EThread, NEW r \in Request, RunCallback(t, r) PROVE LockInv'
  <2>1. \A b \in Actor : pc'[b] = IF b = t THEN "calling" ELSE pc[b]
    BY <1>0, <1>9, <1>a DEF RunCallback, EnterLua
  <2> QED
    BY <1>0, <1>9, <2>1, AskingInAssumption DEF RunCallback, EnterLua, threadVars, luaVars
<1>10. ASSUME NEW t \in EThread, CallbacksDone(t) PROVE LockInv'
  <2>1. \A b \in Actor : pc'[b] = IF b = t THEN IF m_queue_mutex = t THEN "cancelling" ELSE "loop" ELSE pc[b]
    BY <1>0, <1>10, <1>a DEF CallbacksDone, Move
  <2> QED
    BY <1>0, <1>10, <2>1, AskingInAssumption DEF CallbacksDone, Move, threadVars, luaVars
<1>11. ASSUME NEW t \in EThread, LeaveLoop(t) PROVE LockInv'
  <2>1. \A b \in Actor : pc'[b] = IF b = t THEN "ending" ELSE pc[b]
    BY <1>0, <1>11, <1>a DEF LeaveLoop, Move
  <2> QED
    BY <1>0, <1>11, <2>1, AskingInAssumption DEF LeaveLoop, Move, threadVars, luaVars
<1>12. ASSUME NEW t \in EThread, CancelPendingItems(t) PROVE LockInv'
  <2>1. \A b \in Actor : pc'[b] = IF b = t THEN "cancelling" ELSE pc[b]
    BY <1>0, <1>12, <1>a DEF CancelPendingItems
  <2> QED
    BY <1>0, <1>12, <2>1, AskingInAssumption DEF CancelPendingItems, threadVars, luaVars
<1>13. ASSUME NEW t \in EThread, CancelItem(t) PROVE LockInv'
  <2>1. \A b \in Actor : pc'[b] = IF b = t THEN "callbacks" ELSE pc[b]
    BY <1>0, <1>13, <1>a DEF CancelItem
  <2> QED
    BY <1>0, <1>13, <2>1, AskingInAssumption DEF CancelItem, threadVars, luaVars
<1>14. ASSUME NEW t \in EThread, EndThread(t) PROVE LockInv'
  <2>1. \A b \in Actor : pc'[b] = IF b = t THEN "ended" ELSE pc[b]
    BY <1>0, <1>14, <1>a DEF EndThread
  <2> QED
    BY <1>0, <1>14, <2>1, AskingInAssumption DEF EndThread, threadVars, luaVars
<1>15. ASSUME NEW t \in EThread, StopThread(t) PROVE LockInv'
  BY <1>0, <1>15 DEF StopThread, luaVars
<1>16. ASSUME NEW a \in Actor, NEW r \in Request, Ask(a, r) PROVE LockInv'
  BY <1>0, <1>16 DEF Ask, threadVars
<1>17. ASSUME NEW a \in Actor, EnqueueBlockEmergeEx(a) PROVE LockInv'
  BY <1>0, <1>17 DEF EnqueueBlockEmergeEx, threadVars
<1>18. ASSUME NEW a \in Actor, Signal(a) PROVE LockInv'
  BY <1>0, <1>18 DEF Signal
<1>19. ASSUME NEW a \in Actor, LeaveLua(a) PROVE LockInv'
  <2>1. PICK to : /\ Goto(a, to)
                  /\ pc[a] = "step" => to = "idle"
                  /\ pc[a] = "hooks" => to = "over"
                  /\ pc[a] \in {"finish", "calling"} => to = "callbacks"
    BY <1>19 DEF LeaveLua
  <2>2. \A b \in Actor : pc'[b] = IF b = a THEN to ELSE pc[b]
    BY <1>0, <2>1, <1>a
  <2>3. /\ pc[a] \in {"step", "finish", "calling", "hooks"} /\ left[a] = {}
        /\ UNCHANGED <<threadVars, m_queue_mutex, luaVars>>
    BY <1>19 DEF LeaveLua, InLua
  <2>4. CASE a = Server
    BY <1>0, <2>1, <2>2, <2>3, <2>4 DEF threadVars, luaVars, ServerPc
  <2>5. CASE a \in EThread
    BY <1>0, <2>1, <2>2, <2>3, <2>5 DEF threadVars, luaVars, ThreadPc
  <2> QED
    BY <2>4, <2>5 DEF Actor
<1>20. CASE StartThreads
  <2>1. \A b \in Actor : pc'[b] = IF b \in EThread THEN "init" ELSE pc[b]
    BY <1>20 DEF StartThreads
  <2>2. /\ pc[Server] = "idle" /\ \A t \in EThread : pc[t] = "off"
        /\ UNCHANGED <<threadVars, m_queue_mutex, luaVars>>
    BY <1>0, <1>20 DEF StartThreads
  <2> QED
    BY <1>0, <2>1, <2>2, AskingInAssumption DEF threadVars, luaVars, Actor
<1>21. CASE ServerStep
  <2>1. \A b \in Actor : pc'[b] = IF b = Server THEN "step" ELSE pc[b]
    BY <1>0, <1>21, <1>a DEF ServerStep, EnterLua
  <2> QED
    BY <1>0, <1>21, <2>1, AskingInAssumption DEF ServerStep, EnterLua, threadVars, luaVars
<1>22. CASE StopServer
  <2>1. \A b \in Actor : pc'[b] = IF b = Server THEN "stopping" ELSE pc[b]
    BY <1>0, <1>22, <1>a DEF StopServer
  <2> QED
    BY <1>0, <1>22, <2>1, AskingInAssumption DEF StopServer, threadVars, luaVars
<1>23. CASE ThreadsStopped
  <2>1. \A b \in Actor : pc'[b] = IF b = Server THEN "hooks" ELSE pc[b]
    BY <1>0, <1>23, <1>a DEF ThreadsStopped, EnterLua
  <2> QED
    BY <1>0, <1>23, <2>1, AskingInAssumption DEF ThreadsStopped, EnterLua, threadVars, luaVars
<1>24. CASE UNCHANGED vars
  BY <1>24 DEF vars, threadVars, luaVars
<1> QED
  BY <1>1, <1>2, <1>3, <1>4, <1>5, <1>6, <1>7, <1>8, <1>9, <1>10, <1>11, <1>12, <1>13,
     <1>14, <1>15, <1>16, <1>17, <1>18, <1>19, <1>20, <1>21, <1>22, <1>23, <1>24
  DEF Next, ThreadStep, LuaStep

(* Two that wait for each other: one is in Lua and asks for a block, in    *)
(* the server's thread since all is calm; the other has m_queue_mutex,     *)
(* which no thread has before the server stops or after the threads have.  *)
LEMMA NoCycle ==
    ASSUME IInv, LockInv, Calm
    PROVE  NoLockCycle
<1>0. /\ Server \notin EThread /\ None \notin Actor
      /\ m_queue_mutex \in EThread \cup {None}
      /\ \A t \in EThread : pc[t] \in ThreadPc
      /\ pc[Server] \in ServerPc
      /\ \A a \in Actor : m_env_mutex = a <=> InLua(a)
  BY ServerIsNoThread, NoneAssumption DEF IInv, TypeOK
<1>1. ASSUME NEW a \in Actor, NEW b \in Actor, m_env_mutex = b, m_queue_mutex = a
      PROVE  ~WantsQueue(b)
  <2>1. a \in EThread /\ pc[a] \in {"cancelling", "callbacks", "calling"}
    BY <1>0, <1>1 DEF LockInv, HolderCancels
  <2>2. InLua(b)
    BY <1>0, <1>1
  <2>3. pc[Server] # "hooks"
    BY <2>1 DEF LockInv, HooksComeLast
  <2>4. ~Failing => pc[Server] # "step"
    BY <1>1, <2>1 DEF LockInv, EndsAreOrdered, Ending
  <2>5. ASSUME left[b] # {} PROVE FALSE
    <3>1. pc[b] \in AskingIn
      BY <2>5 DEF LockInv, AskersAsk
    <3>2. pc[b] \in {"step", "hooks"}
      BY <3>1, <2>2 DEF Calm, InLua
    <3>3. b = Server
      BY <3>2, <1>0 DEF Actor, ThreadPc
    <3> QED
      BY <3>1, <3>2, <3>3, <2>3, <2>4 DEF Calm
  <2> QED
    BY <2>2, <2>5 DEF WantsQueue, InLua
<1>2. ASSUME NEW a \in Actor PROVE ~WaitsFor(a, a)
  <2>1. ~(WantsEnv(a) /\ m_env_mutex = a)
    BY <1>0 DEF WantsEnv, InLua
  <2>2. ASSUME WantsQueue(a), m_queue_mutex = a PROVE FALSE
    <3>1. a \in EThread /\ pc[a] \in {"cancelling", "callbacks", "calling"}
      BY <1>0, <2>2 DEF LockInv, HolderCancels
    <3>2. left[a] # {}
      BY <3>1, <2>2 DEF WantsQueue
    <3>3. pc[a] \in AskingIn
      BY <3>2 DEF LockInv, AskersAsk
    <3>4. pc[a] = "calling"
      BY <3>1, <3>3, AskingInAssumption
    <3> QED
      BY <3>3, <3>4 DEF Calm
  <2> QED
    BY <2>1, <2>2 DEF WaitsFor
<1>3. ASSUME NEW a \in Actor, NEW b \in Actor, WaitsFor(a, b), WaitsFor(b, a) PROVE FALSE
  <2>1. a # b
    BY <1>2, <1>3
  <2>2. CASE m_env_mutex = b /\ m_queue_mutex = a
    BY <1>1, <2>1, <2>2, <1>3 DEF WaitsFor
  <2>3. CASE m_env_mutex = a /\ m_queue_mutex = b
    BY <1>1, <2>1, <2>3, <1>3 DEF WaitsFor
  <2> QED
    BY <2>1, <2>2, <2>3, <1>3 DEF WaitsFor
<1> QED
  BY <1>3 DEF NoLockCycle

(* If Lua asks for blocks in the server's own steps and in the shutdown    *)
(* hooks only, and no thread fails, then no two actors ever wait for       *)
(* m_env_mutex and m_queue_mutex crosswise, and none for what it holds,    *)
(* however many threads cancel while the server stops.  core.emerge_area   *)
(* in a callback is what it takes to lock the server up.                   *)
THEOREM NoLockCycleHolds == Calm /\ Spec => []NoLockCycle
<1>1. Init => LockInv
  BY LocksInitially
<1>2. IInv /\ LockInv /\ [Next]_vars => LockInv'
  BY LocksStay
<1>3. SUFFICES ASSUME Calm PROVE Spec => []NoLockCycle
  OBVIOUS
<1>4. IInv /\ LockInv => NoLockCycle
  BY <1>3, NoCycle
<1> QED
  BY <1>1, <1>2, <1>4, Invariance, PTL DEF Spec

=============================================================================
