------------------------ MODULE BlockTransferProofs ------------------------
(* For any blocks, any limits, any camera and any order of steps: no slot  *)
(* of the throttle of block sending is lost, and what counts as sent the   *)
(* client has as it is, unless the server lets a guess of the client stand *)
(* or a node change and a block have crossed.                              *)
EXTENDS BlockTransfer, FiniteSetTheorems, WellFoundedInduction, TLAPS

-----------------------------------------------------------------------------
LEMMA ToSetAppend ==
    ASSUME NEW S, NEW s \in Seq(S), NEW e \in S
    PROVE  ToSet(Append(s, e)) = ToSet(s) \cup {e}
<1>1. /\ DOMAIN Append(s, e) = DOMAIN s \cup {Len(s) + 1}
      /\ Append(s, e)[Len(s) + 1] = e /\ \A i \in DOMAIN s : Append(s, e)[i] = s[i]
  OBVIOUS
<1> QED
  BY <1>1 DEF ToSet

LEMMA ToSetTail ==
    ASSUME NEW S, NEW s \in Seq(S), s # <<>>
    PROVE  ToSet(s) = {Head(s)} \cup ToSet(Tail(s)) /\ Head(s) \in S /\ Tail(s) \in Seq(S)
<1>1. /\ \A i \in DOMAIN Tail(s) : i + 1 \in DOMAIN s /\ Tail(s)[i] = s[i + 1]
      /\ \A i \in DOMAIN s : i # 1 => i - 1 \in DOMAIN Tail(s) /\ Tail(s)[i - 1] = s[i]
      /\ 1 \in DOMAIN s /\ Head(s) = s[1]
  OBVIOUS
<1>2. ToSet(s) \subseteq {Head(s)} \cup ToSet(Tail(s))
  BY <1>1 DEF ToSet
<1>3. {Head(s)} \cup ToSet(Tail(s)) \subseteq ToSet(s)
  BY <1>1 DEF ToSet
<1> QED
  BY <1>2, <1>3

LEMMA ToSetConcat ==
    ASSUME NEW S, NEW s \in Seq(S), NEW t \in Seq(S)
    PROVE  s \o t \in Seq(S) /\ ToSet(s \o t) = ToSet(s) \cup ToSet(t)
<1>1. /\ s \o t \in Seq(S) /\ DOMAIN (s \o t) = 1 .. Len(s) + Len(t)
      /\ DOMAIN s = 1 .. Len(s) /\ DOMAIN t = 1 .. Len(t) /\ Len(s) \in Nat /\ Len(t) \in Nat
  OBVIOUS
<1>2. \A i \in 1 .. Len(s) + Len(t) : (s \o t)[i] = IF i <= Len(s) THEN s[i] ELSE t[i - Len(s)]
  OBVIOUS
<1>3. \A i \in DOMAIN s : i \in DOMAIN (s \o t) /\ (s \o t)[i] = s[i]
  BY <1>1, <1>2
<1>4. \A i \in DOMAIN t : i + Len(s) \in DOMAIN (s \o t) /\ (s \o t)[i + Len(s)] = t[i]
  BY <1>1, <1>2
<1>5. \A i \in DOMAIN (s \o t) :
        \/ i \in DOMAIN s /\ (s \o t)[i] = s[i]
        \/ i - Len(s) \in DOMAIN t /\ (s \o t)[i] = t[i - Len(s)]
  BY <1>1, <1>2
<1>6. ToSet(s \o t) \subseteq ToSet(s) \cup ToSet(t)
  BY <1>5 DEF ToSet
<1>7. ToSet(s) \cup ToSet(t) \subseteq ToSet(s \o t)
  BY <1>3, <1>4 DEF ToSet
<1> QED
  BY <1>1, <1>6, <1>7

LEMMA BlocksFinite == IsFiniteSet(Block)
<1> DEFINE f == [i \in 1 .. Len(Order) |-> Order[i]]
<1>1. Order \in Seq(Block) /\ Len(Order) \in Nat /\ DOMAIN Order = 1 .. Len(Order)
  BY BlocksAssumption
<1>2. \A p \in Block : \E i \in 1 .. Len(Order) : f[i] = p
  BY <1>1, BlocksAssumption DEF ToSet
<1>3. f \in Surjection(1 .. Len(Order), Block)
  BY <1>1, <1>2 DEF Surjection
<1> QED
  BY <1>1, <1>3, FS_Interval, FS_Surjection

(* The library's induction principles take a predicate.  As a statement    *)
(* on sets induction follows from the well-foundedness of <.               *)
LEMMA Smallest ==
    ASSUME NEW T, T \subseteq Nat, T # {}
    PROVE  \E m \in T : \A k \in T : m <= k
<1>1. PICK m \in T : \A k \in T : ~ (<<k, m>> \in OpToRel(<, Nat))
  BY WFMin, NatLessThanWellFounded
<1>2. ASSUME NEW k \in T, k < m PROVE FALSE
  <2>1. k \in Nat /\ m \in Nat
    OBVIOUS
  <2>2. <<k, m>> \in OpToRel(<, Nat)
    BY <1>2, <2>1 DEF OpToRel
  <2> QED
    BY <1>1, <2>2
<1>3. \A k \in T : m <= k
  BY <1>2
<1> QED
  BY <1>3

LEMMA SetInduction ==
    ASSUME NEW S, 0 \in S, \A n \in Nat : n \in S => n + 1 \in S
    PROVE  Nat \subseteq S
<1> SUFFICES ASSUME Nat \ S # {} PROVE FALSE
  OBVIOUS
<1>1. PICK m \in Nat \ S : \A k \in Nat \ S : m <= k
  BY Smallest
<1>2. m # 0 /\ m - 1 \in Nat /\ ~(m <= m - 1) /\ (m - 1) + 1 = m
  OBVIOUS
<1> QED
  BY <1>1, <1>2

LEMMA MinIs ==
    ASSUME NEW T, T \subseteq Nat, T # {}
    PROVE  Min(T) \in T /\ \A k \in T : Min(T) <= k
<1>1. \E m \in T : \A k \in T : m <= k
  BY Smallest
<1> QED
  BY <1>1 DEF Min

-----------------------------------------------------------------------------
(* Types *)

BlockMessage == [p : Block, content : Content]
Interaction == [p : Block, n : Node]
Answer == [type : {"got", "deleted"}, p : Block]

ServerTypes ==
    /\ map \in [Block -> Content]
    /\ loaded \subseteq Block /\ arriving \subseteq loaded
    /\ enqueued \subseteq Block
    /\ m_unsent_map_edit_queue \in Seq(Event)
    /\ hidden \subseteq Hideable
    /\ troubles \in 0 .. MaxTroubles

(* What is said of a RemoteClient. *)
ClientOK(c) ==
    /\ c \in ClientState
    /\ c.m_blocks_sending \cap c.m_blocks_sent = {}
    /\ Cardinality(c.m_blocks_sending) <= m_max_simul_sends

WireTypes ==
    /\ DOMAIN to_client = Channel /\ DOMAIN to_server = Channel
    /\ to_client[0] \in Seq(NodeChange) /\ to_client[2] \in Seq(BlockMessage)
    /\ to_server[0] \in Seq(Interaction) /\ to_server[2] \in Seq(Answer)

WorldTypes ==
    /\ world \in [Block -> [Node -> 0 .. Guess] \cup {None}]
    /\ owed \in [Block -> 0 .. MaxOwed]
    /\ crossed \subseteq Block /\ unreverted \subseteq Block \X Node

LEMMA TypeParts == TypeOK <=> ServerTypes /\ ClientOK(client) /\ WireTypes /\ WorldTypes
BY DEF TypeOK, ServerTypes, ClientOK, WireTypes, WorldTypes, BlockMessage, Interaction, Answer

LEMMA TypePartsNext ==
    ServerTypes' /\ ClientOK(client)' /\ WireTypes' /\ WorldTypes' => TypeOK'
BY DEF TypeOK, ServerTypes, ClientOK, WireTypes, WorldTypes, BlockMessage, Interaction, Answer

LEMMA FewerSending ==
    ASSUME NEW c, ClientOK(c), NEW S, S \subseteq c.m_blocks_sending
    PROVE  S \subseteq Block /\ Cardinality(S) <= m_max_simul_sends
<1>1. c.m_blocks_sending \subseteq Block /\ Cardinality(c.m_blocks_sending) <= m_max_simul_sends
  BY DEF ClientOK, ClientState
<1>2. IsFiniteSet(c.m_blocks_sending)
  BY <1>1, BlocksFinite, FS_Subset
<1>3. IsFiniteSet(S) /\ Cardinality(S) <= Cardinality(c.m_blocks_sending)
  BY <1>2, FS_Subset
<1>4. Cardinality(S) \in Nat /\ Cardinality(c.m_blocks_sending) \in Nat
  BY <1>2, <1>3, FS_CardinalityType
<1> QED
  BY <1>1, <1>3, <1>4, LimitsAssumption

LEMMA SetNotSent ==
    ASSUME NEW c, ClientOK(c), NEW blocks, NEW urgent
    PROVE  /\ ClientOK(SetBlocksNotSent(c, blocks, urgent))
           /\ SetBlocksNotSent(c, blocks, urgent).m_blocks_sending = c.m_blocks_sending \ blocks
           /\ SetBlocksNotSent(c, blocks, urgent).m_blocks_sent = c.m_blocks_sent \ blocks
<1> DEFINE paused == c.paused /\ blocks = {}
           D == {c.m_nearest_unsent_d} \cup {Dist[p] : p \in Known(c) \cap urgent}
           d == Min(D)
           S == c.m_blocks_sending \ blocks
           T == c.m_blocks_sent \ blocks
<1>1. SetBlocksNotSent(c, blocks, urgent) =
        [c EXCEPT !.paused = paused, !.m_blocks_sent = T, !.m_blocks_sending = S,
                  !.m_nearest_unsent_d = d]
  BY DEF SetBlocksNotSent
<1>2. c \in ClientState /\ c.m_blocks_sending \cap c.m_blocks_sent = {}
  BY DEF ClientOK
<1>3. D \subseteq 0 .. full_d_max /\ D # {}
  BY <1>2, BlocksAssumption DEF Known, ClientState
<1> HIDE DEF D
<1>4. d \in 0 .. full_d_max
  <2>1. D \subseteq Nat
    BY <1>3, BlocksAssumption
  <2>2. d \in D
    BY <1>3, <2>1, MinIs
  <2> QED
    BY <1>3, <2>2
<1>5. S \subseteq Block /\ Cardinality(S) <= m_max_simul_sends /\ T \subseteq Block /\ S \cap T = {}
  BY <1>2, FewerSending DEF ClientState
<1>6. paused \in BOOLEAN
  OBVIOUS
<1> DEFINE r == SetBlocksNotSent(c, blocks, urgent)
<1> HIDE DEF paused, d, S, T
<1>7. r \in ClientState /\ r.m_blocks_sending = S /\ r.m_blocks_sent = T
  BY <1>1, <1>2, <1>4, <1>5, <1>6 DEF ClientState
<1> QED
  BY <1>5, <1>7 DEF ClientOK, S, T

LEMMA ResendOnWire ==
    ASSUME NEW c, ClientOK(c), NEW blocks, NEW p
    PROVE  /\ ClientOK(ResendBlocksIfOnWire(c, blocks)) /\ ClientOK(SetBlockNotSent(c, p))
           /\ ResendBlocksIfOnWire(c, blocks).m_blocks_sending \subseteq c.m_blocks_sending
           /\ Known(ResendBlocksIfOnWire(c, blocks)) \subseteq Known(c)
           /\ SetBlockNotSent(c, p).m_blocks_sending = c.m_blocks_sending \ {p}
           /\ Known(SetBlockNotSent(c, p)) = Known(c) \ {p}
<1>1. /\ ClientOK(SetBlockNotSent(c, p))
      /\ SetBlockNotSent(c, p).m_blocks_sending = c.m_blocks_sending \ {p}
      /\ SetBlockNotSent(c, p).m_blocks_sent = c.m_blocks_sent \ {p}
  BY SetNotSent DEF SetBlockNotSent
<1> DEFINE again == blocks \cap c.m_blocks_sending
<1>2. ResendBlocksIfOnWire(c, blocks) = SetBlocksNotSent(c, again, again)
  BY DEF ResendBlocksIfOnWire
<1> HIDE DEF again
<1>3. /\ ClientOK(ResendBlocksIfOnWire(c, blocks))
      /\ ResendBlocksIfOnWire(c, blocks).m_blocks_sending = c.m_blocks_sending \ again
      /\ ResendBlocksIfOnWire(c, blocks).m_blocks_sent = c.m_blocks_sent \ again
  BY <1>2, SetNotSent
<1> QED
  BY <1>1, <1>3 DEF Known

(* What HandleInteract makes of the RemoteClient: some blocks are to be    *)
(* sent again.                                                             *)
LEMMA InteractResends ==
    ASSUME ClientOK(client), HandleInteract
    PROVE  /\ ClientOK(client')
           /\ client'.m_blocks_sending \subseteq client.m_blocks_sending
           /\ Known(client') \subseteq Known(client)
<1> DEFINE m == Head(to_server[0])
<1>1. PICK u \in Block : (\E predicted \in BOOLEAN : CarriedOut(m, u, predicted))
                         \/ Refused(m, u) \/ Unreverted(m, u)
  BY DEF HandleInteract
<1> DEFINE both == {m.p, u}
<1>2. client' \in {client, SetBlocksNotSent(client, both, both), SetBlockNotSent(client, u),
                   ResendBlocksIfOnWire(client, both)}
  BY <1>1 DEF CarriedOut, Refused, Unreverted
<1> HIDE DEF both
<1>3. /\ ClientOK(SetBlocksNotSent(client, both, both))
      /\ SetBlocksNotSent(client, both, both).m_blocks_sending \subseteq client.m_blocks_sending
      /\ Known(SetBlocksNotSent(client, both, both)) \subseteq Known(client)
  BY SetNotSent DEF Known
<1> QED
  BY <1>2, <1>3, ResendOnWire

LEMMA GotOne ==
    ASSUME NEW c, ClientOK(c), NEW p
    PROVE  /\ ClientOK(GotBlock(c, p))
           /\ GotBlock(c, p).m_blocks_sending = c.m_blocks_sending \ {p}
           /\ Known(GotBlock(c, p)) = Known(c)
<1>1. c \in ClientState /\ c.m_blocks_sending \cap c.m_blocks_sent = {}
  BY DEF ClientOK
<1>2. CASE p \notin c.m_blocks_sending
  BY <1>2 DEF GotBlock, Known
<1>3. CASE p \in c.m_blocks_sending
  <2> DEFINE S == c.m_blocks_sending \ {p}
             T == c.m_blocks_sent \cup {p}
             r == GotBlock(c, p)
  <2>1. S \subseteq Block /\ Cardinality(S) <= m_max_simul_sends /\ T \subseteq Block /\ S \cap T = {}
    BY <1>1, <1>3, FewerSending DEF ClientState
  <2>2. r = [c EXCEPT !.m_blocks_sending = S, !.m_blocks_sent = T]
    BY <1>3 DEF GotBlock
  <2>3. S \cup T = c.m_blocks_sending \cup c.m_blocks_sent
    BY <1>3
  <2> HIDE DEF S, T
  <2>4. r \in ClientState /\ r.m_blocks_sending = S /\ r.m_blocks_sent = T
    BY <1>1, <2>1, <2>2 DEF ClientState
  <2> QED
    BY <2>1, <2>3, <2>4 DEF ClientOK, Known, S
<1> QED
  BY <1>2, <1>3

-----------------------------------------------------------------------------
(* What the scan chooses.  It goes through the blocks one by one: the proof *)
(* is by induction over the position in Order.                             *)

MaybeD == 0 .. full_d_max \cup {None}
ScanState == [chosen : SUBSET Block, emerged : SUBSET Block, culled : SUBSET Block,
              nearest_emerged_d : MaybeD, nearest_sent_d : MaybeD, broke_off_d : MaybeD]

GoodScan(s) ==
    /\ s \in ScanState
    /\ s.chosen \cap Known(client) = {}
    /\ Cardinality(client.m_blocks_sending \cup s.chosen) <= m_max_simul_sends

LEMMA ScannedGood ==
    ASSUME ServerTypes, ClientOK(client), NEW s, GoodScan(s), NEW p \in Block, NEW building
    PROVE  GoodScan(Scanned(s, p, building))
<1> DEFINE t == Scanned(s, p, building)
           now == client.m_blocks_sending \cup s.chosen
<1>1. s \in ScanState /\ Dist[p] \in MaybeD
  BY BlocksAssumption DEF GoodScan, MaybeD
<1>2. \A d \in MaybeD : First(d, p) \in MaybeD
  BY <1>1 DEF First
<1>3. IsFiniteSet(now) /\ Cardinality(now) \in Nat /\ Cardinality(now) <= m_max_simul_sends
  <2>1. now \subseteq Block
    BY <1>1 DEF ClientOK, ClientState, ScanState
  <2> QED
    BY <2>1, BlocksFinite, FS_Subset, FS_CardinalityType DEF GoodScan
<1>4. CASE t = s
  BY <1>4
<1>5. CASE t = [s EXCEPT !.broke_off_d = Dist[p]]
  BY <1>1, <1>5 DEF GoodScan, ScanState
<1>6. CASE t = [s EXCEPT !.culled = s.culled \cup {p}]
  BY <1>1, <1>6 DEF GoodScan, ScanState
<1>7. CASE /\ ~(Cardinality(now) >= MaxSimulDynamic(p, building)) /\ p \notin Known(client)
           /\ t = [s EXCEPT !.chosen = s.chosen \cup {p}, !.nearest_sent_d = First(s.nearest_sent_d, p)]
  <2> DEFINE d == First(s.nearest_sent_d, p)
             C == s.chosen \cup {p}
  <2>1. d \in MaybeD /\ C \in SUBSET Block
    BY <1>1, <1>2 DEF ScanState
  <2>2. t = [s EXCEPT !.chosen = C, !.nearest_sent_d = d]
    BY <1>7
  <2>3. MaxSimulDynamic(p, building) \in Nat /\ MaxSimulDynamic(p, building) <= m_max_simul_sends
    BY LimitsAssumption DEF MaxSimulDynamic
  <2>4. Cardinality(now) + 1 <= m_max_simul_sends
    BY <1>3, <1>7, <2>3, LimitsAssumption
  <2>5. client.m_blocks_sending \cup C = now \cup {p}
    OBVIOUS
  <2>6. Cardinality(now \cup {p}) = IF p \in now THEN Cardinality(now) ELSE Cardinality(now) + 1
    BY <1>3, FS_AddElement
  <2>7. C \cap Known(client) = {}
    BY <1>7 DEF GoodScan
  <2> HIDE DEF d, C
  <2>8. t \in ScanState /\ t.chosen = C
    BY <1>1, <2>1, <2>2 DEF ScanState
  <2> QED
    BY <1>3, <2>4, <2>5, <2>6, <2>7, <2>8 DEF GoodScan
<1>8. CASE t = [s EXCEPT !.emerged = s.emerged \cup {p}, !.nearest_emerged_d = First(s.nearest_emerged_d, p)]
  <2> DEFINE d == First(s.nearest_emerged_d, p)
             E == s.emerged \cup {p}
  <2>1. d \in MaybeD /\ E \in SUBSET Block
    BY <1>1, <1>2 DEF ScanState
  <2>2. t = [s EXCEPT !.emerged = E, !.nearest_emerged_d = d]
    BY <1>8
  <2> HIDE DEF d, E
  <2> QED
    BY <1>1, <2>1, <2>2 DEF ScanState, GoodScan
<1>9. CASE t = [s EXCEPT !.broke_off_d = Dist[p], !.nearest_emerged_d = First(s.nearest_emerged_d, p)]
  <2> DEFINE d == First(s.nearest_emerged_d, p)
  <2>1. d \in MaybeD
    BY <1>1, <1>2 DEF ScanState
  <2>2. t = [s EXCEPT !.broke_off_d = Dist[p], !.nearest_emerged_d = d]
    BY <1>9
  <2> HIDE DEF d
  <2> QED
    BY <1>1, <2>1, <2>2 DEF ScanState, GoodScan
<1> HIDE DEF t
<1> QED
  <2>1. \/ t = s
        \/ t = [s EXCEPT !.broke_off_d = Dist[p]]
        \/ t = [s EXCEPT !.culled = s.culled \cup {p}]
        \/ /\ ~(Cardinality(now) >= MaxSimulDynamic(p, building)) /\ p \notin Known(client)
           /\ t = [s EXCEPT !.chosen = s.chosen \cup {p}, !.nearest_sent_d = First(s.nearest_sent_d, p)]
        \/ t = [s EXCEPT !.emerged = s.emerged \cup {p}, !.nearest_emerged_d = First(s.nearest_emerged_d, p)]
        \/ t = [s EXCEPT !.broke_off_d = Dist[p], !.nearest_emerged_d = First(s.nearest_emerged_d, p)]
    BY DEF Scanned, t
  <2> QED
    BY <2>1, <1>4, <1>5, <1>6, <1>7, <1>8, <1>9 DEF t

(* One position of the scan. *)
Look(s, p, building) == IF InScan(p) THEN Scanned(s, p, building) ELSE s

(* f is the scan of the first n blocks. *)
ScansTo(n, f, building) ==
    f = [i \in 0 .. n |-> IF i = 0 THEN ScanStart ELSE Look(f[i - 1], Order[i], building)]

LEMMA ScanLonger ==
    ASSUME NEW building, NEW n \in Nat, NEW f, ScansTo(n, f, building)
    PROVE  \E h : ScansTo(n + 1, h, building)
<1> DEFINE h == [i \in 0 .. n + 1 |->
                   IF i = 0 THEN ScanStart ELSE Look(f[i - 1], Order[i], building)]
<1>1. \A i \in 0 .. n : h[i] = f[i]
  BY DEF ScansTo
<1>2. \A i \in 0 .. n + 1 :
        h[i] = IF i = 0 THEN ScanStart ELSE Look(h[i - 1], Order[i], building)
  <2> TAKE i \in 0 .. n + 1
  <2>1. CASE i = 0
    BY <2>1
  <2>2. CASE i # 0
    <3>1. i - 1 \in 0 .. n
      BY <2>2
    <3>2. h[i - 1] = f[i - 1]
      BY <1>1, <3>1
    <3>3. h[i] = Look(f[i - 1], Order[i], building)
      BY <2>2
    <3> QED
      BY <2>2, <3>2, <3>3
  <2> QED
    BY <2>1, <2>2
<1>3. DOMAIN h = 0 .. n + 1 /\ h = [i \in 0 .. n + 1 |-> h[i]]
  OBVIOUS
<1> HIDE DEF h
<1>4. ScansTo(n + 1, h, building)
  BY <1>2, <1>3 DEF ScansTo
<1> QED
  BY <1>4

LEMMA ScanIs ==
    ASSUME NEW building
    PROVE  \E f : ScansTo(Len(Order), f, building) /\ Scan(building) = f[Len(Order)]
<1> DEFINE L == Len(Order)
           S == {n \in Nat : \E f : ScansTo(n, f, building)}
<1>1. 0 \in S
  <2>1. ScansTo(0, [i \in 0 .. 0 |-> ScanStart], building)
    BY DEF ScansTo
  <2> QED
    BY <2>1
<1>2. \A n \in Nat : n \in S => n + 1 \in S
  BY ScanLonger
<1>3. L \in Nat
  BY BlocksAssumption
<1>4. \E f : ScansTo(L, f, building)
  <2> HIDE DEF S
  <2>1. L \in S
    BY <1>1, <1>2, <1>3, SetInduction
  <2> QED
    BY <2>1 DEF S
<1> DEFINE g == CHOOSE f : f = [i \in 0 .. Len(Order) |->
                IF i = 0 THEN ScanStart
                ELSE IF InScan(Order[i]) THEN Scanned(f[i - 1], Order[i], building)
                ELSE f[i - 1]]
<1>5. Scan(building) = g[L]
  BY DEF Scan
<1>6. g = [i \in 0 .. Len(Order) |->
                IF i = 0 THEN ScanStart
                ELSE IF InScan(Order[i]) THEN Scanned(g[i - 1], Order[i], building)
                ELSE g[i - 1]]
  BY <1>4 DEF ScansTo, Look
<1>7. ScansTo(L, g, building)
  BY <1>6 DEF ScansTo, Look
<1> QED
  BY <1>5, <1>7

LEMMA ScanGood ==
    ASSUME ServerTypes, ClientOK(client), NEW building
    PROVE  GoodScan(Scan(building))
<1> DEFINE L == Len(Order)
<1>1. PICK f : ScansTo(L, f, building) /\ Scan(building) = f[L]
  BY ScanIs
<1>2. L \in Nat /\ \A i \in 1 .. L : Order[i] \in Block
  BY BlocksAssumption
<1> DEFINE S == {n \in Nat : n <= L => GoodScan(f[n])}
<1>3. 0 \in S
  <2>1. f[0] = ScanStart
    BY <1>1, <1>2 DEF ScansTo
  <2>2. ScanStart \in ScanState /\ ScanStart.chosen = {}
    BY DEF ScanStart, ScanState, MaybeD, ServerTypes, ClientOK, ClientState
  <2>3. client.m_blocks_sending \cup {} = client.m_blocks_sending
    OBVIOUS
  <2> QED
    BY <2>1, <2>2, <2>3 DEF GoodScan, ClientOK
<1>4. ASSUME NEW n \in Nat, n \in S PROVE n + 1 \in S
  <2> SUFFICES ASSUME n + 1 <= L PROVE GoodScan(f[n + 1])
    OBVIOUS
  <2>1. GoodScan(f[n])
    BY <1>2, <1>4
  <2>2. n + 1 \in 0 .. L /\ n + 1 # 0 /\ (n + 1) - 1 = n /\ Order[n + 1] \in Block
    BY <1>2
  <2>3. f[n + 1] = Look(f[n], Order[n + 1], building)
    BY <1>1, <2>2 DEF ScansTo
  <2> QED
    BY <2>1, <2>2, <2>3, ScannedGood DEF Look
<1>5. L \in S
  <2> HIDE DEF S
  <2> QED
    BY <1>2, <1>3, <1>4, SetInduction
<1> QED
  BY <1>1, <1>2, <1>5

-----------------------------------------------------------------------------
(* Types: one lemma for each operation *)

LEMMA SentIs ==
    ASSUME ServerTypes, ClientOK(client), NEW building, NEW sent \in Sending(Scan(building))
    PROVE  /\ sent \in Seq(Block) /\ ToSet(sent) \subseteq Scan(building).chosen
           /\ ToSet(sent) \cap Known(client) = {}
           /\ Cardinality(client.m_blocks_sending \cup ToSet(sent)) <= m_max_simul_sends
<1> DEFINE chosen == Scan(building).chosen
           room == {i \in 1 .. Cardinality(chosen) :
                      Cardinality(client.m_blocks_sending) + i <= max_blocks_to_send}
<1>1. /\ chosen \subseteq Block /\ chosen \cap Known(client) = {}
      /\ Cardinality(client.m_blocks_sending \cup chosen) <= m_max_simul_sends
  BY ScanGood DEF GoodScan, ScanState
<1>2. PICK q \in [1 .. Cardinality(chosen) -> chosen] : sent = SubSeq(q, 1, Cardinality(room))
  BY DEF Sending, Sorted
<1>3. IsFiniteSet(chosen) /\ Cardinality(chosen) \in Nat
  BY <1>1, BlocksFinite, FS_Subset, FS_CardinalityType
<1>4. room \subseteq 1 .. Cardinality(chosen) /\ IsFiniteSet(1 .. Cardinality(chosen))
      /\ Cardinality(1 .. Cardinality(chosen)) = Cardinality(chosen)
  BY <1>3, FS_Interval
<1>5. Cardinality(room) \in Nat /\ Cardinality(room) <= Cardinality(chosen)
  BY <1>4, FS_Subset, FS_CardinalityType
<1>6. q \in Seq(chosen) /\ Len(q) = Cardinality(chosen)
  BY <1>3
<1> HIDE DEF chosen, room
<1>7. sent \in Seq(chosen)
  BY <1>2, <1>5, <1>6
<1>8. sent \in Seq(Block) /\ ToSet(sent) \subseteq chosen
  BY <1>1, <1>7 DEF ToSet
<1>9. Cardinality(client.m_blocks_sending \cup ToSet(sent)) <= m_max_simul_sends
  <2> DEFINE big == client.m_blocks_sending \cup chosen
             small == client.m_blocks_sending \cup ToSet(sent)
  <2>1. big \subseteq Block /\ small \subseteq big
    BY <1>1, <1>8 DEF ClientOK, ClientState
  <2>2. IsFiniteSet(big) /\ IsFiniteSet(small) /\ Cardinality(small) <= Cardinality(big)
    BY <2>1, BlocksFinite, FS_Subset
  <2>3. Cardinality(small) \in Nat /\ Cardinality(big) \in Nat
    BY <2>2, FS_CardinalityType
  <2> QED
    BY <1>1, <2>2, <2>3, LimitsAssumption
<1> QED
  BY <1>1, <1>8, <1>9 DEF chosen

LEMMA NextScanType ==
    ASSUME ClientOK(client), NEW s, GoodScan(s)
    PROVE  NewNearestUnsentD(s) \in 0 .. full_d_max
<1> DEFINE D == {full_d_max, client.m_nearest_unsent_d + MaxDIncrementAtTime}
<1>1. D \subseteq Nat /\ D # {} /\ full_d_max \in D /\ full_d_max \in Nat
  BY BlocksAssumption DEF ClientOK, ClientState, MaxDIncrementAtTime
<1>2. d_max \in Nat /\ d_max <= full_d_max
  <2> HIDE DEF D
  <2>1. Min(D) \in D /\ \A k \in D : Min(D) <= k
    BY <1>1, MinIs
  <2> QED
    BY <1>1, <2>1 DEF d_max, D
<1>3. /\ s.nearest_emerged_d \in MaybeD /\ s.nearest_sent_d \in MaybeD
      /\ s.broke_off_d \in MaybeD
  BY DEF GoodScan, ScanState
<1> DEFINE d == IF s.broke_off_d = None THEN d_max + 1 ELSE s.broke_off_d
<1>4. d \in Nat
  BY <1>1, <1>2, <1>3 DEF MaybeD
<1>5. NewNearestUnsentD(s) =
        CASE s.nearest_emerged_d # None -> s.nearest_emerged_d
          [] s.nearest_emerged_d = None /\ d > full_d_max -> 0
          [] s.nearest_emerged_d = None /\ d <= full_d_max /\ s.nearest_sent_d # None ->
                s.nearest_sent_d
          [] OTHER -> d
  BY DEF NewNearestUnsentD
<1> HIDE DEF d
<1>6. CASE s.nearest_emerged_d # None
  BY <1>3, <1>5, <1>6 DEF MaybeD
<1>7. CASE s.nearest_emerged_d = None
  BY <1>1, <1>3, <1>4, <1>5, <1>7 DEF MaybeD
<1> QED
  BY <1>6, <1>7

LEMMA DataOf ==
    ASSUME ServerTypes, NEW p \in Block
    PROVE  /\ BlockData(p) \in BlockMessage /\ BlockData(p).p = p
           /\ BlockData(p).content = map[p]
BY DEF BlockData, BlockMessage, ServerTypes

LEMMA SendBlocksIs ==
    ASSUME TypeOK, NEW building, SendBlocks(building)
    PROVE  \E sent \in Seq(Block) :
             LET out == [i \in DOMAIN sent |-> BlockData(sent[i])]
             IN  /\ ClientOK(client')
                 /\ client'.m_blocks_sending = client.m_blocks_sending \cup ToSet(sent)
                 /\ client'.m_blocks_sent = client.m_blocks_sent
                 /\ out \in Seq(BlockMessage)
                 /\ to_client' = [to_client EXCEPT ![2] = to_client[2] \o out]
                 /\ enqueued' \subseteq Block
<1> DEFINE s == Scan(building)
<1>1. ServerTypes /\ ClientOK(client) /\ GoodScan(s)
  BY TypeParts, ScanGood
<1>2. PICK sent \in Sending(s) :
        /\ client' = [client EXCEPT
                !.m_blocks_sending = client.m_blocks_sending \cup ToSet(sent),
                !.m_nearest_unsent_d = NewNearestUnsentD(s),
                !.m_blocks_occ = IF NewNearestUnsentD(s) # client.m_nearest_unsent_d
                                 THEN {} ELSE s.culled,
                !.paused = FullMapSent(s)]
        /\ to_client' = [to_client EXCEPT ![2] =
                to_client[2] \o [i \in DOMAIN sent |-> BlockData(sent[i])]]
  BY DEF SendBlocks
<1>3. /\ sent \in Seq(Block) /\ ToSet(sent) \cap Known(client) = {}
      /\ Cardinality(client.m_blocks_sending \cup ToSet(sent)) <= m_max_simul_sends
  BY <1>1, SentIs
<1> DEFINE S == client.m_blocks_sending \cup ToSet(sent)
           d == NewNearestUnsentD(s)
           occ == IF NewNearestUnsentD(s) # client.m_nearest_unsent_d THEN {} ELSE s.culled
           paused == FullMapSent(s)
           out == [i \in DOMAIN sent |-> BlockData(sent[i])]
<1>4. /\ S \subseteq Block /\ S \cap client.m_blocks_sent = {} /\ occ \subseteq Block
      /\ paused \in BOOLEAN /\ d \in 0 .. full_d_max
  <2>1. ToSet(sent) \subseteq Block
    BY <1>3 DEF ToSet
  <2>2. S \subseteq Block /\ S \cap client.m_blocks_sent = {}
    BY <1>1, <1>3, <2>1 DEF ClientOK, ClientState, Known
  <2>3. occ \subseteq Block /\ paused \in BOOLEAN
    BY <1>1 DEF GoodScan, ScanState, FullMapSent
  <2> QED
    BY <1>1, <2>2, <2>3, NextScanType
<1>5. out \in Seq(BlockMessage)
  <2>1. DOMAIN sent = 1 .. Len(sent) /\ Len(sent) \in Nat /\ \A i \in DOMAIN sent : sent[i] \in Block
    BY <1>3
  <2>2. \A i \in DOMAIN sent : BlockData(sent[i]) \in BlockMessage
    BY <1>1, <2>1, DataOf
  <2> QED
    BY <2>1, <2>2
<1>6. client' = [client EXCEPT !.m_blocks_sending = S, !.m_nearest_unsent_d = d,
                               !.m_blocks_occ = occ, !.paused = paused]
  BY <1>2
<1>7. enqueued' \subseteq Block
  BY <1>1 DEF SendBlocks, GoodScan, ScanState
<1> HIDE DEF S, d, occ, paused, s
<1>8. client' \in ClientState /\ client'.m_blocks_sending = S
      /\ client'.m_blocks_sent = client.m_blocks_sent
  BY <1>1, <1>4, <1>6 DEF ClientOK, ClientState
<1>9. ClientOK(client')
  BY <1>3, <1>4, <1>8 DEF ClientOK, S
<1> HIDE DEF out
<1> QED
  BY <1>2, <1>3, <1>5, <1>7, <1>8, <1>9 DEF out, S

LEMMA SendBlocksType ==
    ASSUME TypeOK, NEW building, SendBlocks(building)
    PROVE  TypeOK'
<1>1. PICK sent \in Seq(Block) :
        LET out == [i \in DOMAIN sent |-> BlockData(sent[i])]
        IN  /\ ClientOK(client') /\ out \in Seq(BlockMessage)
            /\ to_client' = [to_client EXCEPT ![2] = to_client[2] \o out]
            /\ enqueued' \subseteq Block
  BY SendBlocksIs
<1> DEFINE out == [i \in DOMAIN sent |-> BlockData(sent[i])]
<1>2. ServerTypes /\ ClientOK(client) /\ WireTypes /\ WorldTypes
  BY TypeParts
<1>3. UNCHANGED <<map, loaded, arriving, m_unsent_map_edit_queue, hidden, to_server, world, owed,
                  crossed, unreverted, troubles>>
  BY DEF SendBlocks, clientVars
<1>4. ServerTypes' /\ WorldTypes'
  BY <1>1, <1>2, <1>3 DEF ServerTypes, WorldTypes
<1>5. ClientOK(client)'
  BY <1>1 DEF ClientOK
<1>6. to_client[2] \o out \in Seq(BlockMessage)
  BY <1>1, <1>2, ToSetConcat DEF WireTypes
<1>7. WireTypes'
  <2> HIDE DEF out
  <2> QED
    BY <1>1, <1>2, <1>3, <1>6 DEF WireTypes, Channel, out
<1> QED
  BY <1>4, <1>5, <1>7, TypePartsNext

LEMMA ChangeNodeType ==
    ASSUME ServerTypes, NEW type \in {"node", "other"}, NEW p \in Block, NEW n \in Node,
           NEW low \in BOOLEAN, ChangeNode(type, p, n, low)
    PROVE  /\ map' \in [Block -> Content] /\ troubles' \in 0 .. MaxTroubles
           /\ m_unsent_map_edit_queue' \in Seq(Event)
<1>1. troubles' \in 0 .. MaxTroubles
  BY BoundsAssumption DEF ChangeNode, Trouble, ServerTypes
<1>2. map' = [map EXCEPT ![p] = [map[p] EXCEPT ![n] = troubles']]
  BY DEF ChangeNode
<1>3. EditEvent(type, p, n, troubles', low) \in Event
  BY <1>1 DEF EditEvent, Event, NodeChange
<1>4. m_unsent_map_edit_queue' \in Seq(Event)
  BY <1>3 DEF ChangeNode, ServerTypes
<1> QED
  BY <1>1, <1>2, <1>4 DEF ServerTypes, Content

LEMMA EditType ==
    ASSUME TypeOK, NEW p \in Block, NEW n \in Node, NEW type \in {"node", "other"},
           NEW low \in BOOLEAN, Edit(p, n, type, low)
    PROVE  TypeOK'
<1>1. ServerTypes /\ ClientOK(client) /\ WireTypes /\ WorldTypes
  BY TypeParts
<1>2. /\ map' \in [Block -> Content] /\ troubles' \in 0 .. MaxTroubles
      /\ m_unsent_map_edit_queue' \in Seq(Event)
  BY <1>1, ChangeNodeType DEF Edit
<1>3. UNCHANGED <<loaded, enqueued, arriving, client, hidden, to_client, to_server,
                  world, owed, crossed, unreverted>>
  BY DEF Edit, clientVars
<1>4. ServerTypes'
  BY <1>1, <1>2, <1>3 DEF ServerTypes
<1>5. WireTypes' /\ WorldTypes' /\ ClientOK(client)'
  BY <1>1, <1>3 DEF WireTypes, WorldTypes, ClientOK
<1> QED
  BY <1>4, <1>5, TypePartsNext

LEMMA ForceSendType ==
    ASSUME TypeOK, NEW p \in Block, ForceSend(p)
    PROVE  TypeOK'
<1>1. ServerTypes /\ ClientOK(client) /\ WireTypes /\ WorldTypes
  BY TypeParts
<1>2. BlockData(p) \in BlockMessage
  BY <1>1, DataOf
<1>3. /\ UNCHANGED <<map, loaded, enqueued, arriving, m_unsent_map_edit_queue, hidden, client,
                     to_server, world, owed, crossed, unreverted>>
      /\ troubles' \in 0 .. MaxTroubles
  BY <1>1, BoundsAssumption DEF ForceSend, Trouble, serverVars, clientVars, ServerTypes
<1>4. ServerTypes' /\ WorldTypes' /\ ClientOK(client)'
  BY <1>1, <1>3 DEF ServerTypes, WorldTypes, ClientOK
<1>5. WireTypes'
  BY <1>1, <1>2, <1>3 DEF ForceSend, WireTypes, Channel
<1> QED
  BY <1>4, <1>5, TypePartsNext

LEMMA ProcessEditsIs ==
    ASSUME TypeOK, NEW far, ProcessEdits(far)
    PROVE  /\ ClientOK(client')
           /\ Known(client') = Known(client) \
                {Position(i) : i \in DOMAIN m_unsent_map_edit_queue \ SentAlone(far)}
           /\ client'.m_blocks_sending \subseteq client.m_blocks_sending
           /\ \E order \in InOrder(SentAlone(far)) :
                LET out == [k \in DOMAIN order |-> m_unsent_map_edit_queue[order[k]].change]
                IN  /\ out \in Seq(NodeChange)
                    /\ to_client' = [to_client EXCEPT ![0] = to_client[0] \o out]
<1> DEFINE alone == SentAlone(far)
           again == DOMAIN m_unsent_map_edit_queue \ alone
<1>1. ClientOK(client) /\ m_unsent_map_edit_queue \in Seq(Event)
  BY TypeParts DEF ServerTypes
<1>2. PICK urgent : client' = SetBlocksNotSent(client, {Position(i) : i \in again}, urgent)
  BY DEF ProcessEdits
<1>3. /\ ClientOK(client')
      /\ Known(client') = Known(client) \ {Position(i) : i \in again}
      /\ client'.m_blocks_sending \subseteq client.m_blocks_sending
  BY <1>1, <1>2, SetNotSent DEF Known
<1>4. PICK order \in InOrder(alone) :
        to_client' = [to_client EXCEPT ![0] = to_client[0] \o
            [k \in DOMAIN order |-> m_unsent_map_edit_queue[order[k]].change]]
  BY DEF ProcessEdits
<1> DEFINE out == [k \in DOMAIN order |-> m_unsent_map_edit_queue[order[k]].change]
<1>5. alone \subseteq DOMAIN m_unsent_map_edit_queue
  BY DEF SentAlone
<1>6. DOMAIN order = 1 .. Cardinality(alone) /\ \A k \in DOMAIN order : order[k] \in alone
  BY DEF InOrder
<1>7. Cardinality(alone) \in Nat
  <2>1. DOMAIN m_unsent_map_edit_queue = 1 .. Len(m_unsent_map_edit_queue)
        /\ Len(m_unsent_map_edit_queue) \in Nat
    BY <1>1
  <2>2. IsFiniteSet(DOMAIN m_unsent_map_edit_queue)
    BY <2>1, FS_Interval
  <2> HIDE DEF alone
  <2> QED
    BY <1>5, <2>2, FS_Subset, FS_CardinalityType
<1>8. \A k \in DOMAIN order : out[k] \in NodeChange
  <2>1. \A i \in DOMAIN m_unsent_map_edit_queue : m_unsent_map_edit_queue[i].change \in NodeChange
    <3>1. \A e \in Event : e.change \in NodeChange
      BY DEF Event
    <3> QED
      BY <1>1, <3>1
  <2> HIDE DEF alone
  <2> QED
    BY <1>5, <1>6, <2>1
<1>9. out \in Seq(NodeChange)
  BY <1>6, <1>7, <1>8
<1> QED
  BY <1>3, <1>4, <1>9

LEMMA ProcessEditsType ==
    ASSUME TypeOK, NEW far, ProcessEdits(far)
    PROVE  TypeOK'
<1>1. ServerTypes /\ ClientOK(client) /\ WireTypes /\ WorldTypes
  BY TypeParts
<1>2. PICK order \in InOrder(SentAlone(far)) :
        LET out == [k \in DOMAIN order |-> m_unsent_map_edit_queue[order[k]].change]
        IN  /\ out \in Seq(NodeChange)
            /\ to_client' = [to_client EXCEPT ![0] = to_client[0] \o out]
  BY ProcessEditsIs
<1> DEFINE out == [k \in DOMAIN order |-> m_unsent_map_edit_queue[order[k]].change]
<1>3. /\ UNCHANGED <<map, loaded, enqueued, arriving, hidden, to_server, world, owed, crossed,
                     unreverted, troubles>>
      /\ m_unsent_map_edit_queue' = <<>>
  BY DEF ProcessEdits, clientVars
<1>4. ServerTypes' /\ WorldTypes'
  BY <1>1, <1>3 DEF ServerTypes, WorldTypes
<1>5. ClientOK(client)'
  BY ProcessEditsIs DEF ClientOK
<1>6. to_client[0] \o out \in Seq(NodeChange)
  BY <1>1, <1>2, ToSetConcat DEF WireTypes
<1>7. WireTypes'
  <2> HIDE DEF out
  <2> QED
    BY <1>1, <1>2, <1>3, <1>6 DEF WireTypes, Channel, out
<1> QED
  BY <1>4, <1>5, <1>7, TypePartsNext

LEMMA HandleBlocksType ==
    ASSUME TypeOK, HandleBlocks
    PROVE  TypeOK'
<1> DEFINE m == Head(to_server[2])
<1>1. ServerTypes /\ ClientOK(client) /\ WireTypes /\ WorldTypes
  BY TypeParts
<1>2. Tail(to_server[2]) \in Seq(Answer)
  BY <1>1, ToSetTail DEF HandleBlocks, WireTypes
<1>3. UNCHANGED <<map, loaded, enqueued, arriving, m_unsent_map_edit_queue, hidden,
                  to_client, world, owed, crossed, unreverted, troubles>>
  BY DEF HandleBlocks, clientVars
<1>4. ServerTypes' /\ WorldTypes'
  BY <1>1, <1>3 DEF ServerTypes, WorldTypes
<1>5. ClientOK(client')
  BY <1>1, GotOne, ResendOnWire DEF HandleBlocks
<1>6. ClientOK(client)'
  BY <1>5 DEF ClientOK
<1>7. WireTypes'
  BY <1>1, <1>2, <1>3 DEF HandleBlocks, WireTypes, Channel
<1> QED
  BY <1>4, <1>6, <1>7, TypePartsNext

LEMMA HandleInteractType ==
    ASSUME TypeOK, HandleInteract
    PROVE  TypeOK'
<1> DEFINE m == Head(to_server[0])
<1>1. ServerTypes /\ ClientOK(client) /\ WireTypes /\ WorldTypes
  BY TypeParts
<1>2. Tail(to_server[0]) \in Seq(Interaction) /\ m \in Interaction
  BY <1>1, ToSetTail DEF HandleInteract, WireTypes
<1>3. m.p \in Block /\ m.n \in Node
  BY <1>2 DEF Interaction
<1>4. /\ map' \in [Block -> Content] /\ troubles' \in 0 .. MaxTroubles
      /\ m_unsent_map_edit_queue' \in Seq(Event)
  <2>1. CASE ChangeNode("node", m.p, m.n, FALSE)
    BY <1>1, <1>3, <2>1, ChangeNodeType
  <2>2. CASE UNCHANGED <<map, m_unsent_map_edit_queue, troubles>>
    BY <1>1, <2>2 DEF ServerTypes
  <2> QED
    BY <2>1, <2>2 DEF HandleInteract, CarriedOut, Refused, Unreverted
<1>5. unreverted' \subseteq Block \X Node
  <2>1. unreverted' \in {unreverted, unreverted \cup {<<m.p, m.n>>}}
    BY DEF HandleInteract, CarriedOut, Refused, Unreverted
  <2> QED
    BY <1>1, <1>3, <2>1 DEF WorldTypes
<1>6. UNCHANGED <<loaded, enqueued, arriving, hidden, to_client, world, owed, crossed>>
  BY DEF HandleInteract
<1>7. ServerTypes' /\ WorldTypes'
  BY <1>1, <1>4, <1>5, <1>6 DEF ServerTypes, WorldTypes
<1>8. ClientOK(client)'
  <2>1. ClientOK(client')
    BY <1>1, InteractResends
  <2> QED
    BY <2>1 DEF ClientOK
<1>9. WireTypes'
  BY <1>1, <1>2, <1>6 DEF HandleInteract, WireTypes, Channel
<1> QED
  BY <1>7, <1>8, <1>9, TypePartsNext

LEMMA ReceiveBlockType ==
    ASSUME TypeOK, ReceiveBlock
    PROVE  TypeOK'
<1> DEFINE m == Head(to_client[2])
<1>1. ServerTypes /\ ClientOK(client) /\ WireTypes /\ WorldTypes
  BY TypeParts
<1>2. Tail(to_client[2]) \in Seq(BlockMessage) /\ m \in BlockMessage
  BY <1>1, ToSetTail DEF ReceiveBlock, WireTypes
<1>3. m.p \in Block /\ m.content \in [Node -> 0 .. Guess]
  BY <1>2, BoundsAssumption DEF BlockMessage, Content, Guess
<1>4. UNCHANGED <<map, loaded, enqueued, arriving, m_unsent_map_edit_queue, client, hidden,
                  to_server, troubles>>
  BY DEF ReceiveBlock, serverVars
<1>5. ServerTypes' /\ ClientOK(client)'
  BY <1>1, <1>4 DEF ServerTypes, ClientOK
<1>6. WireTypes'
  BY <1>1, <1>2, <1>4 DEF ReceiveBlock, WireTypes, Channel
<1>7. WorldTypes'
  <2>1. world' = [world EXCEPT ![m.p] = m.content]
    BY DEF ReceiveBlock
  <2>2. owed[m.p] < MaxOwed /\ owed' = [owed EXCEPT ![m.p] = owed[m.p] + 1]
    BY DEF ReceiveBlock, Owe
  <2>3. crossed' \in {crossed, crossed \cup {m.p}, crossed \ {m.p}}
    BY DEF ReceiveBlock
  <2>4. world' \in [Block -> [Node -> 0 .. Guess] \cup {None}]
    BY <1>1, <1>3, <2>1 DEF WorldTypes
  <2>6. unreverted' \subseteq unreverted
    BY DEF ReceiveBlock
  <2>5. owed' \in [Block -> 0 .. MaxOwed]
    BY <1>1, <1>3, <2>2, BoundsAssumption DEF WorldTypes
  <2> QED
    BY <1>1, <1>3, <2>3, <2>4, <2>5, <2>6 DEF WorldTypes
<1> QED
  BY <1>5, <1>6, <1>7, TypePartsNext

LEMMA ReceiveNodeType ==
    ASSUME TypeOK, ReceiveNode
    PROVE  TypeOK'
<1> DEFINE m == Head(to_client[0])
<1>1. ServerTypes /\ ClientOK(client) /\ WireTypes /\ WorldTypes
  BY TypeParts
<1>2. Tail(to_client[0]) \in Seq(NodeChange) /\ m \in NodeChange
  BY <1>1, ToSetTail DEF ReceiveNode, WireTypes
<1>3. m.p \in Block /\ m.n \in Node /\ m.v \in 0 .. Guess
  BY <1>2, BoundsAssumption DEF NodeChange, Guess
<1>4. UNCHANGED <<map, loaded, enqueued, arriving, m_unsent_map_edit_queue, client, hidden,
                  to_server, owed, troubles>>
  BY DEF ReceiveNode, serverVars
<1>5. ServerTypes' /\ ClientOK(client)'
  BY <1>1, <1>4 DEF ServerTypes, ClientOK
<1>6. WireTypes'
  BY <1>1, <1>2, <1>4 DEF ReceiveNode, WireTypes, Channel
<1>7. WorldTypes'
  <2>1. world' = IF world[m.p] = None THEN world
                 ELSE [world EXCEPT ![m.p] = [world[m.p] EXCEPT ![m.n] = m.v]]
    BY DEF ReceiveNode
  <2>2. world' \in [Block -> [Node -> 0 .. Guess] \cup {None}]
    BY <1>1, <1>3, <2>1 DEF WorldTypes
  <2>3. crossed' \subseteq Block
    <3>1. ToSet(to_client[2]) \subseteq BlockMessage
      BY <1>1 DEF WireTypes, ToSet
    <3> QED
      BY <1>1, <3>1 DEF ReceiveNode, WorldTypes, BlockMessage
  <2>4. unreverted' \subseteq unreverted
    BY DEF ReceiveNode
  <2> QED
    BY <1>1, <1>4, <2>2, <2>3, <2>4 DEF WorldTypes
<1> QED
  BY <1>5, <1>6, <1>7, TypePartsNext

LEMMA AnswerType ==
    ASSUME TypeOK, NEW p \in Block, (\E k \in 1 .. MaxOwed : Acknowledge(p, k)) \/ Unload(p)
    PROVE  TypeOK'
<1>1. ServerTypes /\ ClientOK(client) /\ WireTypes /\ WorldTypes
  BY TypeParts
<1>2. PICK type \in {"got", "deleted"} :
        to_server' = [to_server EXCEPT ![2] = Append(to_server[2], [type |-> type, p |-> p])]
  BY DEF Acknowledge, Unload
<1>3. [type |-> type, p |-> p] \in Answer
  BY DEF Answer
<1>4. UNCHANGED <<map, loaded, enqueued, arriving, m_unsent_map_edit_queue, client, hidden,
                  to_client, crossed>> /\ unreverted' \subseteq unreverted
  BY DEF Acknowledge, Unload, serverVars
<1>5. troubles' \in 0 .. MaxTroubles
  BY <1>1, BoundsAssumption DEF Acknowledge, Unload, Trouble, ServerTypes
<1>6. ServerTypes' /\ ClientOK(client)'
  BY <1>1, <1>4, <1>5 DEF ServerTypes, ClientOK
<1>7. WireTypes'
  BY <1>1, <1>2, <1>3, <1>4 DEF WireTypes, Channel
<1>8. WorldTypes'
  <2>1. ASSUME NEW k \in 1 .. MaxOwed, Acknowledge(p, k)
        PROVE  owed' \in [Block -> 0 .. MaxOwed] /\ world' = world
    BY <1>1, <2>1, BoundsAssumption DEF Acknowledge, WorldTypes
  <2>2. CASE Unload(p)
    BY <1>1, <1>4, <2>2 DEF Unload, WorldTypes
  <2> QED
    BY <1>1, <1>4, <2>1, <2>2 DEF WorldTypes
<1> QED
  BY <1>6, <1>7, <1>8, TypePartsNext

LEMMA InteractType ==
    ASSUME TypeOK, NEW p \in Block, NEW n \in Node, Interact(p, n)
    PROVE  TypeOK'
<1>1. ServerTypes /\ ClientOK(client) /\ WireTypes /\ WorldTypes
  BY TypeParts
<1>2. /\ UNCHANGED <<map, loaded, enqueued, arriving, m_unsent_map_edit_queue, client, hidden,
                     to_client, owed, crossed, unreverted>>
      /\ troubles' \in 0 .. MaxTroubles
  BY <1>1, BoundsAssumption DEF Interact, Trouble, serverVars, ServerTypes
<1>3. ServerTypes' /\ ClientOK(client)'
  BY <1>1, <1>2 DEF ServerTypes, ClientOK
<1>4. [p |-> p, n |-> n] \in Interaction
  BY DEF Interaction
<1>5. WireTypes'
  BY <1>1, <1>2, <1>4 DEF Interact, WireTypes, Channel
<1>6. world[p] # None /\ world' = [world EXCEPT ![p] = [world[p] EXCEPT ![n] = Guess]]
  BY DEF Interact
<1>7. Guess \in 0 .. Guess
  BY BoundsAssumption DEF Guess
<1>8. WorldTypes'
  BY <1>1, <1>2, <1>6, <1>7 DEF WorldTypes
<1> QED
  BY <1>3, <1>5, <1>8, TypePartsNext

(* What does not touch the channels or what the client has. *)
LEMMA ServerType ==
    ASSUME TypeOK,
           \/ PauseOver \/ UNCHANGED vars
           \/ \E seen \in SUBSET Hideable : Move(seen)
           \/ \E p \in Block : Uncover(p) \/ BlockArrives(p) \/ DispatchArrival(p)
    PROVE  TypeOK'
<1>1. ServerTypes /\ ClientOK(client) /\ WireTypes /\ WorldTypes
  BY TypeParts
<1>2. UNCHANGED <<map, to_client, to_server, world, owed, crossed, unreverted>>
  BY DEF PauseOver, Move, Uncover, BlockArrives, DispatchArrival, clientVars, vars, serverVars
<1>3. WireTypes' /\ WorldTypes'
  BY <1>1, <1>2 DEF WireTypes, WorldTypes
<1>4. ClientOK(client)'
  <2>1. \/ client' = client
        \/ client' = [client EXCEPT !.paused = FALSE]
        \/ client' = [client EXCEPT !.m_nearest_unsent_d = 0]
    BY DEF PauseOver, Move, Uncover, BlockArrives, DispatchArrival, vars, serverVars
  <2>2. client' \in ClientState
    <3>1. client \in ClientState /\ 0 \in 0 .. full_d_max
      BY <1>1, BlocksAssumption DEF ClientOK
    <3> QED
      BY <2>1, <3>1 DEF ClientState
  <2>3. UNCHANGED <<client.m_blocks_sending, client.m_blocks_sent>>
    BY <1>1, <2>1 DEF ClientOK, ClientState
  <2> QED
    BY <1>1, <2>2, <2>3 DEF ClientOK
<1>5. ServerTypes'
  <2>1. ASSUME NEW p \in Block, DispatchArrival(p)
        PROVE  ServerTypes'
    <3>1. PICK n \in Node : m_unsent_map_edit_queue' =
              Append(m_unsent_map_edit_queue, EditEvent("other", p, n, map[p][n], FALSE))
      BY <2>1 DEF DispatchArrival
    <3>2. EditEvent("other", p, n, map[p][n], FALSE) \in Event
      BY <1>1 DEF EditEvent, Event, NodeChange, ServerTypes, Content
    <3>4. \E e \in Event : m_unsent_map_edit_queue' = Append(m_unsent_map_edit_queue, e)
      BY <3>1, <3>2
    <3>5. m_unsent_map_edit_queue \in Seq(Event)
      BY <1>1 DEF ServerTypes
    <3>3. m_unsent_map_edit_queue' \in Seq(Event)
      BY <3>4, <3>5
    <3> QED
      BY <1>1, <2>1, <3>3 DEF DispatchArrival, ServerTypes
  <2>2. ASSUME NEW p \in Block, Uncover(p) \/ BlockArrives(p)
        PROVE  ServerTypes'
    BY <1>1, <2>2 DEF Uncover, BlockArrives, ServerTypes
  <2>3. ASSUME NEW seen \in SUBSET Hideable, Move(seen)
        PROVE  ServerTypes'
    BY <1>1, <2>3, BoundsAssumption DEF Move, Trouble, ServerTypes
  <2>4. CASE PauseOver \/ UNCHANGED vars
    BY <1>1, <2>4 DEF PauseOver, vars, serverVars, ServerTypes
  <2> QED
    BY <2>1, <2>2, <2>3, <2>4
<1> QED
  BY <1>3, <1>4, <1>5, TypePartsNext

LEMMA TypeInitially == Init => TypeOK
<1> SUFFICES ASSUME Init PROVE TypeOK
  OBVIOUS
<1>1. ServerTypes
  BY BlocksAssumption, BoundsAssumption DEF Init, ServerTypes, Content
<1>2. ClientOK(client)
  BY FS_EmptySet, BlocksAssumption, LimitsAssumption DEF Init, ClientOK, ClientState
<1>3. WireTypes
  BY DEF Init, WireTypes, Channel
<1>4. WorldTypes
  BY BoundsAssumption DEF Init, WorldTypes
<1> QED
  BY <1>1, <1>2, <1>3, <1>4, TypeParts

LEMMA TypeStays == TypeOK /\ [Next]_vars => TypeOK'
<1> SUFFICES ASSUME TypeOK, [Next]_vars PROVE TypeOK'
  OBVIOUS
<1>1. ASSUME NEW building \in BOOLEAN, SendBlocks(building) PROVE TypeOK'
  BY <1>1, SendBlocksType
<1>2. ASSUME NEW p \in Block, ForceSend(p) PROVE TypeOK'
  BY <1>2, ForceSendType
<1>3. ASSUME NEW p \in Block, NEW n \in Node, NEW type \in {"node", "other"},
             NEW low \in BOOLEAN, Edit(p, n, type, low)
      PROVE  TypeOK'
  BY <1>3, EditType
<1>4. ASSUME NEW far \in SUBSET DOMAIN m_unsent_map_edit_queue, ProcessEdits(far) PROVE TypeOK'
  BY <1>4, ProcessEditsType
<1>5. CASE HandleBlocks \/ ReceiveBlock \/ ReceiveNode
  BY <1>5, HandleBlocksType, ReceiveBlockType, ReceiveNodeType
<1>6. ASSUME HandleInteract PROVE TypeOK'
  BY <1>6, HandleInteractType
<1>7. ASSUME NEW p \in Block, (\E k \in 1 .. MaxOwed : Acknowledge(p, k)) \/ Unload(p)
      PROVE  TypeOK'
  BY <1>7, AnswerType
<1>8. ASSUME NEW p \in Block, NEW n \in Node, Interact(p, n) PROVE TypeOK'
  BY <1>8, InteractType
<1>9. CASE \/ PauseOver \/ UNCHANGED vars
           \/ \E seen \in SUBSET Hideable : Move(seen)
           \/ \E p \in Block : Uncover(p) \/ BlockArrives(p) \/ DispatchArrival(p)
  BY <1>9, ServerType
<1> QED
  BY <1>1, <1>2, <1>3, <1>4, <1>5, <1>6, <1>7, <1>8, <1>9 DEF Next

(* Types.  In particular no more blocks are on the wire than the client    *)
(* may be sent at once, and none of them counts as sent, whatever the scan *)
(* comes across.                                                           *)
THEOREM TypeCorrect == Spec => []TypeOK
BY TypeInitially, TypeStays, PTL DEF Spec

-----------------------------------------------------------------------------
(* The slots.  Each message that answers for a block turns into the next   *)
(* one: BLOCKDATA into an acknowledgement owed, that into GOTBLOCKS, and   *)
(* when that or DELETEDBLOCKS is handled the slot goes with it.            *)

(* The server will hear of p. *)
Answered(p) == OnTheWay(p) \/ owed[p] > 0 \/ \E m \in ToSet(to_server[2]) : m.p = p

LEMMA SlotsKept ==
    ASSUME SlotsComeBack,
           \A p \in client'.m_blocks_sending :
                Answered(p)' \/ (p \in client.m_blocks_sending /\ (Answered(p) => Answered(p)'))
    PROVE  SlotsComeBack'
BY DEF SlotsComeBack, Answered, OnTheWay

LEMMA SendingBlocks ==
    ASSUME TypeOK
    PROVE  client.m_blocks_sending \subseteq Block /\ owed \in [Block -> Nat]
BY DEF TypeOK, ClientState

LEMMA SendBlocksSlots ==
    ASSUME TypeOK, SlotsComeBack, NEW building, SendBlocks(building)
    PROVE  SlotsComeBack'
<1>1. PICK sent \in Seq(Block) :
        LET out == [i \in DOMAIN sent |-> BlockData(sent[i])]
        IN  /\ client'.m_blocks_sending = client.m_blocks_sending \cup ToSet(sent)
            /\ out \in Seq(BlockMessage)
            /\ to_client' = [to_client EXCEPT ![2] = to_client[2] \o out]
  BY SendBlocksIs
<1> DEFINE out == [i \in DOMAIN sent |-> BlockData(sent[i])]
<1>2. WireTypes /\ UNCHANGED <<to_server, owed>>
  BY TypeParts DEF SendBlocks, clientVars
<1>3. \A i \in DOMAIN sent : out[i].p = sent[i]
  BY DEF BlockData
<1>4. ToSet(to_client'[2]) = ToSet(to_client[2]) \cup ToSet(out)
  <2>1. out \in Seq(BlockMessage) /\ to_client' = [to_client EXCEPT ![2] = to_client[2] \o out]
    BY <1>1
  <2>2. to_client[2] \in Seq(BlockMessage) /\ 2 \in DOMAIN to_client
    BY <1>2 DEF WireTypes, Channel
  <2> HIDE DEF out
  <2>3. to_client'[2] = to_client[2] \o out
    BY <2>1, <2>2
  <2> QED
    BY <2>1, <2>2, <2>3, ToSetConcat
<1>5. \A p \in Block : Answered(p) => Answered(p)'
  BY <1>2, <1>4 DEF Answered, OnTheWay
<1>6. \A p \in ToSet(sent) : Answered(p)'
  <2> TAKE p \in ToSet(sent)
  <2>1. PICK i \in DOMAIN sent : p = sent[i]
    BY DEF ToSet
  <2>2. out[i] \in ToSet(out) /\ out[i].p = p
    BY <1>3, <2>1 DEF ToSet
  <2>3. out[i] \in ToSet(to_client'[2])
    BY <1>4, <2>2
  <2> QED
    BY <2>2, <2>3 DEF Answered, OnTheWay
<1> QED
  BY <1>1, <1>5, <1>6, SendingBlocks, SlotsKept

LEMMA ForceSendSlots ==
    ASSUME TypeOK, SlotsComeBack, NEW p \in Block, ForceSend(p)
    PROVE  SlotsComeBack'
<1>1. ServerTypes /\ WireTypes
  BY TypeParts
<1>2. BlockData(p) \in BlockMessage
  BY <1>1, DataOf
<1>3. ToSet(to_client'[2]) = ToSet(to_client[2]) \cup {BlockData(p)}
  BY <1>1, <1>2, ToSetAppend DEF ForceSend, WireTypes, Channel
<1>4. UNCHANGED <<client, to_server, owed>>
  BY DEF ForceSend, serverVars, clientVars
<1>5. \A b \in Block : Answered(b) => Answered(b)'
  BY <1>3, <1>4 DEF Answered, OnTheWay
<1> QED
  BY <1>4, <1>5, SendingBlocks, SlotsKept

(* Steps that only take blocks out of m_blocks_sending, or leave it. *)
LEMMA TakenOutSlots ==
    ASSUME SlotsComeBack, client'.m_blocks_sending \subseteq client.m_blocks_sending,
           UNCHANGED <<to_client[2], to_server[2], owed>>
    PROVE  SlotsComeBack'
<1>1. \A p : Answered(p)' <=> Answered(p)
  BY DEF Answered, OnTheWay
<1> QED
  BY <1>1, SlotsKept

LEMMA ProcessEditsSlots ==
    ASSUME TypeOK, SlotsComeBack, NEW far, ProcessEdits(far)
    PROVE  SlotsComeBack'
<1>1. client'.m_blocks_sending \subseteq client.m_blocks_sending
  BY ProcessEditsIs
<1>2. UNCHANGED <<to_server, owed>>
  BY DEF ProcessEdits, clientVars
<1>3. to_client'[2] = to_client[2]
  <2>1. PICK out : to_client' = [to_client EXCEPT ![0] = out]
    BY DEF ProcessEdits
  <2> QED
    BY <2>1, TypeParts DEF WireTypes, Channel
<1> QED
  BY <1>1, <1>2, <1>3, TakenOutSlots

LEMMA HandleInteractSlots ==
    ASSUME TypeOK, SlotsComeBack, HandleInteract
    PROVE  SlotsComeBack'
<1>1. client'.m_blocks_sending \subseteq client.m_blocks_sending
  BY TypeParts, InteractResends
<1>2. UNCHANGED <<to_client, owed>> /\ to_server'[2] = to_server[2]
  BY TypeParts DEF HandleInteract, WireTypes, Channel
<1> QED
  BY <1>1, <1>2, TakenOutSlots

(* GOTBLOCKS and DELETEDBLOCKS: the answer goes, and the slot with it. *)
LEMMA HandleBlocksSlots ==
    ASSUME TypeOK, SlotsComeBack, HandleBlocks
    PROVE  SlotsComeBack'
<1> DEFINE m == Head(to_server[2])
<1>1. WireTypes /\ ClientOK(client)
  BY TypeParts
<1>2. ToSet(to_server[2]) = {m} \cup ToSet(Tail(to_server[2]))
  BY <1>1, ToSetTail DEF HandleBlocks, WireTypes
<1>3. client'.m_blocks_sending = client.m_blocks_sending \ {m.p}
  BY <1>1, GotOne, ResendOnWire DEF HandleBlocks
<1>4. UNCHANGED <<to_client, owed>> /\ to_server'[2] = Tail(to_server[2])
  BY <1>1 DEF HandleBlocks, clientVars, WireTypes, Channel
<1>5. \A p : p # m.p /\ Answered(p) => Answered(p)'
  BY <1>2, <1>4 DEF Answered, OnTheWay
<1> QED
  BY <1>3, <1>5, SlotsKept

LEMMA ReceiveBlockSlots ==
    ASSUME TypeOK, SlotsComeBack, ReceiveBlock
    PROVE  SlotsComeBack'
<1> DEFINE m == Head(to_client[2])
<1>1. WireTypes /\ owed \in [Block -> Nat]
  BY TypeParts, SendingBlocks
<1>2. ToSet(to_client[2]) = {m} \cup ToSet(Tail(to_client[2])) /\ m \in BlockMessage
  BY <1>1, ToSetTail DEF ReceiveBlock, WireTypes
<1>3. m.p \in Block /\ owed' = [owed EXCEPT ![m.p] = owed[m.p] + 1]
  BY <1>2 DEF ReceiveBlock, Owe, BlockMessage
<1>4. UNCHANGED <<client, to_server>> /\ to_client'[2] = Tail(to_client[2])
  BY <1>1 DEF ReceiveBlock, serverVars, WireTypes, Channel
<1>5. \A p \in Block : Answered(p) => Answered(p)'
  BY <1>1, <1>2, <1>3, <1>4 DEF Answered, OnTheWay
<1> QED
  BY <1>4, <1>5, SendingBlocks, SlotsKept

LEMMA AnswerSlots ==
    ASSUME TypeOK, SlotsComeBack, NEW p \in Block,
           (\E k \in 1 .. MaxOwed : Acknowledge(p, k)) \/ Unload(p)
    PROVE  SlotsComeBack'
<1>1. PICK type \in {"got", "deleted"} :
        to_server' = [to_server EXCEPT ![2] = Append(to_server[2], [type |-> type, p |-> p])]
  BY DEF Acknowledge, Unload
<1> DEFINE a == [type |-> type, p |-> p]
<1>2. a \in Answer /\ a.p = p
  BY DEF Answer
<1>3. ToSet(to_server'[2]) = ToSet(to_server[2]) \cup {a}
  BY <1>1, <1>2, TypeParts, ToSetAppend DEF WireTypes, Channel
<1>4. UNCHANGED <<client, to_client>>
  BY DEF Acknowledge, Unload, serverVars
<1>5. \A b \in Block \ {p} : owed'[b] = owed[b]
  BY SendingBlocks DEF Acknowledge, Unload
<1>6. Answered(p)'
  <2>1. a \in ToSet(to_server'[2])
    BY <1>3
  <2> QED
    BY <1>2, <2>1 DEF Answered
<1>7. \A b \in Block \ {p} : Answered(b) => Answered(b)'
  BY <1>3, <1>4, <1>5 DEF Answered, OnTheWay
<1> QED
  BY <1>4, <1>6, <1>7, SendingBlocks, SlotsKept

(* Everything else *)
LEMMA OtherSlots ==
    ASSUME TypeOK, SlotsComeBack,
           \/ PauseOver \/ ReceiveNode \/ UNCHANGED vars
           \/ \E seen \in SUBSET Hideable : Move(seen)
           \/ \E p \in Block : Uncover(p) \/ BlockArrives(p) \/ DispatchArrival(p)
           \/ \E p \in Block, n \in Node : Interact(p, n)
           \/ \E p \in Block, n \in Node, type \in {"node", "other"}, low \in BOOLEAN :
                    Edit(p, n, type, low)
    PROVE  SlotsComeBack'
<1>1. \/ client' = client
      \/ client' = [client EXCEPT !.paused = FALSE]
      \/ client' = [client EXCEPT !.m_nearest_unsent_d = 0]
  BY DEF PauseOver, ReceiveNode, Move, Uncover, BlockArrives, DispatchArrival, Interact, Edit,
         vars, serverVars
<1>2. client'.m_blocks_sending = client.m_blocks_sending
  <2>1. client \in ClientState
    BY TypeParts DEF ClientOK
  <2> QED
    BY <1>1, <2>1 DEF ClientState
<1>3. /\ to_client' = to_client \/ \E out : to_client' = [to_client EXCEPT ![0] = out]
      /\ to_server' = to_server \/ \E out : to_server' = [to_server EXCEPT ![0] = out]
      /\ owed' = owed
  BY DEF PauseOver, ReceiveNode, Move, Uncover, BlockArrives, DispatchArrival, Interact, Edit,
         vars, serverVars, clientVars
<1>4. to_client'[2] = to_client[2] /\ to_server'[2] = to_server[2]
  BY <1>3, TypeParts DEF WireTypes, Channel
<1> QED
  BY <1>2, <1>3, <1>4, TakenOutSlots

LEMMA SlotsStay == TypeOK /\ SlotsComeBack /\ [Next]_vars => SlotsComeBack'
<1> SUFFICES ASSUME TypeOK, SlotsComeBack, [Next]_vars PROVE SlotsComeBack'
  OBVIOUS
<1>1. ASSUME NEW building \in BOOLEAN, SendBlocks(building) PROVE SlotsComeBack'
  BY <1>1, SendBlocksSlots
<1>2. ASSUME NEW p \in Block, ForceSend(p) PROVE SlotsComeBack'
  BY <1>2, ForceSendSlots
<1>3. ASSUME NEW far \in SUBSET DOMAIN m_unsent_map_edit_queue, ProcessEdits(far)
      PROVE  SlotsComeBack'
  BY <1>3, ProcessEditsSlots
<1>4. CASE HandleBlocks \/ ReceiveBlock
  BY <1>4, HandleBlocksSlots, ReceiveBlockSlots
<1>5. ASSUME HandleInteract PROVE SlotsComeBack'
  BY <1>5, HandleInteractSlots
<1>6. ASSUME NEW p \in Block, (\E k \in 1 .. MaxOwed : Acknowledge(p, k)) \/ Unload(p)
      PROVE  SlotsComeBack'
  BY <1>6, AnswerSlots
<1>7. CASE \/ PauseOver \/ ReceiveNode \/ UNCHANGED vars
           \/ \E seen \in SUBSET Hideable : Move(seen)
           \/ \E p \in Block : Uncover(p) \/ BlockArrives(p) \/ DispatchArrival(p)
           \/ \E p \in Block, n \in Node : Interact(p, n)
           \/ \E p \in Block, n \in Node, type \in {"node", "other"}, low \in BOOLEAN :
                    Edit(p, n, type, low)
  BY <1>7, OtherSlots
<1> QED
  BY <1>1, <1>2, <1>3, <1>4, <1>5, <1>6, <1>7 DEF Next

(* The server never waits for an acknowledgement that will not come: for   *)
(* every block in m_blocks_sending a copy is on its way to the client, or  *)
(* the client owes the acknowledgement, or an answer is on its way back.   *)
THEOREM SlotsComeBackHolds == Spec => []SlotsComeBack
<1>1. Init => SlotsComeBack
  BY DEF Init, SlotsComeBack
<1> QED
  BY TypeCorrect, SlotsStay, <1>1, PTL DEF Spec

-----------------------------------------------------------------------------
(* Freshness.  What is pending on a channel never gets older from front to *)
(* end: Ordered says so of a sequence, where R has the pairs of which the  *)
(* second may follow the first.                                            *)

Ordered(q, R) == \A i, j \in DOMAIN q : i < j => <<q[i], q[j]>> \in R

LEMMA OrderedTail ==
    ASSUME NEW S, NEW q \in Seq(S), q # <<>>, NEW R, Ordered(q, R)
    PROVE  Ordered(Tail(q), R) /\ \A e \in ToSet(Tail(q)) : <<Head(q), e>> \in R
<1>1. /\ \A i \in DOMAIN Tail(q) : i \in Nat /\ i > 0 /\ i + 1 \in DOMAIN q /\ Tail(q)[i] = q[i + 1]
      /\ 1 \in DOMAIN q /\ Head(q) = q[1]
  OBVIOUS
<1>2. Ordered(Tail(q), R)
  <2> SUFFICES ASSUME NEW i \in DOMAIN Tail(q), NEW j \in DOMAIN Tail(q), i < j
               PROVE  <<Tail(q)[i], Tail(q)[j]>> \in R
    BY DEF Ordered
  <2>1. i + 1 < j + 1
    BY <1>1
  <2> QED
    BY <1>1, <2>1 DEF Ordered
<1>3. ASSUME NEW i \in DOMAIN Tail(q) PROVE <<Head(q), Tail(q)[i]>> \in R
  <2>1. 1 < i + 1
    BY <1>1
  <2> QED
    BY <1>1, <2>1 DEF Ordered
<1> QED
  BY <1>2, <1>3 DEF ToSet

LEMMA OrderedConcat ==
    ASSUME NEW S, NEW s \in Seq(S), NEW t \in Seq(S), NEW R, Ordered(s, R), Ordered(t, R),
           \A a \in ToSet(s), b \in ToSet(t) : <<a, b>> \in R
    PROVE  Ordered(s \o t, R)
<1> SUFFICES ASSUME NEW i \in DOMAIN (s \o t), NEW j \in DOMAIN (s \o t), i < j
             PROVE  <<(s \o t)[i], (s \o t)[j]>> \in R
  BY DEF Ordered
<1>1. /\ DOMAIN (s \o t) = 1 .. Len(s) + Len(t)
      /\ DOMAIN s = 1 .. Len(s) /\ DOMAIN t = 1 .. Len(t) /\ Len(s) \in Nat /\ Len(t) \in Nat
  OBVIOUS
<1>2. \A k \in 1 .. Len(s) + Len(t) : (s \o t)[k] = IF k <= Len(s) THEN s[k] ELSE t[k - Len(s)]
  OBVIOUS
<1> DEFINE u == s \o t
           L == Len(s)
<1>3. i \in Nat /\ j \in Nat
  BY <1>1
<1>4. CASE j <= L
  <2>1. i \in DOMAIN s /\ j \in DOMAIN s /\ u[i] = s[i] /\ u[j] = s[j]
    BY <1>1, <1>2, <1>4
  <2> QED
    BY <2>1 DEF Ordered
<1>5. CASE i <= L /\ ~(j <= L)
  <2>1. i \in DOMAIN s /\ j - L \in DOMAIN t /\ u[i] = s[i] /\ u[j] = t[j - L]
    BY <1>1, <1>2, <1>5
  <2>2. s[i] \in ToSet(s) /\ t[j - L] \in ToSet(t)
    BY <2>1 DEF ToSet
  <2> QED
    BY <2>1, <2>2
<1>6. CASE ~(i <= L)
  <2>1. i - L \in DOMAIN t /\ j - L \in DOMAIN t /\ u[i] = t[i - L] /\ u[j] = t[j - L]
    BY <1>1, <1>2, <1>6
  <2>2. i - L < j - L
    BY <1>1, <1>3
  <2> QED
    BY <2>1, <2>2 DEF Ordered
<1> QED
  BY <1>1, <1>3, <1>4, <1>5, <1>6

LEMMA OrderedAppend ==
    ASSUME NEW S, NEW s \in Seq(S), NEW e \in S, NEW R, Ordered(s, R),
           \A a \in ToSet(s) : <<a, e>> \in R
    PROVE  Ordered(Append(s, e), R)
<1>1. /\ DOMAIN Append(s, e) = DOMAIN s \cup {Len(s) + 1} /\ DOMAIN s = 1 .. Len(s) /\ Len(s) \in Nat
      /\ Append(s, e)[Len(s) + 1] = e /\ \A i \in DOMAIN s : Append(s, e)[i] = s[i]
  OBVIOUS
<1> SUFFICES ASSUME NEW i \in DOMAIN Append(s, e), NEW j \in DOMAIN Append(s, e), i < j
             PROVE  <<Append(s, e)[i], Append(s, e)[j]>> \in R
  BY DEF Ordered
<1>2. i \in DOMAIN s
  BY <1>1
<1>3. CASE j \in DOMAIN s
  BY <1>1, <1>2, <1>3 DEF Ordered
<1>4. CASE j = Len(s) + 1
  BY <1>1, <1>2, <1>4 DEF ToSet
<1> QED
  BY <1>1, <1>3, <1>4

(* The pairs: a later copy of a block has no older node, a later change of *)
(* a node not an older value.                                              *)
NoOlderNode(a, b) == a.p = b.p => \A n \in Node : a.content[n] <= b.content[n]
NotBefore(c, d) == c.p = d.p /\ c.n = d.n => c.v <= d.v

BlockPairs == {r \in BlockMessage \X BlockMessage : NoOlderNode(r[1], r[2])}
ChangePairs == {r \in NodeChange \X NodeChange : NotBefore(r[1], r[2])}
EventPairs == {r \in Event \X Event : NotBefore(r[1].change, r[2].change)}

LEMMA Pairs ==
    /\ \A a, b : <<a, b>> \in BlockPairs <=>
            a \in BlockMessage /\ b \in BlockMessage /\ NoOlderNode(a, b)
    /\ \A a, b : <<a, b>> \in ChangePairs <=>
            a \in NodeChange /\ b \in NodeChange /\ NotBefore(a, b)
    /\ \A a, b : <<a, b>> \in EventPairs <=>
            a \in Event /\ b \in Event /\ NotBefore(a.change, b.change)
BY DEF BlockPairs, ChangePairs, EventPairs

(* Nothing that is pending is newer than the map ... *)
Past ==
    /\ \A p \in Block, n \in Node : map[p][n] <= troubles
    /\ \A m \in ToSet(to_client[2]), n \in Node : m.content[n] <= map[m.p][n]
    /\ \A c \in ToSet(to_client[0]) : c.v <= map[c.p][c.n]
    /\ \A e \in ToSet(m_unsent_map_edit_queue) : e.change.v <= map[e.change.p][e.change.n]

(* ... and it is in the order in which it has come to be. *)
InTurn ==
    /\ Ordered(to_client[2], BlockPairs)
    /\ Ordered(to_client[0], ChangePairs)
    /\ Ordered(m_unsent_map_edit_queue, EventPairs)
    /\ \A c \in ToSet(to_client[0]), e \in ToSet(m_unsent_map_edit_queue) : NotBefore(c, e.change)

(* Where the present state of node n of block p may be.  Noticed: in the   *)
(* queue of events; Told, Sent: on one of the channels; Shown: at the      *)
(* client, and nothing else is coming.  Or the client is to be shown it    *)
(* but has put its own guess there, of which the server has yet to hear or *)
(* which it lets stand.                                                    *)
Now(p, n) == [p |-> p, n |-> n, v |-> map[p][n]]

Guessed(p, n) ==
    \/ <<p, n>> \in unreverted
    \/ world[p][n] = Guess /\ \E m \in ToSet(to_server[0]) : m.p = p /\ m.n = n
Noticed(p, n) == \E e \in ToSet(m_unsent_map_edit_queue) : e.change = Now(p, n)
Told(p, n) == Now(p, n) \in ToSet(to_client[0])
Sent(p, n) == \E m \in ToSet(to_client[2]) : m.p = p /\ m.content[n] = map[p][n]
Shown(p, n) ==
    /\ world[p] # None
    /\ world[p][n] = map[p][n] \/ Guessed(p, n)
    /\ \A m \in ToSet(to_client[2]) : m.p = p => m.content[n] = map[p][n]
    /\ \A c \in ToSet(to_client[0]) : c.p = p /\ c.n = n => c.v = map[p][n]

Deleted(p) == \E m \in ToSet(to_server[2]) : m.type = "deleted" /\ m.p = p

(* The last event of a node tells its present state. *)
Current ==
    \A e \in ToSet(m_unsent_map_edit_queue) : Noticed(e.change.p, e.change.n)

HasIt == \A p \in Known(client) : world[p] # None \/ OnTheWay(p) \/ Deleted(p)

Located(p, n) == Deleted(p) \/ Noticed(p, n) \/ Told(p, n) \/ Sent(p, n) \/ Shown(p, n)
Fresh == \A p \in Known(client) \ crossed, n \in Node : Located(p, n)

FreshInv == Past /\ InTurn /\ Current /\ HasIt /\ Fresh

(* The elements of the sequences, and of what they are made *)
LEMMA Elements ==
    ASSUME WireTypes, ServerTypes
    PROVE  /\ \A m \in ToSet(to_client[2]) :
                m \in BlockMessage /\ m.p \in Block /\ \A n \in Node : m.content[n] \in Nat
           /\ \A c \in ToSet(to_client[0]) :
                c \in NodeChange /\ c.p \in Block /\ c.n \in Node /\ c.v \in Nat
           /\ \A e \in ToSet(m_unsent_map_edit_queue) :
                /\ e \in Event /\ e.change \in NodeChange
                /\ e.change.p \in Block /\ e.change.n \in Node /\ e.change.v \in Nat
           /\ \A p \in Block, n \in Node : map[p][n] \in Nat /\ Now(p, n) \in NodeChange
           /\ troubles \in Nat
<1>1. /\ \A m \in BlockMessage : m.p \in Block /\ \A n \in Node : m.content[n] \in Nat
      /\ \A c \in NodeChange : c.p \in Block /\ c.n \in Node /\ c.v \in Nat
      /\ \A e \in Event : e.change \in NodeChange
  BY BoundsAssumption DEF BlockMessage, Content, NodeChange, Event
<1>2. ToSet(to_client[2]) \subseteq BlockMessage
  BY DEF WireTypes, ToSet
<1>3. ToSet(to_client[0]) \subseteq NodeChange
  BY DEF WireTypes, ToSet
<1>4. ToSet(m_unsent_map_edit_queue) \subseteq Event
  BY DEF ServerTypes, ToSet
<1>5. \A p \in Block, n \in Node : map[p][n] \in 0 .. MaxTroubles
  BY DEF ServerTypes, Content
<1>6. troubles \in Nat
  BY BoundsAssumption DEF ServerTypes
<1>7. \A p \in Block, n \in Node : map[p][n] \in Nat /\ Now(p, n) \in NodeChange
  BY <1>5, BoundsAssumption DEF Now, NodeChange
<1> QED
  BY <1>1, <1>2, <1>3, <1>4, <1>6, <1>7

(* Copies of blocks are sent, as they are at present. *)
LEMMA BlocksGoOut ==
    ASSUME TypeOK, FreshInv, NEW Out, \A m \in Out : m.p \in Block /\ m = BlockData(m.p),
           ToSet(to_client'[2]) = ToSet(to_client[2]) \cup Out,
           Ordered(to_client'[2], BlockPairs),
           UNCHANGED <<map, m_unsent_map_edit_queue, to_client[0], to_server, world, crossed, unreverted>>,
           troubles' \in Nat, troubles <= troubles',
           \A p \in Known(client') : p \in Known(client) \/ BlockData(p) \in Out
    PROVE  FreshInv'
<1>1. WireTypes /\ ServerTypes
  BY TypeParts
<1>2. \A m \in Out : \A n \in Node : m.content[n] = map[m.p][n]
  BY <1>1, DataOf
<1>3. Past'
  BY <1>1, <1>2, Elements DEF FreshInv, Past
<1>4. InTurn'
  BY DEF FreshInv, InTurn
<1>5. \A p, n : /\ Noticed(p, n)' <=> Noticed(p, n)
                /\ Told(p, n)' <=> Told(p, n)
                /\ Guessed(p, n)' <=> Guessed(p, n)
                /\ Deleted(p)' <=> Deleted(p)
  BY DEF Noticed, Told, Guessed, Deleted, Now
<1>6. \A p \in Block, n \in Node : /\ Sent(p, n) => Sent(p, n)'
                                   /\ Shown(p, n) => Shown(p, n)'
  BY <1>2, <1>5 DEF Sent, Shown
<1>7. \A p \in Block : OnTheWay(p) => OnTheWay(p)'
  BY DEF OnTheWay
<1>8. \A p \in Block : BlockData(p) \in Out => OnTheWay(p)' /\ \A n \in Node : Sent(p, n)'
  BY <1>1, DataOf DEF OnTheWay, Sent
<1>9. Known(client) \subseteq Block
  BY TypeParts DEF ClientOK, ClientState, Known
<1>10. Current'
  BY <1>5 DEF FreshInv, Current
<1>11. \A p \in Known(client)' : p \in Block /\ (p \in Known(client) \/ BlockData(p) \in Out)
  <2>1. \A p \in Known(client)' : p \in Known(client) \/ BlockData(p) \in Out
    BY DEF Known
  <2>2. \A p : BlockData(p).p = p
    BY DEF BlockData
  <2> QED
    BY <1>9, <2>1, <2>2
<1>12. HasIt'
  <2> SUFFICES ASSUME NEW p \in Known(client)'
               PROVE  world'[p] # None \/ OnTheWay(p)' \/ Deleted(p)'
    BY DEF HasIt
  <2> QED
    BY <1>5, <1>7, <1>8, <1>11 DEF FreshInv, HasIt
<1>13. Fresh'
  <2> SUFFICES ASSUME NEW p \in Known(client)', p \notin crossed, NEW n \in Node
               PROVE  Located(p, n)'
    BY DEF Fresh
  <2>1. CASE BlockData(p) \in Out
    BY <1>8, <1>11, <2>1 DEF Located
  <2>2. CASE p \in Known(client)
    <3>1. Located(p, n)
      BY <2>2 DEF FreshInv, Fresh
    <3> QED
      BY <1>5, <1>6, <1>11, <3>1 DEF Located
  <2> QED
    BY <1>11, <2>1, <2>2
<1> QED
  BY <1>3, <1>4, <1>10, <1>12, <1>13 DEF FreshInv

LEMMA SendBlocksFresh ==
    ASSUME TypeOK, FreshInv, NEW building, SendBlocks(building)
    PROVE  FreshInv'
<1>1. PICK sent \in Seq(Block) :
        LET out == [i \in DOMAIN sent |-> BlockData(sent[i])]
        IN  /\ client'.m_blocks_sending = client.m_blocks_sending \cup ToSet(sent)
            /\ client'.m_blocks_sent = client.m_blocks_sent
            /\ out \in Seq(BlockMessage)
            /\ to_client' = [to_client EXCEPT ![2] = to_client[2] \o out]
  BY SendBlocksIs
<1> DEFINE out == [i \in DOMAIN sent |-> BlockData(sent[i])]
           q == to_client[2]
<1>2. WireTypes /\ ServerTypes
  BY TypeParts
<1>3. out \in Seq(BlockMessage) /\ to_client' = [to_client EXCEPT ![2] = q \o out]
  BY <1>1
<1>4. \A i \in DOMAIN sent : sent[i] \in Block /\ out[i] = BlockData(sent[i]) /\ out[i].p = sent[i]
  BY <1>1 DEF BlockData
<1>5. \A m \in ToSet(out) : m.p \in Block /\ m = BlockData(m.p)
  BY <1>4 DEF ToSet
<1>6. \A p \in ToSet(sent) : BlockData(p) \in ToSet(out)
  BY <1>4 DEF ToSet
<1>7. q \in Seq(BlockMessage) /\ {0, 2} = DOMAIN to_client
  BY <1>2 DEF WireTypes, Channel
<1>8. \A i \in DOMAIN out : out[i] \in BlockMessage /\ \A n \in Node : out[i].content[n] = map[out[i].p][n]
  BY <1>2, <1>4, DataOf
<1>9. \A p \in Block, n \in Node : map[p][n] \in Nat
  BY <1>2, Elements
<1>10. DOMAIN out = DOMAIN sent
  OBVIOUS
<1>11. Ordered(out, BlockPairs)
  <2> SUFFICES ASSUME NEW i \in DOMAIN out, NEW j \in DOMAIN out
               PROVE  <<out[i], out[j]>> \in BlockPairs
    BY DEF Ordered
  <2>1. out[i].p \in Block
    BY <1>4, <1>10
  <2>2. NoOlderNode(out[i], out[j])
    BY <1>8, <1>9, <2>1 DEF NoOlderNode
  <2> QED
    BY <1>8, <2>2, Pairs
<1>12. \A m \in ToSet(q), b \in ToSet(out) : <<m, b>> \in BlockPairs
  <2> TAKE m \in ToSet(q), b \in ToSet(out)
  <2>1. PICK i \in DOMAIN out : b = out[i]
    BY DEF ToSet
  <2>2. m \in BlockMessage /\ \A n \in Node : m.content[n] <= map[m.p][n]
    BY <1>2, Elements DEF FreshInv, Past
  <2>3. NoOlderNode(m, b)
    BY <1>8, <2>1, <2>2 DEF NoOlderNode
  <2> QED
    BY <1>8, <2>1, <2>2, <2>3, Pairs
<1> HIDE DEF out, q
<1>13. to_client'[2] = q \o out /\ to_client'[0] = to_client[0]
  BY <1>3, <1>7
<1>14. ToSet(to_client'[2]) = ToSet(to_client[2]) \cup ToSet(out)
  BY <1>3, <1>7, <1>13, ToSetConcat DEF q
<1>15. Ordered(to_client'[2], BlockPairs)
  <2>1. Ordered(q, BlockPairs)
    BY DEF FreshInv, InTurn, q
  <2> QED
    BY <1>3, <1>7, <1>11, <1>12, <1>13, <2>1, OrderedConcat
<1>16. UNCHANGED <<map, m_unsent_map_edit_queue, to_server, world, crossed, unreverted, troubles>>
  BY DEF SendBlocks, clientVars
<1>17. \A p \in Known(client') : p \in Known(client) \/ BlockData(p) \in ToSet(out)
  BY <1>1, <1>6 DEF Known
<1>18. troubles \in Nat
  BY <1>2, Elements
<1>19. UNCHANGED <<map, m_unsent_map_edit_queue, to_client[0], to_server, world, crossed, unreverted>>
  BY <1>13, <1>16
<1>20. troubles' \in Nat /\ troubles <= troubles'
  BY <1>16, <1>18
<1> QED
  BY <1>5, <1>14, <1>15, <1>17, <1>19, <1>20, BlocksGoOut

LEMMA ForceSendFresh ==
    ASSUME TypeOK, FreshInv, NEW p \in Block, ForceSend(p)
    PROVE  FreshInv'
<1>1. WireTypes /\ ServerTypes
  BY TypeParts
<1>2. BlockData(p) \in BlockMessage /\ BlockData(p).p = p /\ BlockData(p).content = map[p]
  BY <1>1, DataOf
<1>3. to_client[2] \in Seq(BlockMessage) /\ {0, 2} = DOMAIN to_client
  BY <1>1 DEF WireTypes, Channel
<1>4. to_client'[2] = Append(to_client[2], BlockData(p)) /\ to_client'[0] = to_client[0]
  BY <1>3 DEF ForceSend
<1>5. ToSet(to_client'[2]) = ToSet(to_client[2]) \cup {BlockData(p)}
  BY <1>2, <1>3, <1>4, ToSetAppend
<1>6. \A m \in ToSet(to_client[2]) : <<m, BlockData(p)>> \in BlockPairs
  <2> TAKE m \in ToSet(to_client[2])
  <2>1. m \in BlockMessage /\ \A n \in Node : m.content[n] <= map[m.p][n]
    BY <1>1, Elements DEF FreshInv, Past
  <2>2. NoOlderNode(m, BlockData(p))
    BY <1>2, <2>1 DEF NoOlderNode
  <2> QED
    BY <1>2, <2>1, <2>2, Pairs
<1>7. Ordered(to_client'[2], BlockPairs)
  <2>1. Ordered(to_client[2], BlockPairs)
    BY DEF FreshInv, InTurn
  <2> QED
    BY <1>2, <1>3, <1>4, <1>6, <2>1, OrderedAppend
<1>8. /\ UNCHANGED <<map, m_unsent_map_edit_queue, client, to_server, world, crossed, unreverted>>
      /\ troubles' = troubles + 1
  BY DEF ForceSend, Trouble, serverVars, clientVars
<1>9. troubles' \in Nat /\ troubles <= troubles'
  BY <1>1, <1>8, Elements
<1>10. UNCHANGED <<map, m_unsent_map_edit_queue, to_client[0], to_server, world, crossed, unreverted>>
  BY <1>4, <1>8
<1> DEFINE Out == {BlockData(p)}
<1>11. \A m \in Out : m.p \in Block /\ m = BlockData(m.p)
  BY <1>2
<1>12. \A b \in Known(client') : b \in Known(client) \/ BlockData(b) \in Out
  BY <1>8
<1>13. ToSet(to_client'[2]) = ToSet(to_client[2]) \cup Out
  BY <1>5
<1> HIDE DEF Out
<1> QED
  BY <1>7, <1>9, <1>10, <1>11, <1>12, <1>13, BlocksGoOut

(* The state of a node is announced to the server's own queue: it has      *)
(* changed, or its block has come.                                         *)
LEMMA EventComes ==
    ASSUME TypeOK, FreshInv, NEW p \in Block, NEW n \in Node, NEW e \in Event,
           e.change.p = p, e.change.n = n, e.change.v = map'[p][n],
           m_unsent_map_edit_queue' = Append(m_unsent_map_edit_queue, e),
           \A b \in Block, k \in Node :
                /\ map'[b][k] \in Nat /\ map[b][k] <= map'[b][k] /\ map'[b][k] <= troubles'
                /\ map'[b][k] = map[b][k] \/ (b = p /\ k = n),
           UNCHANGED <<to_client, to_server[2], world, crossed, unreverted>>,
           Known(client') \subseteq Known(client),
           \A b \in Block, k \in Node : Guessed(b, k) => Guessed(b, k)' \/ (b = p /\ k = n)
    PROVE  FreshInv'
<1> DEFINE queue == m_unsent_map_edit_queue
<1>1. WireTypes /\ ServerTypes
  BY TypeParts
<1>2. ToSet(queue') = ToSet(queue) \cup {e}
  BY <1>1, ToSetAppend DEF ServerTypes
<1>3. e.change \in NodeChange /\ e.change = [p |-> p, n |-> n, v |-> map'[p][n]]
  BY DEF Event, NodeChange
<1>4. Noticed(p, n)'
  BY <1>2, <1>3 DEF Noticed, Now
<1>5. \A b \in Block, k \in Node : (b = p /\ k = n) \/ Now(b, k)' = Now(b, k)
  BY DEF Now
<1>6. \A b \in Block, k \in Node : Noticed(b, k) => Noticed(b, k)'
  BY <1>2, <1>4, <1>5 DEF Noticed
<1>7. \A b \in Block, k \in Node : (b = p /\ k = n) \/
            /\ Told(b, k)' <=> Told(b, k)
            /\ Sent(b, k)' <=> Sent(b, k)
            /\ Shown(b, k) => Shown(b, k)'
  BY <1>5 DEF Told, Sent, Shown
<1>8. \A b : (Deleted(b)' <=> Deleted(b)) /\ (OnTheWay(b)' <=> OnTheWay(b))
  BY DEF Deleted, OnTheWay
<1>9. Past'
  <2>1. \A b \in Block, k \in Node : map'[b][k] <= troubles'
    OBVIOUS
  <2>2. ASSUME NEW m \in ToSet(to_client[2]), NEW k \in Node
        PROVE  m.content[k] <= map'[m.p][k]
    <3>1. m.p \in Block /\ m.content[k] \in Nat /\ map[m.p][k] \in Nat /\ m.content[k] <= map[m.p][k]
      BY <1>1, Elements DEF FreshInv, Past
    <3>2. map'[m.p][k] \in Nat /\ map[m.p][k] <= map'[m.p][k]
      BY <3>1
    <3> QED
      BY <3>1, <3>2
  <2>3. ASSUME NEW c \in NodeChange, c.v <= map[c.p][c.n]
        PROVE  c.v <= map'[c.p][c.n]
    <3>1. c.p \in Block /\ c.n \in Node /\ c.v \in Nat
      BY BoundsAssumption DEF NodeChange
    <3>2. map[c.p][c.n] \in Nat /\ map'[c.p][c.n] \in Nat /\ map[c.p][c.n] <= map'[c.p][c.n]
      BY <1>1, <3>1, Elements
    <3> QED
      BY <2>3, <3>1, <3>2
  <2>4. \A c \in ToSet(to_client[0]) : c.v <= map'[c.p][c.n]
    BY <1>1, <2>3, Elements DEF FreshInv, Past
  <2>5. \A d \in ToSet(queue) : d.change.v <= map'[d.change.p][d.change.n]
    BY <1>1, <2>3, Elements DEF FreshInv, Past
  <2>6. e.change.v <= map'[e.change.p][e.change.n]
    OBVIOUS
  <2> HIDE DEF queue
  <2>7. to_client' = to_client /\ queue' = m_unsent_map_edit_queue'
    BY DEF queue
  <2>8. \A d \in ToSet(queue') : d.change.v <= map'[d.change.p][d.change.n]
    BY <1>2, <2>5, <2>6
  <2> QED
    BY <2>1, <2>2, <2>4, <2>7, <2>8 DEF Past
<1>10. \A c \in NodeChange : c.v <= map[c.p][c.n] => NotBefore(c, e.change)
  <2> SUFFICES ASSUME NEW c \in NodeChange, c.v <= map[c.p][c.n], c.p = p, c.n = n
               PROVE  c.v <= map'[p][n]
    BY DEF NotBefore
  <2>1. c.v \in Nat /\ map[p][n] \in Nat /\ map'[p][n] \in Nat /\ map[p][n] <= map'[p][n]
    BY <1>1, Elements, BoundsAssumption DEF NodeChange
  <2> QED
    BY <2>1
<1>11. InTurn'
  <2>1. Ordered(queue, EventPairs)
    BY DEF FreshInv, InTurn
  <2>2. \A d \in ToSet(queue) : <<d, e>> \in EventPairs
    BY <1>1, <1>10, Elements, Pairs DEF FreshInv, Past
  <2>3. Ordered(queue', EventPairs)
    BY <1>1, <2>1, <2>2, OrderedAppend DEF ServerTypes
  <2>4. \A c \in ToSet(to_client[0]) : NotBefore(c, e.change)
    BY <1>1, <1>10, Elements DEF FreshInv, Past
  <2>5. \A c \in ToSet(to_client'[0]), d \in ToSet(queue') : NotBefore(c, d.change)
    BY <1>2, <2>4 DEF FreshInv, InTurn
  <2> QED
    BY <2>3, <2>5 DEF FreshInv, InTurn
<1>12. Current'
  <2>1. \A d \in ToSet(queue) : d.change.p \in Block /\ d.change.n \in Node
    BY <1>1, Elements
  <2> SUFFICES ASSUME NEW d \in ToSet(queue') PROVE Noticed(d.change.p, d.change.n)'
    BY DEF Current
  <2>2. CASE d = e
    BY <1>4, <2>2
  <2>3. CASE d \in ToSet(queue)
    BY <1>6, <2>1, <2>3 DEF FreshInv, Current
  <2> QED
    BY <1>2, <2>2, <2>3
<1>13. \A b \in Known(client)' : b \in Known(client) /\ b \in Block
  BY TypeParts DEF ClientOK, ClientState, Known
<1>14. HasIt'
  BY <1>8, <1>13 DEF FreshInv, HasIt
<1>15. Fresh'
  <2> SUFFICES ASSUME NEW b \in Known(client)', b \notin crossed, NEW k \in Node
               PROVE  Located(b, k)'
    BY DEF Fresh
  <2>1. CASE b = p /\ k = n
    BY <1>4, <2>1 DEF Located
  <2>2. CASE ~(b = p /\ k = n)
    <3>1. Located(b, k)
      BY <1>13 DEF FreshInv, Fresh
    <3> QED
      BY <1>6, <1>7, <1>8, <1>13, <2>2, <3>1 DEF Located
  <2> QED
    BY <2>1, <2>2
<1> QED
  BY <1>9, <1>11, <1>12, <1>14, <1>15 DEF FreshInv

LEMMA ChangeNodeFresh ==
    ASSUME TypeOK, FreshInv, NEW p \in Block, NEW n \in Node, NEW type \in {"node", "other"},
           NEW low \in BOOLEAN, ChangeNode(type, p, n, low),
           UNCHANGED <<to_client, to_server[2], world, crossed, unreverted>>,
           Known(client') \subseteq Known(client),
           \A b \in Block, k \in Node : Guessed(b, k) => Guessed(b, k)' \/ (b = p /\ k = n)
    PROVE  FreshInv'
<1> DEFINE e == EditEvent(type, p, n, troubles', low)
<1>1. WireTypes /\ ServerTypes
  BY TypeParts
<1>2. troubles \in Nat /\ troubles' = troubles + 1 /\ troubles' \in 0 .. MaxTroubles
  BY <1>1, Elements, BoundsAssumption DEF ChangeNode, Trouble
<1>3. map' = [map EXCEPT ![p] = [map[p] EXCEPT ![n] = troubles']]
  BY DEF ChangeNode
<1>4. map \in [Block -> [Node -> 0 .. MaxTroubles]]
  BY <1>1 DEF ServerTypes, Content
<1>5. map'[p][n] = troubles'
  BY <1>3, <1>4
<1>6. ASSUME NEW b \in Block, NEW k \in Node
      PROVE  /\ map'[b][k] \in Nat /\ map[b][k] <= map'[b][k] /\ map'[b][k] <= troubles'
             /\ map'[b][k] = map[b][k] \/ (b = p /\ k = n)
  <2>1. map[b][k] \in Nat /\ map[b][k] <= troubles
    BY <1>1, Elements DEF FreshInv, Past
  <2>2. map'[b][k] = IF b = p /\ k = n THEN troubles' ELSE map[b][k]
    BY <1>3, <1>4
  <2> QED
    BY <1>2, <2>1, <2>2
<1>7. e \in Event /\ e.change.p = p /\ e.change.n = n /\ e.change.v = map'[p][n]
  BY <1>2, <1>5 DEF EditEvent, Event, NodeChange
<1>8. m_unsent_map_edit_queue' = Append(m_unsent_map_edit_queue, e)
  BY DEF ChangeNode
<1> HIDE DEF e
<1> QED
  BY <1>6, <1>7, <1>8, EventComes

LEMMA EditFresh ==
    ASSUME TypeOK, FreshInv, NEW p \in Block, NEW n \in Node, NEW type \in {"node", "other"},
           NEW low \in BOOLEAN, Edit(p, n, type, low)
    PROVE  FreshInv'
<1>1. UNCHANGED <<to_client, to_server, client, world, crossed, unreverted>> /\ ChangeNode(type, p, n, low)
  BY DEF Edit, clientVars
<1>2. \A b, k : Guessed(b, k)' <=> Guessed(b, k)
  BY <1>1 DEF Guessed
<1>3. UNCHANGED <<to_client, to_server[2], world, crossed, unreverted>>
  BY <1>1
<1> QED
  BY <1>1, <1>2, <1>3, ChangeNodeFresh

LEMMA DispatchArrivalFresh ==
    ASSUME TypeOK, FreshInv, NEW p \in Block, DispatchArrival(p)
    PROVE  FreshInv'
<1>1. WireTypes /\ ServerTypes
  BY TypeParts
<1>2. PICK n \in Node : m_unsent_map_edit_queue' =
        Append(m_unsent_map_edit_queue, EditEvent("other", p, n, map[p][n], FALSE))
  BY DEF DispatchArrival
<1> DEFINE e == EditEvent("other", p, n, map[p][n], FALSE)
<1>3. UNCHANGED <<map, to_client, to_server, client, world, crossed, unreverted, troubles>>
  BY DEF DispatchArrival, clientVars
<1>4. \A b, k : Guessed(b, k)' <=> Guessed(b, k)
  BY <1>3 DEF Guessed
<1>5. UNCHANGED <<to_client, to_server[2], world, crossed, unreverted>>
  BY <1>3
<1>6. e \in Event /\ e.change.p = p /\ e.change.n = n /\ e.change.v = map'[p][n]
  <2>1. map[p][n] \in 0 .. MaxTroubles
    BY <1>1 DEF ServerTypes, Content
  <2> QED
    BY <1>3, <2>1 DEF EditEvent, Event, NodeChange
<1>7. \A b \in Block, k \in Node :
        /\ map'[b][k] \in Nat /\ map[b][k] <= map'[b][k] /\ map'[b][k] <= troubles'
        /\ map'[b][k] = map[b][k] \/ (b = p /\ k = n)
  BY <1>1, <1>3, Elements DEF FreshInv, Past
<1>8. m_unsent_map_edit_queue' = Append(m_unsent_map_edit_queue, e)
  BY <1>2
<1> HIDE DEF e
<1> QED
  BY <1>3, <1>4, <1>5, <1>6, <1>7, <1>8, EventComes

LEMMA InOrderIsOnto ==
    ASSUME NEW A, A \subseteq Nat, IsFiniteSet(A), NEW order \in InOrder(A)
    PROVE  /\ DOMAIN order = 1 .. Cardinality(A) /\ Cardinality(A) \in Nat
           /\ \A k \in DOMAIN order : order[k] \in A
           /\ \A i \in A : \E k \in DOMAIN order : order[k] = i
<1> DEFINE D == 1 .. Cardinality(A)
<1>1. Cardinality(A) \in Nat
  BY FS_CardinalityType
<1>2. order \in [D -> A] /\ \A j, k \in D : j < k => order[j] < order[k]
  BY DEF InOrder
<1>3. ASSUME NEW j \in D, NEW k \in D, order[j] = order[k] PROVE j = k
  <2>1. order[j] \in A /\ order[k] \in A
    BY <1>2
  <2>2. order[j] \in Nat /\ order[k] \in Nat
    BY <2>1
  <2>3. j \in Nat /\ k \in Nat
    BY <1>1
  <2>4. ~(j < k) /\ ~(k < j)
    BY <1>2, <1>3, <2>2
  <2> QED
    BY <2>3, <2>4
<1>4. order \in Injection(D, A)
  BY <1>2, <1>3 DEF Injection, IsInjective
<1>5. IsFiniteSet(D) /\ Cardinality(D) = Cardinality(A)
  BY <1>1, FS_Interval
<1>6. order \in Surjection(D, A)
  BY <1>4, <1>5, FS_Injection
<1> QED
  BY <1>1, <1>2, <1>6 DEF Surjection

(* What ProcessEdits puts on channel 0 *)
LEMMA ProcessEditsSends ==
    ASSUME TypeOK, FreshInv, NEW far, ProcessEdits(far)
    PROVE  /\ ToSet(to_client'[0]) = ToSet(to_client[0]) \cup
                {m_unsent_map_edit_queue[i].change : i \in SentAlone(far)}
           /\ Ordered(to_client'[0], ChangePairs)
           /\ to_client'[2] = to_client[2]
<1> DEFINE queue == m_unsent_map_edit_queue
           alone == SentAlone(far)
<1>1. WireTypes /\ ServerTypes
  BY TypeParts
<1>2. PICK order \in InOrder(alone) :
        LET out == [k \in DOMAIN order |-> queue[order[k]].change]
        IN  /\ out \in Seq(NodeChange)
            /\ to_client' = [to_client EXCEPT ![0] = to_client[0] \o out]
  BY ProcessEditsIs
<1> DEFINE out == [k \in DOMAIN order |-> queue[order[k]].change]
<1>3. queue \in Seq(Event) /\ DOMAIN queue = 1 .. Len(queue) /\ Len(queue) \in Nat
  BY <1>1 DEF ServerTypes
<1>4. alone \subseteq DOMAIN queue
  BY DEF SentAlone
<1>5. alone \subseteq Nat /\ IsFiniteSet(alone)
  <2>1. IsFiniteSet(DOMAIN queue) /\ DOMAIN queue \subseteq Nat
    BY <1>3, FS_Interval
  <2> HIDE DEF alone, queue
  <2> QED
    BY <1>4, <2>1, FS_Subset
<1>6. /\ DOMAIN order = 1 .. Cardinality(alone) /\ Cardinality(alone) \in Nat
      /\ \A k \in DOMAIN order : order[k] \in alone
      /\ \A i \in alone : \E k \in DOMAIN order : order[k] = i
  <2> HIDE DEF alone
  <2> QED
    BY <1>5, InOrderIsOnto
<1>7. \A j, k \in DOMAIN order : j < k => order[j] < order[k]
  BY DEF InOrder
<1>8. ToSet(out) = {queue[i].change : i \in alone}
  <2> HIDE DEF alone, queue
  <2>1. ToSet(out) \subseteq {queue[i].change : i \in alone}
    BY <1>6 DEF ToSet
  <2>2. ASSUME NEW i \in alone PROVE queue[i].change \in ToSet(out)
    <3>1. PICK k \in DOMAIN order : order[k] = i
      BY <1>6
    <3>2. out[k] = queue[i].change /\ k \in DOMAIN out
      BY <3>1
    <3> QED
      BY <3>2 DEF ToSet
  <2> QED
    BY <2>1, <2>2
<1>9. \A i \in alone : queue[i] \in ToSet(queue) /\ queue[i].change \in NodeChange
  <2>1. \A i \in DOMAIN queue : queue[i] \in ToSet(queue)
    BY DEF ToSet
  <2> HIDE DEF alone
  <2> QED
    BY <1>1, <1>4, <2>1, Elements
<1>10. Ordered(out, ChangePairs)
  <2> SUFFICES ASSUME NEW j \in DOMAIN order, NEW k \in DOMAIN order, j < k
               PROVE  <<queue[order[j]].change, queue[order[k]].change>> \in ChangePairs
    BY DEF Ordered
  <2>1. order[j] \in alone /\ order[k] \in alone /\ order[j] < order[k]
    BY <1>6, <1>7
  <2>2. <<queue[order[j]], queue[order[k]]>> \in EventPairs
    BY <1>4, <2>1 DEF FreshInv, InTurn, Ordered
  <2>3. NotBefore(queue[order[j]].change, queue[order[k]].change)
    BY <2>2, Pairs
  <2> QED
    BY <1>9, <2>1, <2>3, Pairs
<1>11. \A c \in ToSet(to_client[0]), d \in ToSet(out) : <<c, d>> \in ChangePairs
  <2> TAKE c \in ToSet(to_client[0]), d \in ToSet(out)
  <2>1. PICK i \in alone : d = queue[i].change
    BY <1>8
  <2>2. NotBefore(c, d)
    BY <1>9, <2>1 DEF FreshInv, InTurn
  <2> QED
    BY <1>1, <1>9, <2>1, <2>2, Elements, Pairs
<1>12. out \in Seq(NodeChange) /\ to_client' = [to_client EXCEPT ![0] = to_client[0] \o out]
  BY <1>2
<1>13. to_client[0] \in Seq(NodeChange) /\ {0, 2} = DOMAIN to_client
  BY <1>1 DEF WireTypes, Channel
<1>14. Ordered(to_client[0], ChangePairs)
  BY DEF FreshInv, InTurn
<1> HIDE DEF out
<1>15. to_client'[0] = to_client[0] \o out /\ to_client'[2] = to_client[2]
  BY <1>12, <1>13
<1>16. ToSet(to_client'[0]) = ToSet(to_client[0]) \cup ToSet(out)
  BY <1>12, <1>13, <1>15, ToSetConcat
<1>17. Ordered(to_client'[0], ChangePairs)
  BY <1>10, <1>11, <1>12, <1>13, <1>14, <1>15, OrderedConcat
<1> QED
  BY <1>8, <1>15, <1>16, <1>17

LEMMA ProcessEditsFresh ==
    ASSUME TypeOK, FreshInv, NEW far, ProcessEdits(far)
    PROVE  FreshInv'
<1> DEFINE queue == m_unsent_map_edit_queue
           alone == SentAlone(far)
           Out == {queue[i].change : i \in alone}
<1>1. WireTypes /\ ServerTypes
  BY TypeParts
<1>2. /\ ToSet(to_client'[0]) = ToSet(to_client[0]) \cup Out
      /\ Ordered(to_client'[0], ChangePairs) /\ to_client'[2] = to_client[2]
  BY ProcessEditsSends
<1>3. UNCHANGED <<map, to_server, world, crossed, unreverted, troubles>> /\ queue' = <<>>
  BY DEF ProcessEdits, clientVars
<1>4. ToSet(queue') = {}
  BY <1>3 DEF ToSet
<1>5. Known(client)' = Known(client) \ {Position(i) : i \in DOMAIN queue \ alone}
  BY ProcessEditsIs DEF Known
<1>6. alone \subseteq DOMAIN queue
  BY DEF SentAlone
<1>7. \A c \in Out : \E e \in ToSet(queue) : c = e.change
  BY <1>6 DEF ToSet
<1>8. \A p \in Known(client)' : \A e \in ToSet(queue) : e.change.p = p => e.change \in Out
  <2> SUFFICES ASSUME NEW p \in Known(client)', NEW i \in DOMAIN queue, queue[i].change.p = p
               PROVE  queue[i].change \in Out
    BY DEF ToSet
  <2>1. Position(i) = p
    BY DEF Position
  <2>2. i \in alone
    BY <1>5, <2>1
  <2> QED
    BY <2>2
<1> HIDE DEF queue, alone, Out
<1>9. Past'
  <2>1. \A c \in Out : c.v <= map[c.p][c.n]
    BY <1>7 DEF FreshInv, Past, queue
  <2>2. \A c \in ToSet(to_client'[0]) : c.v <= map[c.p][c.n]
    BY <1>2, <2>1 DEF FreshInv, Past
  <2>3. ToSet(m_unsent_map_edit_queue') = {}
    BY <1>4 DEF queue
  <2> QED
    BY <1>2, <1>3, <2>2, <2>3 DEF FreshInv, Past
<1>10. InTurn'
  <2>1. Ordered(queue', EventPairs)
    BY <1>3 DEF Ordered
  <2> QED
    BY <1>2, <1>4, <2>1 DEF FreshInv, InTurn, queue
<1>11. Current'
  BY <1>4 DEF Current, queue
<1>12. \A p : (Deleted(p)' <=> Deleted(p)) /\ (OnTheWay(p)' <=> OnTheWay(p))
  BY <1>2, <1>3 DEF Deleted, OnTheWay
<1>13. HasIt'
  BY <1>3, <1>5, <1>12 DEF FreshInv, HasIt
<1>14. Fresh'
  <2> SUFFICES ASSUME NEW p \in Known(client)', p \notin crossed, NEW n \in Node
               PROVE  Located(p, n)'
    BY <1>3 DEF Fresh
  <2>1. Located(p, n)
    BY <1>5 DEF FreshInv, Fresh
  <2>2. Now(p, n)' = Now(p, n) /\ Now(p, n).p = p /\ Now(p, n).n = n
    BY <1>3 DEF Now
  <2>3. CASE \E e \in ToSet(queue) : e.change.p = p /\ e.change.n = n
    <3>1. Noticed(p, n)
      BY <2>3 DEF FreshInv, Current, queue
    <3>2. Now(p, n) \in Out
      BY <1>8, <2>2, <3>1 DEF Noticed, queue
    <3>3. Told(p, n)'
      BY <1>2, <2>2, <3>2 DEF Told
    <3> QED
      BY <3>3 DEF Located
  <2>4. CASE ~\E e \in ToSet(queue) : e.change.p = p /\ e.change.n = n
    <3>1. ~Noticed(p, n)
      BY <2>2, <2>4 DEF Noticed, queue
    <3>2. \A c \in ToSet(to_client'[0]) : c.p = p /\ c.n = n => c \in ToSet(to_client[0])
      BY <1>2, <1>7, <2>4
    <3>5. Guessed(p, n) => Guessed(p, n)'
      BY <1>3 DEF Guessed
    <3>3. Shown(p, n) => Shown(p, n)'
      BY <1>2, <1>3, <3>2, <3>5 DEF Shown
    <3>4. Told(p, n) => Told(p, n)'
      BY <1>2, <2>2 DEF Told
    <3>6. Sent(p, n) => Sent(p, n)'
      BY <1>2, <1>3 DEF Sent
    <3> QED
      BY <1>12, <2>1, <3>1, <3>3, <3>4, <3>6 DEF Located
  <2> QED
    BY <2>3, <2>4
<1> QED
  BY <1>9, <1>10, <1>11, <1>13, <1>14 DEF FreshInv

(* Steps in which no block changes, neither at the server nor at the       *)
(* client, nor anything that goes to the client.                           *)
LEMMA NothingMoves ==
    ASSUME TypeOK, FreshInv,
           UNCHANGED <<map, m_unsent_map_edit_queue, to_client, world, crossed>>,
           troubles' \in Nat, troubles <= troubles',
           Known(client') \subseteq Known(client),
           \A p \in Known(client') :
                /\ Deleted(p) => Deleted(p)'
                /\ \A n \in Node : world[p] # None /\ Guessed(p, n) => Guessed(p, n)'
    PROVE  FreshInv'
<1>1. \A p, n : /\ Noticed(p, n)' <=> Noticed(p, n)
                /\ Told(p, n)' <=> Told(p, n)
                /\ Sent(p, n)' <=> Sent(p, n)
                /\ OnTheWay(p)' <=> OnTheWay(p)
  BY DEF Noticed, Told, Sent, OnTheWay, Now
<1>2. ServerTypes /\ WireTypes
  BY TypeParts
<1>3. \A p \in Block, n \in Node : map'[p][n] <= troubles'
  BY <1>2, Elements DEF FreshInv, Past
<1>4. Past'
  BY <1>3 DEF FreshInv, Past
<1>5. InTurn'
  BY DEF FreshInv, InTurn
<1>6. Current'
  BY <1>1 DEF FreshInv, Current
<1>7. \A p \in Known(client)' : /\ p \in Known(client)
                                /\ Deleted(p) => Deleted(p)'
                                /\ \A n \in Node : Shown(p, n) => Shown(p, n)'
  BY DEF Known, Shown
<1>8. HasIt'
  BY <1>1, <1>7 DEF FreshInv, HasIt
<1>9. Fresh'
  <2> SUFFICES ASSUME NEW p \in Known(client)', p \notin crossed, NEW n \in Node
               PROVE  Located(p, n)'
    BY DEF Fresh
  <2>1. Located(p, n)
    BY <1>7 DEF FreshInv, Fresh
  <2> QED
    BY <1>1, <1>7, <2>1 DEF Located
<1> QED
  BY <1>4, <1>5, <1>6, <1>8, <1>9 DEF FreshInv

LEMMA HandleBlocksFresh ==
    ASSUME TypeOK, FreshInv, HandleBlocks
    PROVE  FreshInv'
<1> DEFINE m == Head(to_server[2])
<1>1. WireTypes /\ ClientOK(client) /\ ServerTypes
  BY TypeParts
<1>2. ToSet(to_server[2]) = {m} \cup ToSet(Tail(to_server[2]))
  BY <1>1, ToSetTail DEF HandleBlocks, WireTypes
<1>3. /\ UNCHANGED <<map, m_unsent_map_edit_queue, to_client, world, crossed, unreverted, troubles>>
      /\ to_server'[2] = Tail(to_server[2]) /\ to_server'[0] = to_server[0]
  BY <1>1 DEF HandleBlocks, clientVars, WireTypes, Channel
<1>4. /\ Known(client') \subseteq Known(client)
      /\ m.type = "deleted" => m.p \notin Known(client')
  BY <1>1, GotOne, ResendOnWire DEF HandleBlocks
<1>5. ASSUME NEW p \in Known(client')
      PROVE  (Deleted(p) => Deleted(p)') /\ \A n \in Node : Guessed(p, n) => Guessed(p, n)'
  BY <1>2, <1>3, <1>4 DEF Deleted, Guessed
<1>6. troubles \in Nat
  BY <1>1, Elements
<1> QED
  BY <1>3, <1>4, <1>5, <1>6, NothingMoves

LEMMA HandleInteractFresh ==
    ASSUME TypeOK, FreshInv, HandleInteract
    PROVE  FreshInv'
<1> DEFINE m == Head(to_server[0])
<1>1. WireTypes /\ ClientOK(client) /\ ServerTypes
  BY TypeParts
<1>2. ToSet(to_server[0]) = {m} \cup ToSet(Tail(to_server[0])) /\ m \in Interaction
  BY <1>1, ToSetTail DEF HandleInteract, WireTypes
<1>3. m.p \in Block /\ m.n \in Node
  BY <1>2 DEF Interaction
<1>4. /\ UNCHANGED <<to_client, world, crossed>>
      /\ to_server'[0] = Tail(to_server[0]) /\ to_server'[2] = to_server[2]
  BY <1>1 DEF HandleInteract, WireTypes, Channel
<1>5. PICK u \in Block : (\E predicted \in BOOLEAN : CarriedOut(m, u, predicted))
                         \/ Refused(m, u) \/ Unreverted(m, u)
  BY DEF HandleInteract
<1>6. unreverted \subseteq unreverted'
  BY <1>5 DEF CarriedOut, Refused, Unreverted
<1>7. \A b \in Block, k \in Node : Guessed(b, k) => Guessed(b, k)' \/ (b = m.p /\ k = m.n)
  BY <1>2, <1>4, <1>6 DEF Guessed
<1>8. Known(client') \subseteq Known(client) /\ Known(client) \subseteq Block
  BY <1>1, InteractResends DEF ClientOK, ClientState, Known
<1>9. \A p : Deleted(p)' <=> Deleted(p)
  BY <1>4 DEF Deleted
<1>10. ASSUME NEW predicted \in BOOLEAN, CarriedOut(m, u, predicted)
       PROVE  FreshInv'
  <2>1. ChangeNode("node", m.p, m.n, FALSE)
    BY <1>10 DEF CarriedOut
  <2>2. UNCHANGED <<to_client, to_server[2], world, crossed, unreverted>>
    BY <1>4, <1>10 DEF CarriedOut
  <2> HIDE DEF m
  <2> QED
    BY <1>3, <1>7, <1>8, <2>1, <2>2, ChangeNodeFresh
<1>11. ASSUME UNCHANGED <<map, m_unsent_map_edit_queue, troubles>>,
              \A p \in Known(client'), n \in Node :
                    world[p] # None /\ Guessed(p, n) => Guessed(p, n)'
       PROVE  FreshInv'
  <2>1. troubles' \in Nat /\ troubles <= troubles'
    BY <1>1, <1>11, Elements
  <2>2. UNCHANGED <<map, m_unsent_map_edit_queue, to_client, world, crossed>>
    BY <1>4, <1>11
  <2> QED
    BY <1>8, <1>9, <1>11, <2>1, <2>2, NothingMoves
<1>12. CASE Refused(m, u)
  <2> DEFINE both == {m.p, u}
  <2>1. client' = SetBlocksNotSent(client, both, both)
    BY <1>12 DEF Refused
  <2>2. m.p \in both
    OBVIOUS
  <2> HIDE DEF both
  <2>3. m.p \notin Known(client')
    BY <1>1, <2>1, <2>2, SetNotSent DEF Known
  <2>4. \A p \in Known(client'), n \in Node :
              world[p] # None /\ Guessed(p, n) => Guessed(p, n)'
    BY <1>7, <1>8, <2>3
  <2>5. UNCHANGED <<map, m_unsent_map_edit_queue, troubles>>
    BY <1>12 DEF Refused
  <2> QED
    BY <1>11, <2>4, <2>5
(* What the server lets stand it does not hear of any more, but it is in   *)
(* unreverted.                                                             *)
<1>13. CASE Unreverted(m, u)
  <2>1. world[m.p] # None /\ world[m.p][m.n] = Guess => <<m.p, m.n>> \in unreverted'
    BY <1>13 DEF Unreverted
  <2>4. UNCHANGED <<map, m_unsent_map_edit_queue, troubles>>
    BY <1>13 DEF Unreverted
  <2> HIDE DEF m
  <2>2. ASSUME NEW p \in Block, NEW n \in Node, world[p] # None, Guessed(p, n)
        PROVE  Guessed(p, n)'
    <3>1. CASE p = m.p /\ n = m.n
      <4>1. <<m.p, m.n>> \in unreverted \/ world[m.p][m.n] = Guess
        BY <2>2, <3>1 DEF Guessed
      <4>2. <<m.p, m.n>> \in unreverted'
        BY <1>6, <2>1, <2>2, <3>1, <4>1
      <4> QED
        BY <3>1, <4>2 DEF Guessed
    <3>2. CASE ~(p = m.p /\ n = m.n)
      BY <1>7, <2>2, <3>2
    <3> QED
      BY <3>1, <3>2
  <2>3. \A p \in Known(client'), n \in Node :
              world[p] # None /\ Guessed(p, n) => Guessed(p, n)'
    BY <1>8, <2>2
  <2> QED
    BY <1>11, <2>3, <2>4
<1> QED
  BY <1>5, <1>10, <1>12, <1>13

LEMMA AcknowledgeFresh ==
    ASSUME TypeOK, FreshInv, NEW p \in Block, NEW k \in 1 .. MaxOwed, Acknowledge(p, k)
    PROVE  FreshInv'
<1> DEFINE a == [type |-> "got", p |-> p]
<1>1. WireTypes /\ ServerTypes
  BY TypeParts
<1>2. a \in Answer
  BY DEF Answer
<1>3. to_server'[2] = Append(to_server[2], a) /\ to_server'[0] = to_server[0]
  BY <1>1 DEF Acknowledge, WireTypes, Channel
<1>4. ToSet(to_server'[2]) = ToSet(to_server[2]) \cup {a}
  BY <1>1, <1>2, <1>3, ToSetAppend DEF WireTypes
<1>5. UNCHANGED <<map, m_unsent_map_edit_queue, to_client, world, crossed>>
      /\ UNCHANGED <<client, troubles, unreverted>>
  BY DEF Acknowledge, serverVars
<1>6. \A b : (Deleted(b) => Deleted(b)') /\ \A n : Guessed(b, n) => Guessed(b, n)'
  BY <1>3, <1>4, <1>5 DEF Deleted, Guessed
<1>7. troubles' \in Nat /\ troubles <= troubles'
  BY <1>1, <1>5, Elements
<1> QED
  BY <1>5, <1>6, <1>7, NothingMoves

(* Everything else on the server's side *)
LEMMA OtherFresh ==
    ASSUME TypeOK, FreshInv,
           \/ PauseOver \/ UNCHANGED vars
           \/ \E seen \in SUBSET Hideable : Move(seen)
           \/ \E p \in Block : Uncover(p) \/ BlockArrives(p)
    PROVE  FreshInv'
<1>1. ServerTypes /\ WireTypes /\ ClientOK(client)
  BY TypeParts
<1>2. UNCHANGED <<map, m_unsent_map_edit_queue, to_client, world, crossed>>
      /\ UNCHANGED <<to_server, unreverted>> /\ troubles' \in {troubles, troubles + 1}
  BY DEF PauseOver, Move, Uncover, BlockArrives, Trouble, clientVars, vars, serverVars
<1>3. Known(client') = Known(client)
  <2>1. \/ client' = client
        \/ client' = [client EXCEPT !.paused = FALSE]
        \/ client' = [client EXCEPT !.m_nearest_unsent_d = 0]
    BY DEF PauseOver, Move, Uncover, BlockArrives, vars, serverVars
  <2> QED
    BY <1>1, <2>1 DEF ClientOK, ClientState, Known
<1>4. \A b : (Deleted(b) => Deleted(b)') /\ \A n : Guessed(b, n) => Guessed(b, n)'
  BY <1>2 DEF Deleted, Guessed
<1>5. troubles' \in Nat /\ troubles <= troubles'
  BY <1>1, <1>2, Elements
<1> QED
  BY <1>2, <1>3, <1>4, <1>5, NothingMoves

LEMMA Contents ==
    ASSUME NEW c \in [Node -> 0 .. Guess]
    PROVE  c # None
BY NoneAssumption

(* Steps of the client.  What is pending afterwards was pending before, so *)
(* that Past, InTurn and Current are kept.                                 *)
LEMMA ClientSteps ==
    ASSUME TypeOK, FreshInv, UNCHANGED <<map, m_unsent_map_edit_queue, client>>,
           troubles' \in Nat, troubles <= troubles',
           ToSet(to_client'[2]) \subseteq ToSet(to_client[2]), Ordered(to_client'[2], BlockPairs),
           ToSet(to_client'[0]) \subseteq ToSet(to_client[0]), Ordered(to_client'[0], ChangePairs)
    PROVE  /\ Past' /\ InTurn' /\ Current'
           /\ \A p, n : Now(p, n)' = Now(p, n) /\ (Noticed(p, n)' <=> Noticed(p, n))
           /\ Known(client)' = Known(client) /\ Known(client) \subseteq Block
           /\ \A p \in Block, n \in Node : p \in Known(client) /\ p \notin crossed => Located(p, n)
<1>1. \A p, n : Now(p, n)' = Now(p, n) /\ (Noticed(p, n)' <=> Noticed(p, n))
  BY DEF Noticed, Now
<1>2. ServerTypes /\ WireTypes
  BY TypeParts
<1>3. \A p \in Block, n \in Node : map'[p][n] <= troubles'
  BY <1>2, Elements DEF FreshInv, Past
<1>4. Past'
  BY <1>3 DEF FreshInv, Past
<1>5. InTurn'
  BY DEF FreshInv, InTurn
<1>6. Current'
  BY <1>1 DEF FreshInv, Current
<1>7. Known(client)' = Known(client) /\ Known(client) \subseteq Block
  BY TypeParts DEF Known, ClientOK, ClientState
<1> QED
  BY <1>1, <1>4, <1>5, <1>6, <1>7 DEF FreshInv, Fresh

LEMMA UnloadFresh ==
    ASSUME TypeOK, FreshInv, NEW p \in Block, Unload(p)
    PROVE  FreshInv'
<1> DEFINE a == [type |-> "deleted", p |-> p]
<1>1. WireTypes /\ ServerTypes /\ WorldTypes
  BY TypeParts
<1>2. a \in Answer
  BY DEF Answer
<1>3. to_server'[2] = Append(to_server[2], a) /\ to_server'[0] = to_server[0]
  BY <1>1 DEF Unload, WireTypes, Channel
<1>4. ToSet(to_server'[2]) = ToSet(to_server[2]) \cup {a}
  BY <1>1, <1>2, <1>3, ToSetAppend DEF WireTypes
<1>5. /\ UNCHANGED <<map, m_unsent_map_edit_queue, client, to_client, crossed>>
      /\ troubles' = troubles + 1
  BY DEF Unload, Trouble, serverVars
<1>6. \A b \in Block : b # p => world'[b] = world[b]
  BY <1>1 DEF Unload, WorldTypes
<1>7. troubles' \in Nat /\ troubles <= troubles'
  BY <1>1, <1>5, Elements
<1>8. Ordered(to_client'[2], BlockPairs) /\ Ordered(to_client'[0], ChangePairs)
  BY <1>5 DEF FreshInv, InTurn
<1>9. /\ Past' /\ InTurn' /\ Current'
      /\ \A b, n : Now(b, n)' = Now(b, n) /\ (Noticed(b, n)' <=> Noticed(b, n))
      /\ Known(client)' = Known(client) /\ Known(client) \subseteq Block
      /\ \A b \in Block, n \in Node : b \in Known(client) /\ b \notin crossed => Located(b, n)
  BY <1>5, <1>7, <1>8, ClientSteps
<1>10. Deleted(p)' /\ \A b : Deleted(b) => Deleted(b)'
  <2>1. a \in ToSet(to_server'[2]) /\ a.type = "deleted" /\ a.p = p
    BY <1>4
  <2> QED
    BY <1>4, <2>1 DEF Deleted
<1>11. \A b, n : /\ Told(b, n) => Told(b, n)'
                 /\ Sent(b, n) => Sent(b, n)'
                 /\ OnTheWay(b) => OnTheWay(b)'
  BY <1>3, <1>5, <1>9 DEF Told, Sent, OnTheWay
<1>12. \A b \in Block, n \in Node : b # p /\ Shown(b, n) => Shown(b, n)'
  <2>1. unreverted' = unreverted \ ({p} \X Node)
    BY DEF Unload
  <2>2. \A b \in Block, n \in Node : b # p /\ Guessed(b, n) => Guessed(b, n)'
    BY <1>3, <1>6, <2>1 DEF Guessed
  <2> QED
    BY <1>5, <1>6, <2>2 DEF Shown
<1>13. HasIt'
  BY <1>6, <1>9, <1>10, <1>11 DEF FreshInv, HasIt
<1>14. Fresh'
  <2> SUFFICES ASSUME NEW b \in Known(client), b \notin crossed, NEW n \in Node
               PROVE  Located(b, n)'
    BY <1>5, <1>9 DEF Fresh
  <2>1. CASE b = p
    BY <1>10, <2>1 DEF Located
  <2>2. CASE b # p
    BY <1>9, <1>10, <1>11, <1>12, <2>2 DEF Located
  <2> QED
    BY <2>1, <2>2
<1> QED
  BY <1>9, <1>13, <1>14 DEF FreshInv

LEMMA InteractFresh ==
    ASSUME TypeOK, FreshInv, NEW p \in Block, NEW n \in Node, Interact(p, n)
    PROVE  FreshInv'
<1> DEFINE a == [p |-> p, n |-> n]
<1>1. WireTypes /\ ServerTypes /\ WorldTypes
  BY TypeParts
<1>2. a \in Interaction
  BY DEF Interaction
<1>3. to_server'[0] = Append(to_server[0], a) /\ to_server'[2] = to_server[2]
  BY <1>1 DEF Interact, WireTypes, Channel
<1>4. ToSet(to_server'[0]) = ToSet(to_server[0]) \cup {a}
  BY <1>1, <1>2, <1>3, ToSetAppend DEF WireTypes
<1>5. /\ UNCHANGED <<map, m_unsent_map_edit_queue, client, to_client, crossed, unreverted>>
      /\ troubles' = troubles + 1
  BY DEF Interact, Trouble, serverVars
<1>6. /\ world[p] \in [Node -> 0 .. Guess]
      /\ world' = [world EXCEPT ![p] = [world[p] EXCEPT ![n] = Guess]]
  BY <1>1 DEF Interact, WorldTypes
<1>7. Guess \in 0 .. Guess
  BY BoundsAssumption DEF Guess
<1>8. \A b \in Block : b # p => world'[b] = world[b]
  BY <1>1, <1>6 DEF WorldTypes
<1>9. world'[p] \in [Node -> 0 .. Guess] /\ \A k \in Node : k # n => world'[p][k] = world[p][k]
  BY <1>1, <1>6, <1>7 DEF WorldTypes
<1>10. world'[p] # None
  BY <1>9, Contents
<1>11. troubles' \in Nat /\ troubles <= troubles'
  BY <1>1, <1>5, Elements
<1>12. Ordered(to_client'[2], BlockPairs) /\ Ordered(to_client'[0], ChangePairs)
  BY <1>5 DEF FreshInv, InTurn
<1>13. /\ Past' /\ InTurn' /\ Current'
       /\ \A b, k : Now(b, k)' = Now(b, k) /\ (Noticed(b, k)' <=> Noticed(b, k))
       /\ Known(client)' = Known(client) /\ Known(client) \subseteq Block
       /\ \A b \in Block, k \in Node : b \in Known(client) /\ b \notin crossed => Located(b, k)
  BY <1>5, <1>11, <1>12, ClientSteps
<1>14. /\ Guessed(p, n)'
       /\ \A b \in Block, k \in Node : ~(b = p /\ k = n) /\ Guessed(b, k) => Guessed(b, k)'
  <2>1. a \in ToSet(to_server'[0]) /\ a.p = p /\ a.n = n
    BY <1>4
  <2>2. world'[p][n] = Guess
    BY <1>1, <1>6, <1>7 DEF WorldTypes
  <2>3. \A b \in Block, k \in Node : ~(b = p /\ k = n) => world'[b][k] = world[b][k]
    BY <1>8, <1>9
  <2> QED
    BY <1>4, <1>5, <2>1, <2>2, <2>3 DEF Guessed
<1>15. \A b, k : /\ Deleted(b) => Deleted(b)'
                 /\ Told(b, k) => Told(b, k)'
                 /\ Sent(b, k) => Sent(b, k)'
                 /\ OnTheWay(b) => OnTheWay(b)'
  BY <1>3, <1>5, <1>13 DEF Deleted, Told, Sent, OnTheWay
<1>16. \A b \in Block, k \in Node : Shown(b, k) => Shown(b, k)'
  <2>1. \A b \in Block, k \in Node : ~(b = p /\ k = n) /\ Shown(b, k) => Shown(b, k)'
    BY <1>5, <1>8, <1>9, <1>10, <1>14 DEF Shown
  <2>2. Shown(p, n) => Shown(p, n)'
    BY <1>5, <1>10, <1>14 DEF Shown
  <2> QED
    BY <2>1, <2>2
<1>17. HasIt'
  BY <1>8, <1>10, <1>13, <1>15 DEF FreshInv, HasIt
<1>18. Fresh'
  <2> SUFFICES ASSUME NEW b \in Known(client), b \notin crossed, NEW k \in Node
               PROVE  Located(b, k)'
    BY <1>5, <1>13 DEF Fresh
  <2> QED
    BY <1>13, <1>15, <1>16 DEF Located
<1> QED
  BY <1>13, <1>17, <1>18 DEF FreshInv

LEMMA ReceiveBlockFresh ==
    ASSUME TypeOK, FreshInv, ReceiveBlock
    PROVE  FreshInv'
<1> DEFINE m == Head(to_client[2])
<1>1. WireTypes /\ ServerTypes /\ WorldTypes
  BY TypeParts
<1>2. /\ ToSet(to_client[2]) = {m} \cup ToSet(Tail(to_client[2])) /\ m \in BlockMessage
      /\ Ordered(Tail(to_client[2]), BlockPairs)
      /\ \A e \in ToSet(Tail(to_client[2])) : <<m, e>> \in BlockPairs
  BY <1>1, ToSetTail, OrderedTail DEF ReceiveBlock, WireTypes, FreshInv, InTurn
<1>3. to_client'[2] = Tail(to_client[2]) /\ to_client'[0] = to_client[0]
  BY <1>1 DEF ReceiveBlock, WireTypes, Channel
<1>4. m.p \in Block /\ m.content \in [Node -> 0 .. Guess]
  BY <1>2, BoundsAssumption DEF BlockMessage, Content, Guess
<1>5. UNCHANGED <<map, m_unsent_map_edit_queue, client, to_server, troubles>>
  BY DEF ReceiveBlock, serverVars
<1>6. world'[m.p] = m.content /\ \A b \in Block : b # m.p => world'[b] = world[b]
  BY <1>1, <1>4 DEF ReceiveBlock, WorldTypes
<1>7. world'[m.p] # None
  BY <1>4, <1>6, Contents
<1>8. \A b : b # m.p /\ b \notin crossed' => b \notin crossed
  BY DEF ReceiveBlock
<1>9. m.p \notin crossed' =>
        /\ \A c \in ToSet(to_client[0]) : c.p = m.p => ~Newer(m.content, c)
        /\ m.p \notin crossed \/ m.content = map[m.p]
  BY DEF ReceiveBlock
<1> HIDE DEF m
<1>10. troubles' \in Nat /\ troubles <= troubles'
  BY <1>1, <1>5, Elements
<1>11. ToSet(to_client'[2]) \subseteq ToSet(to_client[2]) /\ Ordered(to_client'[2], BlockPairs)
       /\ Ordered(to_client'[0], ChangePairs)
  BY <1>2, <1>3 DEF FreshInv, InTurn
<1>12. /\ Past' /\ InTurn' /\ Current'
       /\ \A b, k : Now(b, k)' = Now(b, k) /\ (Noticed(b, k)' <=> Noticed(b, k))
       /\ Known(client)' = Known(client) /\ Known(client) \subseteq Block
       /\ \A b \in Block, k \in Node : b \in Known(client) /\ b \notin crossed => Located(b, k)
  BY <1>3, <1>5, <1>10, <1>11, ClientSteps
<1>13. \A b, k : /\ Deleted(b) => Deleted(b)'
                 /\ Told(b, k) => Told(b, k)'
  BY <1>3, <1>5, <1>12 DEF Deleted, Told
<1>14. \A b \in Block : b # m.p => /\ OnTheWay(b) => OnTheWay(b)'
                                   /\ \A k : Sent(b, k) => Sent(b, k)'
                                   /\ \A k : Shown(b, k) => Shown(b, k)'
  <2>1. unreverted' = unreverted \ ({m.p} \X Node)
    BY DEF ReceiveBlock, m
  <2>2. \A b \in Block : b # m.p => \A k : Guessed(b, k) => Guessed(b, k)'
    BY <1>5, <1>6, <2>1 DEF Guessed
  <2> QED
    BY <1>2, <1>3, <1>5, <1>6, <2>2 DEF OnTheWay, Sent, Shown
<1>15. ASSUME NEW b \in Block, b = m.p, b \notin crossed', NEW n \in Node, m.content[n] = map[b][n]
       PROVE  Shown(b, n)'
  <2>1. ASSUME NEW e \in ToSet(to_client'[2]), e.p = b
        PROVE  e.content[n] = map[b][n]
    <3>1. NoOlderNode(m, e) /\ e \in ToSet(to_client[2])
      BY <1>2, <1>3, <2>1, Pairs
    <3>2. m.content[n] <= e.content[n] /\ e.content[n] <= map[b][n]
      BY <1>15, <2>1, <3>1 DEF NoOlderNode, FreshInv, Past
    <3>3. e.content[n] \in Nat /\ map[b][n] \in Nat
      BY <1>1, <1>4, <3>1, Elements
    <3> QED
      BY <1>15, <3>2, <3>3
  <2>2. ASSUME NEW c \in ToSet(to_client[0]), c.p = b, c.n = n
        PROVE  c.v = map[b][n]
    <3>1. ~(map[b][n] > c.v) /\ c.v <= map[b][n]
      BY <1>9, <1>15, <2>2 DEF Newer, FreshInv, Past
    <3>2. c.v \in Nat /\ map[b][n] \in Nat
      BY <1>1, <1>4, Elements
    <3> QED
      BY <3>1, <3>2
  <2> QED
    BY <1>3, <1>5, <1>6, <1>7, <1>15, <2>1, <2>2 DEF Shown
<1>16. HasIt'
  BY <1>6, <1>7, <1>12, <1>13, <1>14 DEF FreshInv, HasIt
<1>17. Fresh'
  <2> SUFFICES ASSUME NEW b \in Known(client), b \notin crossed', NEW k \in Node
               PROVE  Located(b, k)'
    BY <1>12 DEF Fresh
  <2>1. CASE b # m.p
    BY <1>8, <1>12, <1>13, <1>14, <2>1 DEF Located
  <2>2. CASE b = m.p
    <3>1. CASE m.content[k] = map[m.p][k]
      BY <1>4, <1>15, <2>2, <3>1 DEF Located
    <3>2. CASE m.content[k] # map[m.p][k]
      <4>1. Located(b, k)
        BY <1>9, <1>12, <2>2, <3>2
      <4>2. Sent(b, k) => Sent(b, k)'
        BY <1>2, <1>3, <1>5, <2>2, <3>2 DEF Sent
      <4>3. ~Shown(b, k)
        BY <1>2, <2>2, <3>2 DEF Shown
      <4> QED
        BY <1>12, <1>13, <4>1, <4>2, <4>3 DEF Located
    <3> QED
      BY <3>1, <3>2
  <2> QED
    BY <2>1, <2>2
<1> QED
  BY <1>12, <1>16, <1>17 DEF FreshInv

LEMMA ReceiveNodeFresh ==
    ASSUME TypeOK, FreshInv, ReceiveNode
    PROVE  FreshInv'
<1> DEFINE m == Head(to_client[0])
<1>1. WireTypes /\ ServerTypes /\ WorldTypes
  BY TypeParts
<1>2. /\ ToSet(to_client[0]) = {m} \cup ToSet(Tail(to_client[0])) /\ m \in NodeChange
      /\ Ordered(Tail(to_client[0]), ChangePairs)
      /\ \A d \in ToSet(Tail(to_client[0])) : <<m, d>> \in ChangePairs
  BY <1>1, ToSetTail, OrderedTail DEF ReceiveNode, WireTypes, FreshInv, InTurn
<1>3. to_client'[0] = Tail(to_client[0]) /\ to_client'[2] = to_client[2]
  BY <1>1 DEF ReceiveNode, WireTypes, Channel
<1>4. m.p \in Block /\ m.n \in Node /\ m.v \in 0 .. Guess /\ m.v \in Nat
  BY <1>2, BoundsAssumption DEF NodeChange, Guess
<1>5. UNCHANGED <<map, m_unsent_map_edit_queue, client, to_server, troubles>>
  BY DEF ReceiveNode, serverVars
<1>6. world' = IF world[m.p] = None THEN world
               ELSE [world EXCEPT ![m.p] = [world[m.p] EXCEPT ![m.n] = m.v]]
  BY DEF ReceiveNode
<1>7. crossed \subseteq crossed' /\
        (m.p \notin crossed' => \A e \in ToSet(to_client[2]) : e.p = m.p => ~Older(e.content, m))
  BY DEF ReceiveNode
<1> HIDE DEF m
<1>8. \A b \in Block : b # m.p => world'[b] = world[b]
  BY <1>1, <1>6 DEF WorldTypes
<1>9. world[m.p] # None =>
        /\ world'[m.p] # None /\ world'[m.p][m.n] = m.v
        /\ \A k \in Node : k # m.n => world'[m.p][k] = world[m.p][k]
  <2> SUFFICES ASSUME world[m.p] # None
               PROVE  /\ world'[m.p] # None /\ world'[m.p][m.n] = m.v
                      /\ \A k \in Node : k # m.n => world'[m.p][k] = world[m.p][k]
    OBVIOUS
  <2>1. world[m.p] \in [Node -> 0 .. Guess]
    BY <1>1, <1>4 DEF WorldTypes
  <2>2. /\ world'[m.p] \in [Node -> 0 .. Guess] /\ world'[m.p][m.n] = m.v
        /\ \A k \in Node : k # m.n => world'[m.p][k] = world[m.p][k]
    BY <1>1, <1>4, <1>6, <2>1 DEF WorldTypes
  <2> QED
    BY <2>2, Contents
<1>10. world[m.p] = None => world' = world
  BY <1>6
<1>11. troubles' \in Nat /\ troubles <= troubles'
  BY <1>1, <1>5, Elements
<1>12. ToSet(to_client'[0]) \subseteq ToSet(to_client[0]) /\ Ordered(to_client'[0], ChangePairs)
       /\ Ordered(to_client'[2], BlockPairs)
  BY <1>2, <1>3 DEF FreshInv, InTurn
<1>13. /\ Past' /\ InTurn' /\ Current'
       /\ \A b, k : Now(b, k)' = Now(b, k) /\ (Noticed(b, k)' <=> Noticed(b, k))
       /\ Known(client)' = Known(client) /\ Known(client) \subseteq Block
       /\ \A b \in Block, k \in Node : b \in Known(client) /\ b \notin crossed => Located(b, k)
  BY <1>3, <1>5, <1>11, <1>12, ClientSteps
<1>14. \A b, k : /\ Deleted(b) => Deleted(b)'
                 /\ Sent(b, k) => Sent(b, k)'
                 /\ OnTheWay(b) => OnTheWay(b)'
  BY <1>3, <1>5, <1>13 DEF Deleted, Sent, OnTheWay
<1>15. \A b \in Block, k \in Node : b # m.p \/ k # m.n =>
                 /\ Told(b, k) => Told(b, k)'
                 /\ Shown(b, k) => Shown(b, k)'
  <2> SUFFICES ASSUME NEW b \in Block, NEW k \in Node, b # m.p \/ k # m.n
               PROVE  /\ Told(b, k) => Told(b, k)'
                      /\ Shown(b, k) => Shown(b, k)'
    OBVIOUS
  <2>1. Now(b, k) # m
    BY DEF Now
  <2>2. Told(b, k) => Told(b, k)'
    BY <1>2, <1>3, <1>13, <2>1 DEF Told
  <2>3. world[b] # None => world'[b] # None /\ world'[b][k] = world[b][k]
    BY <1>8, <1>9
  <2>4. unreverted' = unreverted \ {<<m.p, m.n>>}
    BY DEF ReceiveNode, m
  <2>5. world[b] # None /\ Guessed(b, k) => Guessed(b, k)'
    BY <1>5, <2>3, <2>4 DEF Guessed
  <2> QED
    BY <1>3, <1>5, <1>12, <2>2, <2>3, <2>5 DEF Shown
(* The change is the latest: the client has it now, if it has the block. *)
<1>16. ASSUME NEW b \in Block, b = m.p, b \notin crossed', world[b] # None, m.v = map[b][m.n]
       PROVE  \A k : k = m.n => Shown(b, k)'
  <2>1. ASSUME NEW d \in ToSet(to_client'[0]), d.p = b, d.n = m.n
        PROVE  d.v = map[b][m.n]
    <3>1. NotBefore(m, d) /\ d \in ToSet(to_client[0])
      BY <1>2, <1>3, <2>1, Pairs
    <3>2. m.v <= d.v /\ d.v <= map[b][m.n]
      BY <1>16, <2>1, <3>1 DEF NotBefore, FreshInv, Past
    <3>3. d.v \in Nat /\ map[b][m.n] \in Nat
      BY <1>1, <1>4, <3>1, Elements
    <3> QED
      BY <1>16, <3>2, <3>3
  <2>2. ASSUME NEW e \in ToSet(to_client[2]), e.p = b
        PROVE  e.content[m.n] = map[b][m.n]
    <3>1. ~(e.content[m.n] < map[b][m.n]) /\ e.content[m.n] <= map[b][m.n]
      BY <1>4, <1>7, <1>16, <2>2 DEF Older, FreshInv, Past
    <3>2. e.content[m.n] \in Nat /\ map[b][m.n] \in Nat
      BY <1>1, <1>4, Elements
    <3> QED
      BY <3>1, <3>2
  <2>3. world'[b] # None /\ world'[b][m.n] = map[b][m.n]
    BY <1>9, <1>16
  <2> QED
    BY <1>3, <1>5, <2>1, <2>2, <2>3 DEF Shown
(* If it does not have the block, a copy is coming that has the change. *)
<1>17. ASSUME NEW b \in Block, b = m.p, b \notin crossed', m.v = map[b][m.n], OnTheWay(b)
       PROVE  \A k : k = m.n => Sent(b, k)'
  <2>1. PICK e \in ToSet(to_client[2]) : e.p = b
    BY <1>17 DEF OnTheWay
  <2>2. ~(e.content[m.n] < map[b][m.n]) /\ e.content[m.n] <= map[b][m.n]
    BY <1>4, <1>7, <1>17, <2>1 DEF Older, FreshInv, Past
  <2>3. e.content[m.n] \in Nat /\ map[b][m.n] \in Nat
    BY <1>1, <1>4, Elements
  <2>4. e.content[m.n] = map[b][m.n]
    BY <2>2, <2>3
  <2> QED
    BY <1>3, <1>5, <2>1, <2>4 DEF Sent
<1>18. \A b \in Block : world[b] # None => world'[b] # None
  BY <1>8, <1>9
<1>19. HasIt'
  BY <1>13, <1>14, <1>18 DEF FreshInv, HasIt
<1>20. Fresh'
  <2> SUFFICES ASSUME NEW b \in Known(client), b \notin crossed', NEW k \in Node
               PROVE  Located(b, k)'
    BY <1>13 DEF Fresh
  <2>1. b \in Block /\ Located(b, k)
    BY <1>7, <1>13
  <2>2. CASE b # m.p \/ k # m.n
    BY <1>13, <1>14, <1>15, <2>1, <2>2 DEF Located
  <2>3. CASE b = m.p /\ k = m.n
    <3>1. Told(b, k) => Told(b, k)' \/ m.v = map[b][m.n]
      BY <1>2, <1>3, <1>13, <2>3 DEF Told, Now
    <3>2. Shown(b, k) => m.v = map[b][m.n] /\ world[b] # None
      BY <1>2, <2>3 DEF Shown
    <3>3. world[b] # None \/ OnTheWay(b) \/ Deleted(b)
      BY DEF FreshInv, HasIt
    <3>4. m.v = map[b][m.n] => Located(b, k)'
      BY <1>14, <1>16, <1>17, <2>1, <2>3, <3>3 DEF Located
    <3> QED
      BY <1>13, <1>14, <2>1, <3>1, <3>2, <3>4 DEF Located
  <2> QED
    BY <2>2, <2>3
<1> QED
  BY <1>13, <1>19, <1>20 DEF FreshInv

LEMMA FreshInitially == Init => FreshInv
<1> SUFFICES ASSUME Init PROVE FreshInv
  OBVIOUS
<1>1. ToSet(to_client[2]) = {} /\ ToSet(to_client[0]) = {} /\ ToSet(m_unsent_map_edit_queue) = {}
  BY DEF Init, Channel, ToSet
<1>2. to_client[2] = <<>> /\ to_client[0] = <<>> /\ m_unsent_map_edit_queue = <<>>
  BY DEF Init, Channel
<1>3. Past
  <2>1. troubles = 0 /\ \A p \in Block, n \in Node : map[p][n] = 0
    BY DEF Init
  <2> QED
    BY <1>1, <2>1 DEF Past
<1>4. InTurn
  BY <1>1, <1>2 DEF InTurn, Ordered
<1>5. Current
  BY <1>1 DEF Current
<1>6. Known(client) = {}
  BY DEF Init, Known
<1> QED
  BY <1>3, <1>4, <1>5, <1>6 DEF FreshInv, HasIt, Fresh

LEMMA FreshStays == TypeOK /\ FreshInv /\ [Next]_vars => FreshInv'
<1> SUFFICES ASSUME TypeOK, FreshInv, [Next]_vars PROVE FreshInv'
  OBVIOUS
<1>1. ASSUME NEW building \in BOOLEAN, SendBlocks(building) PROVE FreshInv'
  BY <1>1, SendBlocksFresh
<1>2. ASSUME NEW p \in Block, ForceSend(p) PROVE FreshInv'
  BY <1>2, ForceSendFresh
<1>3. ASSUME NEW p \in Block, NEW n \in Node, NEW type \in {"node", "other"},
             NEW low \in BOOLEAN, Edit(p, n, type, low)
      PROVE  FreshInv'
  BY <1>3, EditFresh
<1>4. ASSUME NEW far \in SUBSET DOMAIN m_unsent_map_edit_queue, ProcessEdits(far) PROVE FreshInv'
  BY <1>4, ProcessEditsFresh
<1>5. CASE HandleBlocks \/ ReceiveBlock \/ ReceiveNode
  BY <1>5, HandleBlocksFresh, ReceiveBlockFresh, ReceiveNodeFresh
<1>6. ASSUME HandleInteract PROVE FreshInv'
  BY <1>6, HandleInteractFresh
<1>7. ASSUME NEW p \in Block, NEW k \in 1 .. MaxOwed, Acknowledge(p, k) PROVE FreshInv'
  BY <1>7, AcknowledgeFresh
<1>8. ASSUME NEW p \in Block, Unload(p) \/ DispatchArrival(p) PROVE FreshInv'
  BY <1>8, UnloadFresh, DispatchArrivalFresh
<1>9. ASSUME NEW p \in Block, NEW n \in Node, Interact(p, n) PROVE FreshInv'
  BY <1>9, InteractFresh
<1>10. CASE \/ PauseOver \/ UNCHANGED vars
            \/ \E seen \in SUBSET Hideable : Move(seen)
            \/ \E p \in Block : Uncover(p) \/ BlockArrives(p)
  BY <1>10, OtherFresh
<1> QED
  BY <1>1, <1>2, <1>3, <1>4, <1>5, <1>6, <1>7, <1>8, <1>9, <1>10 DEF Next

LEMMA FreshIsSeen == TypeOK /\ FreshInv => StaleOnlyIfCrossed
<1> SUFFICES ASSUME TypeOK, FreshInv, NEW p \in client.m_blocks_sent \ crossed, Settled(p)
             PROVE  /\ world[p] # None
                    /\ \A n \in Node : world[p][n] = map[p][n] \/ <<p, n>> \in unreverted
  BY DEF StaleOnlyIfCrossed
<1>1. ClientOK(client)
  BY TypeParts
<1>2. p \in Known(client) /\ p \in Block
  BY <1>1 DEF Known, ClientOK, ClientState
<1>3. ~OnTheWay(p) /\ ~Deleted(p)
  BY DEF Settled, Deleted
<1>4. world[p] # None
  BY <1>2, <1>3 DEF FreshInv, HasIt
<1>5. ASSUME NEW n \in Node PROVE world[p][n] = map[p][n] \/ <<p, n>> \in unreverted
  <2>1. Located(p, n)
    BY <1>2 DEF FreshInv, Fresh
  <2>2. Now(p, n).p = p
    BY DEF Now
  <2>3. ~Noticed(p, n) /\ ~Told(p, n) /\ ~Sent(p, n)
    BY <2>2 DEF Settled, OnTheWay, Noticed, Told, Sent
  <2>4. \A m \in ToSet(to_server[0]) : m.p # p
    BY DEF Settled
  <2> QED
    BY <1>3, <2>1, <2>3, <2>4 DEF Located, Shown, Guessed
<1> QED
  BY <1>4, <1>5

(* What the server counts as sent, the client has as it is, once nothing   *)
(* is under way, but for guesses that the server lets stand, and unless a  *)
(* node change and a copy of the block have crossed since the last copy    *)
(* that came as the block then was.                                        *)
THEOREM StaleOnlyIfCrossedHolds == Spec => []StaleOnlyIfCrossed
<1>1. Spec => []FreshInv
  BY TypeCorrect, FreshInitially, FreshStays, PTL DEF Spec
<1> QED
  BY TypeCorrect, FreshIsSeen, <1>1, PTL
=============================================================================
