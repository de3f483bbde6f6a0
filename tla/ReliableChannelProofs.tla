------------------------ MODULE ReliableChannelProofs ------------------------
(***************************************************************************)
(* A reliable channel, for every size of the number space, every window    *)
(* and every traffic: first the two counters, then the whole channel.      *)
(*                                                                         *)
(* The theorems about the whole channel assume BacklogFits, a condition on *)
(* the constants: a command has to leave room in the number space for the  *)
(* packets queued before it.                                               *)
(***************************************************************************)
EXTENDS ReliableChannel, SeqNumProofs, FiniteSetTheorems, SequenceTheorems

(* What is needed of the rest of the state for the two counters to stay in *)
(* u16: no queued command is split into half a number space of chunks.     *)
Command == {c \in Seq(Chunk) : Len(c) \in ChunkCounts}
NumbersInv ==
    /\ next_outgoing_seqnum \in Seqnum
    /\ next_incoming_seqnum \in Seqnum
    /\ queued_commands \in Seq(Command)
    /\ submitted \in 0 .. MaxChunks

(* The loop over the chunks gets no more numbers than it asks for.         *)
LEMMA GrantedType ==
    ASSUME NEW n \in Nat
    PROVE  Granted(n) \in 0 .. n
<1> DEFINE S == {i \in 0 .. n - 1 :
                    \A j \in 0 .. i : HasSeqnum(Plus(next_outgoing_seqnum, j))}
<1>1. IsFiniteSet(0 .. n - 1) /\ Cardinality(0 .. n - 1) = n
  BY FS_Interval
<1>2. IsFiniteSet(S) /\ Cardinality(S) <= Cardinality(0 .. n - 1)
  BY <1>1, FS_Subset
<1>3. Cardinality(S) \in Nat
  BY <1>2, FS_CardinalityType
<1> QED
  BY <1>1, <1>2, <1>3 DEF Granted

(* processReliableSendCommand is all or nothing: it moves the counter past *)
(* all chunks, or it puts back exactly the numbers it has taken.           *)
LEMMA NumbersPutBack ==
    ASSUME NumbersInv, NEW n \in ChunkCounts
    PROVE  /\ SeqnumAfter(n) \in Seqnum
           /\ SeqnumAfter(n) = IF Granted(n) = n THEN Plus(next_outgoing_seqnum, n)
                               ELSE next_outgoing_seqnum
<1>1. n \in 0 .. MaxWindow /\ n \in Nat
  BY ChunkCountsAssumption, MaxWindowAssumption
<1>2. Granted(n) \in 0 .. MaxWindow
  BY <1>1, GrantedType, MaxWindowAssumption
<1>3. next_outgoing_seqnum \in Seqnum
  BY DEF NumbersInv
<1>4. CASE Granted(n) = n
  BY <1>1, <1>3, <1>4, ArithmeticType DEF SeqnumAfter
<1>5. CASE Granted(n) # n
  BY <1>2, <1>3, <1>5, PlusMinus DEF SeqnumAfter
<1> QED
  BY <1>4, <1>5

THEOREM NumbersInvariance == Spec => []NumbersInv
<1>1. Init => NumbersInv
  BY SeqnumInitialAssumption, BoundsAssumption DEF Init, NumbersInv
<1>2. NumbersInv /\ [Next]_vars => NumbersInv'
  <2> SUFFICES ASSUME NumbersInv, [Next]_vars
               PROVE  NumbersInv'
    OBVIOUS
  <2> 1 \in 0 .. MaxWindow
    BY MaxWindowAssumption
  <2>1. ASSUME NEW n \in ChunkCounts, Send(n)
        PROVE  NumbersInv'
    <3> DEFINE c == [i \in 1 .. n |-> submitted + i]
    <3>1. n \in Nat /\ submitted \in Nat /\ submitted + n <= MaxChunks
      BY <2>1, ChunkCountsAssumption, BoundsAssumption DEF Send, NumbersInv
    <3>2. c \in Seq(Chunk) /\ Len(c) = n
      BY <3>1, BoundsAssumption, IsASeq DEF Chunk
    <3>3. c \in Command
      BY <3>2 DEF Command
    <3>4. submitted' \in 0 .. MaxChunks /\ next_incoming_seqnum' = next_incoming_seqnum
      BY <2>1, <3>1, BoundsAssumption DEF Send, receiverVars
    <3>5. queued_commands' \in Seq(Command)
      <4>1. queued_commands' \in {<<>>, <<c>>, Append(queued_commands, c)}
        BY <2>1 DEF Send
      <4>2. <<c>> \in Seq(Command) /\ Append(queued_commands, c) \in Seq(Command)
        BY <3>3, AppendProperties DEF NumbersInv
      <4> QED
        BY <4>1, <4>2, EmptySeq
    <3>6. next_outgoing_seqnum' \in Seqnum
      <4>1. next_outgoing_seqnum' \in {next_outgoing_seqnum, SeqnumAfter(Len(c))}
        BY <2>1 DEF Send, ProcessReliableSendCommand
      <4> QED
        BY <4>1, <3>2, NumbersPutBack DEF NumbersInv
    <3> QED
      BY <3>4, <3>5, <3>6 DEF NumbersInv
  <2>2. ASSUME RunCommandQueues
        PROVE  NumbersInv'
    <3> DEFINE c == Head(queued_commands)
    <3>1. c \in Command /\ Tail(queued_commands) \in Seq(Command)
      BY <2>2, HeadTailProperties DEF RunCommandQueues, NumbersInv
    <3>2. Len(c) \in ChunkCounts
      BY <3>1 DEF Command
    <3>3. next_outgoing_seqnum' = SeqnumAfter(Len(c))
      BY <2>2 DEF RunCommandQueues, ProcessReliableSendCommand
    <3>4. queued_commands' \in Seq(Command)
      BY <2>2, <3>1 DEF RunCommandQueues, NumbersInv
    <3> QED
      BY <2>2, <3>2, <3>3, <3>4, NumbersPutBack
         DEF RunCommandQueues, receiverVars, NumbersInv
  <2>3. CASE SendPackets
    BY <2>3 DEF SendPackets, receiverVars, NumbersInv
  <2>4. CASE RawSendAsPacket
    BY <2>4, ArithmeticType DEF RawSendAsPacket, receiverVars, NumbersInv
  <2>5. ASSUME NEW pos \in Position, ResendReliable(pos)
        PROVE  NumbersInv'
    BY <2>5 DEF ResendReliable, senderVars, receiverVars, NumbersInv
  <2>6. CASE UpdateTimers
    BY <2>6 DEF UpdateTimers, receiverVars, NumbersInv
  <2>7. ASSUME NEW pos \in Position, ReceiveAck(pos)
        PROVE  NumbersInv'
    BY <2>7 DEF ReceiveAck, receiverVars, NumbersInv
  <2>8. CASE CheckIncomingBuffers
    BY <2>8, ArithmeticType DEF CheckIncomingBuffers, HandOn, senderVars, NumbersInv
  <2>9. ASSUME NEW pos \in Position, ReceiveReliable(pos)
        PROVE  NumbersInv'
    <3>1. next_incoming_seqnum' \in {next_incoming_seqnum, Plus(next_incoming_seqnum, 1)}
      BY <2>9 DEF ReceiveReliable, HandOn, receiverVars
    <3>2. UNCHANGED senderVars
      BY <2>9 DEF ReceiveReliable
    <3> QED
      BY <3>1, <3>2, ArithmeticType DEF senderVars, NumbersInv
  <2>10. CASE Lose
    BY <2>10 DEF Lose, senderVars, receiverVars, NumbersInv
  <2>11. CASE UNCHANGED vars
    BY <2>11 DEF vars, senderVars, receiverVars, NumbersInv
  <2> QED
    BY <2>1, <2>2, <2>3, <2>4, <2>5, <2>6, <2>7, <2>8, <2>9, <2>10, <2>11 DEF Next
<1> QED
  BY <1>1, <1>2, PTL DEF Spec

(* Wherever the channel is in the number space, the comparisons agree with *)
(* the distance.                                                           *)
THEOREM ComparisonsCorrect == Spec => []ComparisonsAgree
<1>1. NumbersInv => ComparisonsAgree
  BY HigherLemma, WindowLemma DEF NumbersInv, ComparisonsAgree
<1> QED
  BY <1>1, NumbersInvariance, PTL

(* Whatever number arrives at any time, exactly one case of the receive    *)
(* handler applies, and only a packet already passed counts as old.        *)
THEOREM AlwaysClassified == Spec => []EveryPacketClassified
<1>1. NumbersInv => EveryPacketClassified
  BY ClassificationLemma DEF NumbersInv, EveryPacketClassified
<1> QED
  BY <1>1, NumbersInvariance, PTL

-----------------------------------------------------------------------------
(* The number of the packet numbered pos-th on the channel.  pos may be    *)
(* zero or negative where a window reaches back behind the first packet.   *)
SeqnumOf(pos) == (SeqnumInitial + pos - 1) % SeqnumCount

(* A remainder that moves on by less than the modulus wraps at most once.  *)
LEMMA ModJump ==
    ASSUME NEW m \in Nat, m > 0, NEW x \in Int, NEW d \in 0 .. m - 1
    PROVE  /\ x % m \in 0 .. m - 1
           /\ (x + d) % m = IF (x % m) + d >= m THEN (x % m) + d - m ELSE (x % m) + d
<1> DEFINE r == x % m
           q == x \div m
           s == (x + d) % m
           t == (x + d) \div m
<1>1. r \in 0 .. m - 1 /\ q \in Int /\ x = m * q + r
  BY Z3
<1>2. s \in 0 .. m - 1 /\ t \in Int /\ x + d = m * t + s
  BY Z3
<1> HIDE DEF r, q, s, t
<1>3. PICK k \in Int : k = t - q
  BY <1>1, <1>2
<1>4. m * k = r + d - s
  BY <1>1, <1>2, <1>3
<1>5. k \in {0, 1}
  <2>1. ASSUME k >= 2 PROVE FALSE
    <3>1. m * k >= m * 2
      BY <2>1
    <3> QED
      BY <3>1, <1>1, <1>2, <1>4
  <2>2. ASSUME k <= -1 PROVE FALSE
    <3>1. m * k <= -m
      BY <2>2
    <3> QED
      BY <3>1, <1>1, <1>2, <1>4
  <2> QED
    BY <2>1, <2>2
<1>6. s = IF r + d >= m THEN r + d - m ELSE r + d
  BY <1>1, <1>2, <1>4, <1>5
<1> QED
  BY <1>1, <1>6 DEF r, s

(* getOutgoingSequenceNumber counts through the positions.                 *)
LEMMA SeqnumOfPlus ==
    ASSUME NEW pos \in Int, NEW d \in 0 .. SeqnumCount - 1
    PROVE  /\ SeqnumOf(pos) \in Seqnum
           /\ SeqnumOf(pos + d) = Wrap(SeqnumOf(pos) + d)
<1> DEFINE x == SeqnumInitial + pos - 1
<1>1. SeqnumCount \in Nat /\ SeqnumCount > 0
  BY MaxWindowAssumption DEF SeqnumCount
<1>2. x \in Int
  BY SeqnumInitialAssumption, <1>1 DEF Seqnum
<1>3. SeqnumInitial + (pos + d) - 1 = x + d
  BY SeqnumInitialAssumption, <1>1 DEF Seqnum
<1> HIDE DEF x
<1>4. x % SeqnumCount \in 0 .. SeqnumCount - 1
  BY <1>1, <1>2, ModJump
<1>5. (x + d) % SeqnumCount = IF (x % SeqnumCount) + d >= SeqnumCount
                              THEN (x % SeqnumCount) + d - SeqnumCount ELSE (x % SeqnumCount) + d
  BY <1>1, <1>2, ModJump
<1>6. SeqnumOf(pos) = x % SeqnumCount
  BY DEF SeqnumOf, x
<1>7. SeqnumOf(pos + d) = (x + d) % SeqnumCount
  BY <1>3 DEF SeqnumOf
<1> QED
  BY <1>1, <1>4, <1>5, <1>6, <1>7 DEF Seqnum, Wrap

(* The first packet gets SEQNUM_INITIAL.                                   *)
LEMMA SeqnumOfFirst == SeqnumOf(1) = SeqnumInitial
<1>1. SeqnumInitial \in 0 .. SeqnumCount - 1 /\ SeqnumCount \in Nat /\ SeqnumCount > 0
  BY SeqnumInitialAssumption, MaxWindowAssumption DEF Seqnum, SeqnumCount
<1>2. (0 + SeqnumInitial) % SeqnumCount = SeqnumInitial
  <2>1. 0 % SeqnumCount = 0
    BY <1>1, Z3
  <2>2. (0 + SeqnumInitial) % SeqnumCount =
            IF (0 % SeqnumCount) + SeqnumInitial >= SeqnumCount
            THEN (0 % SeqnumCount) + SeqnumInitial - SeqnumCount
            ELSE (0 % SeqnumCount) + SeqnumInitial
    <3>1. 0 \in Int
      OBVIOUS
    <3> QED
      BY <3>1, <1>1, ModJump
  <2> QED
    BY <2>1, <2>2, <1>1
<1>3. SeqnumInitial + 1 - 1 = 0 + SeqnumInitial
  BY <1>1
<1> QED
  BY <1>2, <1>3 DEF SeqnumOf

(* The distance of two numbers is that of the packets, while these are     *)
(* less than the number space apart; then equal numbers mean the same      *)
(* packet.                                                                 *)
LEMMA SeqnumOfDistance ==
    ASSUME NEW a \in Int, NEW b \in Int, b - a \in 0 .. SeqnumCount - 1
    PROVE  /\ SeqnumOf(a) \in Seqnum /\ SeqnumOf(b) \in Seqnum
           /\ Distance(SeqnumOf(a), SeqnumOf(b)) = b - a
           /\ SeqnumOf(a) = SeqnumOf(b) <=> a = b
<1>1. SeqnumOf(a + (b - a)) = Wrap(SeqnumOf(a) + (b - a)) /\ SeqnumOf(a) \in Seqnum
  BY SeqnumOfPlus
<1>2. a + (b - a) = b
  OBVIOUS
<1>3. SeqnumOf(b) \in Seqnum
  BY SeqnumOfPlus, MaxWindowAssumption DEF SeqnumCount
<1> QED
  BY <1>1, <1>2, <1>3, MaxWindowAssumption
     DEF Seqnum, SeqnumCount, Wrap, Distance, Minus

(* Counting back from a number, by at most half the number space.          *)
LEMMA SeqnumOfMinus ==
    ASSUME NEW pos \in Int, NEW d \in 0 .. MaxWindow
    PROVE  Minus(SeqnumOf(pos), d) = SeqnumOf(pos - d)
<1>1. SeqnumOf((pos - d) + d) = Wrap(SeqnumOf(pos - d) + d) /\ SeqnumOf(pos - d) \in Seqnum
  BY SeqnumOfPlus, MaxWindowAssumption DEF SeqnumCount
<1>2. (pos - d) + d = pos
  BY MaxWindowAssumption
<1> QED
  BY <1>1, <1>2, MaxWindowAssumption DEF Seqnum, SeqnumCount, Wrap, Minus

(* The comparison in insert: counted from next_expected, it walks past     *)
(* exactly the older packets, wherever the numbers wrap around.            *)
LEMMA PrecedesLemma ==
    ASSUME NEW b \in Int, NEW a \in b .. b + SeqnumCount - 1,
           NEW p \in b .. b + SeqnumCount - 1
    PROVE  Precedes(SeqnumOf(a), SeqnumOf(p), SeqnumOf(b)) <=> a < p
<1>1. /\ SeqnumOf(b + (a - b)) = Wrap(SeqnumOf(b) + (a - b))
      /\ SeqnumOf(b + (p - b)) = Wrap(SeqnumOf(b) + (p - b))
      /\ SeqnumOf(b) \in Seqnum
  <2>1. a - b \in 0 .. SeqnumCount - 1 /\ p - b \in 0 .. SeqnumCount - 1
    BY MaxWindowAssumption DEF SeqnumCount
  <2> QED
    BY <2>1, SeqnumOfPlus
<1>2. b + (a - b) = a /\ b + (p - b) = p
  BY MaxWindowAssumption DEF SeqnumCount
<1> QED
  BY <1>1, <1>2, MaxWindowAssumption DEF Precedes, Seqnum, SeqnumCount, Wrap

(* seqnum_in_window: the window is the next MaxWindow packets.             *)
LEMMA WindowOf ==
    ASSUME NEW b \in Int, NEW p \in b .. b + SeqnumCount - 1
    PROVE  InWindow(SeqnumOf(p), SeqnumOf(b)) <=> p < b + MaxWindow
<1>1. p - b \in 0 .. SeqnumCount - 1 /\ p \in Int /\ MaxWindow \in 1 .. MaxWindow
  BY MaxWindowAssumption DEF SeqnumCount
<1>2. /\ SeqnumOf(b) \in Seqnum /\ SeqnumOf(p) \in Seqnum
      /\ Distance(SeqnumOf(b), SeqnumOf(p)) = p - b
  BY <1>1, SeqnumOfDistance
<1>3. WindowIsDistance(SeqnumOf(p), SeqnumOf(b), MaxWindow)
  BY <1>1, <1>2, WindowLemma
<1> QED
  BY <1>1, <1>2, <1>3, MaxWindowAssumption DEF WindowIsDistance, InWindow

(* A list of packets in the order of numbering, with positions from lo to  *)
(* hi and the numbers that belong to them.  Both buffers and the queue are *)
(* such lists.                                                             *)
Numbered(list, lo, hi) ==
    /\ list \in Seq(Packet) /\ Ascending(list)
    /\ \A i \in DOMAIN list : list[i].pos \in lo .. hi /\ list[i].seq = SeqnumOf(list[i].pos)

(* The list operation behind list::insert.                                 *)
LEMMA InsertAtProperties ==
    ASSUME NEW S, NEW list \in Seq(S), NEW e \in S, NEW place \in 1 .. Len(list)
    PROVE  /\ InsertAt(list, place, e) \in Seq(S)
           /\ Len(InsertAt(list, place, e)) = Len(list) + 1
           /\ \A k \in 1 .. Len(list) + 1 :
                 InsertAt(list, place, e)[k] =
                    IF k < place THEN list[k] ELSE IF k = place THEN e ELSE list[k - 1]
<1> DEFINE front == SubSeq(list, 1, place - 1)
           back == SubSeq(list, place, Len(list))
<1>1. /\ front \in Seq(S) /\ Len(front) = place - 1
      /\ \A i \in 1 .. place - 1 : front[i] = list[i]
  BY SubSeqProperties
<1>2. /\ back \in Seq(S) /\ Len(back) = Len(list) - place + 1
      /\ \A i \in 1 .. Len(list) - place + 1 : back[i] = list[place + i - 1]
  BY SubSeqProperties
<1>3. InsertAt(list, place, e) = (front \o <<e>>) \o back
  BY DEF InsertAt
<1> HIDE DEF front, back
<1>4. <<e>> \in Seq(S) /\ Len(<<e>>) = 1 /\ <<e>>[1] = e
  OBVIOUS
<1>5. /\ front \o <<e>> \in Seq(S) /\ Len(front \o <<e>>) = place
      /\ \A i \in 1 .. place : (front \o <<e>>)[i] = IF i < place THEN list[i] ELSE e
  BY <1>1, <1>4, ConcatProperties
<1> HIDE <1>4
<1>6. /\ (front \o <<e>>) \o back \in Seq(S)
      /\ Len((front \o <<e>>) \o back) = place + (Len(list) - place + 1)
      /\ \A i \in 1 .. place + (Len(list) - place + 1) : ((front \o <<e>>) \o back)[i] =
            IF i <= place THEN (front \o <<e>>)[i] ELSE back[i - place]
  <2> DEFINE first == front \o <<e>>
  <2>1. first \in Seq(S) /\ Len(first) = place
    BY <1>5
  <2>2. back \in Seq(S) /\ Len(back) = Len(list) - place + 1
    BY <1>2
  <2> HIDE DEF first
  <2>3. /\ first \o back \in Seq(S)
        /\ Len(first \o back) = Len(first) + Len(back)
        /\ \A i \in 1 .. Len(first) + Len(back) :
              (first \o back)[i] = IF i <= Len(first) THEN first[i] ELSE back[i - Len(first)]
    BY <2>1, <2>2, ConcatProperties
  <2> QED
    BY <2>1, <2>2, <2>3 DEF first
<1>7. ASSUME NEW k \in 1 .. Len(list) + 1
      PROVE  ((front \o <<e>>) \o back)[k] =
                IF k < place THEN list[k] ELSE IF k = place THEN e ELSE list[k - 1]
  <2>1. k \in 1 .. place + (Len(list) - place + 1)
    OBVIOUS
  <2>2. CASE k <= place
    BY <2>1, <2>2, <1>5, <1>6
  <2>3. CASE k > place
    <3>1. k - place \in 1 .. Len(list) - place + 1 /\ place + (k - place) - 1 = k - 1
      BY <2>3
    <3>2. back[k - place] = list[place + (k - place) - 1]
      BY <3>1, <1>2
    <3> QED
      BY <2>1, <2>3, <3>1, <3>2, <1>6
  <2>4. k <= place \/ k > place
    OBVIOUS
  <2> HIDE DEF front, back
  <2> QED
    BY <2>2, <2>3, <2>4
<1> QED
  BY <1>3, <1>6, <1>7

(* The list operation behind list::erase.                                  *)
LEMMA RemoveAtProperties ==
    ASSUME NEW S, NEW list \in Seq(S), NEW place \in 1 .. Len(list)
    PROVE  /\ RemoveAt(list, place) \in Seq(S)
           /\ Len(RemoveAt(list, place)) = Len(list) - 1
           /\ \A k \in 1 .. Len(list) - 1 :
                 RemoveAt(list, place)[k] = IF k < place THEN list[k] ELSE list[k + 1]
<1> DEFINE front == SubSeq(list, 1, place - 1)
           back == SubSeq(list, place + 1, Len(list))
<1>1. /\ front \in Seq(S) /\ Len(front) = place - 1
      /\ \A i \in 1 .. place - 1 : front[i] = list[i]
  BY SubSeqProperties
<1>2. /\ back \in Seq(S) /\ Len(back) = Len(list) - place
      /\ \A i \in 1 .. Len(list) - place : back[i] = list[place + i]
  <2>1. place + 1 \in Int /\ Len(list) \in Int /\ \A i \in place + 1 .. Len(list) : list[i] \in S
    OBVIOUS
  <2> QED
    BY <2>1, SubSeqProperties
<1>3. RemoveAt(list, place) = front \o back
  BY DEF RemoveAt
<1> HIDE DEF front, back
<1>4. /\ front \o back \in Seq(S)
      /\ Len(front \o back) = (place - 1) + (Len(list) - place)
      /\ \A i \in 1 .. (place - 1) + (Len(list) - place) : (front \o back)[i] =
            IF i <= place - 1 THEN front[i] ELSE back[i - (place - 1)]
  <2>1. /\ front \o back \in Seq(S)
        /\ Len(front \o back) = Len(front) + Len(back)
        /\ \A i \in 1 .. Len(front) + Len(back) : (front \o back)[i] =
              IF i <= Len(front) THEN front[i] ELSE back[i - Len(front)]
    BY <1>1, <1>2, ConcatProperties
  <2> QED
    BY <2>1, <1>1, <1>2
<1> QED
  BY <1>1, <1>2, <1>3, <1>4

(* An element of a list of packets is a packet.                            *)
LEMMA PacketOf ==
    ASSUME NEW list \in Seq(Packet), NEW k \in 1 .. Len(list)
    PROVE  list[k] \in Packet /\ list[k].pos \in Position /\ list[k].pos \in Nat
<1>1. list[k] \in Packet
  BY ElementOfSeq
<1> QED
  BY <1>1, BoundsAssumption DEF Packet, Position

(* An ascending list has as many positions as elements.                    *)
LEMMA PositionsCount ==
    ASSUME NEW list \in Seq(Packet), Ascending(list)
    PROVE  IsFiniteSet(Positions(list)) /\ Cardinality(Positions(list)) = Len(list)
<1> DEFINE f == [k \in 1 .. Len(list) |-> list[k].pos]
<1>1. \A k \in 1 .. Len(list) : list[k].pos \in Int
  BY PacketOf
<1>2. Positions(list) = {list[k].pos : k \in 1 .. Len(list)}
  BY LenProperties DEF Positions
<1>3. f \in Bijection(1 .. Len(list), Positions(list))
  <2>1. \A k, l \in 1 .. Len(list) : list[k].pos = list[l].pos => k = l
    BY <1>1 DEF Ascending
  <2>2. f \in Injection(1 .. Len(list), Positions(list))
    <3>1. f \in [1 .. Len(list) -> Positions(list)]
      BY <1>2
    <3>2. \A k, l \in 1 .. Len(list) : f[k] = f[l] => k = l
      BY <2>1
    <3> HIDE DEF f
    <3> QED
      BY <3>1, <3>2 DEF Injection, IsInjective
  <2>3. f \in Surjection(1 .. Len(list), Positions(list))
    BY <1>2 DEF Surjection
  <2> QED
    BY <2>2, <2>3 DEF Bijection
<1>4. IsFiniteSet(1 .. Len(list)) /\ Cardinality(1 .. Len(list)) = Len(list)
  <2>1. Len(list) \in Nat
    BY LenProperties
  <2>2. Len(list) - 1 + 1 = Len(list) /\ 1 \in Int /\ Len(list) \in Int
    BY <2>1
  <2>3. /\ IsFiniteSet(1 .. Len(list))
        /\ Cardinality(1 .. Len(list)) = IF 1 > Len(list) THEN 0 ELSE Len(list) - 1 + 1
    <3> HIDE DEF f
    <3> QED
      BY <2>2, FS_Interval
  <2> QED
    BY <2>1, <2>3
<1> QED
  BY <1>3, <1>4, FS_Bijection DEF ExistsBijection

(* A set of natural numbers that is not empty has a least element.         *)
LEMMA Least ==
    ASSUME NEW S \in SUBSET Nat, S # {}
    PROVE  \E n \in S : \A m \in S : n <= m
<1> DEFINE R == StrictSubsetOrdering(Nat)
           T == {1 .. n : n \in S}
<1>1. IsWellFoundedOn(R, FiniteSubsetsOf(Nat))
  BY FS_StrictSubsetOrderingWellFounded
<1>2. T \subseteq FiniteSubsetsOf(Nat) /\ T # {}
  <2>1. ASSUME NEW n \in S PROVE 1 .. n \in FiniteSubsetsOf(Nat)
    <3>1. n \in Nat /\ 1 .. n \in SUBSET Nat
      OBVIOUS
    <3>2. IsFiniteSet(1 .. n)
      BY <3>1, FS_Interval
    <3> QED
      BY <3>1, <3>2 DEF FiniteSubsetsOf
  <2>2. PICK k \in S : TRUE
    OBVIOUS
  <2>3. 1 .. k \in T
    OBVIOUS
  <2> QED
    BY <2>1, <2>3
<1>3. PICK X \in T : \A Y \in T : ~(<<Y, X>> \in R)
  <2> HIDE DEF R, T
  <2> QED
    BY <1>1, <1>2, WFMin
<1>4. PICK n \in S : X = 1 .. n
  OBVIOUS
<1>5. ASSUME NEW m \in S, m < n PROVE FALSE
  <2>1. 1 .. m \subseteq 1 .. n /\ n \in 1 .. n /\ n \notin 1 .. m
    BY <1>5
  <2>2. <<1 .. m, 1 .. n>> \in R
    BY <2>1, <1>2, <1>4 DEF StrictSubsetOrdering, FiniteSubsetsOf
  <2> QED
    BY <1>3, <1>4, <2>2
<1> QED
  BY <1>5

(* insert puts a packet where it belongs, or leaves the list alone when    *)
(* the packet is there: in either case its position is in the list, and    *)
(* the list is still sorted.  lo is the position of next_expected.         *)
LEMMA InsertLemma ==
    ASSUME NEW lo \in Int, NEW list, NEW p \in Packet,
           Numbered(list, lo, lo + MaxWindow - 1),
           p.pos \in lo + 1 .. lo + MaxWindow - 1, p.seq = SeqnumOf(p.pos)
    PROVE  /\ Numbered(Insert(list, p, SeqnumOf(lo)), lo, lo + MaxWindow - 1)
           /\ Positions(Insert(list, p, SeqnumOf(lo))) = Positions(list) \cup {p.pos}
<1> DEFINE hi == lo + MaxWindow - 1
           n == Len(list)
           stops == {i \in DOMAIN list : ~Precedes(list[i].seq, p.seq, SeqnumOf(lo))}
           place == CHOOSE i \in stops : \A j \in stops : i <= j
<1>1. /\ list \in Seq(Packet) /\ n \in Nat /\ DOMAIN list = 1 .. n
      /\ \A i \in 1 .. n : list[i].pos \in lo .. hi /\ list[i].seq = SeqnumOf(list[i].pos)
      /\ \A i, j \in 1 .. n : i < j => list[i].pos < list[j].pos
  BY LenProperties DEF Numbered, Ascending
<1>2. MaxWindow \in Nat /\ MaxWindow > 0 /\ SeqnumCount \in Nat /\ hi \in Int /\ hi < lo + SeqnumCount - 1 /\ p.pos \in lo .. hi
  BY MaxWindowAssumption DEF SeqnumCount
<1>3. p.pos \in lo .. lo + SeqnumCount - 1 /\ lo \in lo .. lo + SeqnumCount - 1
  BY <1>2
<1>4. seqnum_in_window(p.seq, SeqnumOf(lo), MaxWindow)
  BY <1>2, <1>3, WindowOf DEF InWindow
<1>5. p.seq # SeqnumOf(lo)
  <2>1. p.pos \in Int /\ p.pos - lo \in 0 .. SeqnumCount - 1 /\ p.pos # lo
    BY <1>2
  <2> QED
    BY <2>1, SeqnumOfDistance
<1>6. \A i \in 1 .. n : Precedes(list[i].seq, p.seq, SeqnumOf(lo)) <=> list[i].pos < p.pos
  <2> SUFFICES ASSUME NEW i \in 1 .. n
               PROVE  Precedes(list[i].seq, p.seq, SeqnumOf(lo)) <=> list[i].pos < p.pos
    OBVIOUS
  <2>1. list[i].pos \in lo .. lo + SeqnumCount - 1
    BY <1>1, <1>2 DEF hi
  <2> QED
    BY <2>1, <1>1, <1>3, PrecedesLemma
<1>7. stops = {i \in 1 .. n : list[i].pos >= p.pos}
  BY <1>1, <1>2, <1>6
<1> HIDE DEF hi, n
<1>8. CASE stops = {}
  <2>1. Insert(list, p, SeqnumOf(lo)) = Append(list, p)
    BY <1>4, <1>5, <1>8 DEF Insert
  <2> DEFINE r == Append(list, p)
  <2>2. /\ r \in Seq(Packet) /\ Len(r) = n + 1 /\ DOMAIN r = 1 .. n + 1
        /\ \A i \in 1 .. n : r[i] = list[i]
        /\ r[n + 1] = p
    <3>1. r \in Seq(Packet) /\ Len(r) = n + 1 /\ (\A i \in 1 .. n : r[i] = list[i]) /\ r[n + 1] = p
      BY <1>1, AppendProperties DEF n
    <3> QED
      BY <3>1, LenProperties
  <2>3. \A i \in 1 .. n : list[i].pos < p.pos
    BY <1>1, <1>2, <1>7, <1>8
  <2> HIDE DEF r, stops, place
  <2>4. Numbered(r, lo, hi)
    <3>1. Ascending(r)
      <4> SUFFICES ASSUME NEW i \in 1 .. n + 1, NEW j \in 1 .. n + 1, i < j
                   PROVE  r[i].pos < r[j].pos
        BY <2>2 DEF Ascending
      <4>1. CASE j = n + 1
        BY <4>1, <1>1, <2>2, <2>3
      <4>2. CASE j # n + 1
        BY <4>2, <1>1, <2>2
      <4> QED
        BY <4>1, <4>2
    <3>2. ASSUME NEW i \in 1 .. n + 1
          PROVE  r[i].pos \in lo .. hi /\ r[i].seq = SeqnumOf(r[i].pos)
      <4>1. CASE i = n + 1
        BY <4>1, <1>2, <2>2
      <4>2. CASE i # n + 1
        BY <4>2, <1>1, <2>2
      <4> QED
        BY <4>1, <4>2
    <3> QED
      BY <2>2, <3>1, <3>2 DEF Numbered
  <2>5. Positions(r) = Positions(list) \cup {p.pos}
    <3>1. Positions(r) = {r[i].pos : i \in 1 .. n + 1} /\ Positions(list) = {list[i].pos : i \in 1 .. n}
      BY <1>1, <2>2 DEF Positions
    <3>2. 1 .. n + 1 = (1 .. n) \cup {n + 1}
      BY <1>1
    <3> QED
      BY <2>2, <3>1, <3>2
  <2> QED
    BY <2>1, <2>4, <2>5 DEF hi, r
<1>9. CASE stops # {}
  <2>1. /\ place \in 1 .. n /\ list[place].pos >= p.pos
        /\ \A j \in 1 .. n : list[j].pos >= p.pos => place <= j
    <3>1. stops \subseteq Nat
      BY <1>1, <1>7
    <3>2. \E i \in stops : \A j \in stops : i <= j
      <4> HIDE DEF stops
      <4> QED
        BY <3>1, <1>9, Least
    <3>3. place \in stops /\ \A j \in stops : place <= j
      <4> HIDE DEF stops
      <4> QED
        BY <3>2 DEF place
    <3> QED
      BY <3>3, <1>7
  <2>2. Insert(list, p, SeqnumOf(lo)) =
            IF list[place].seq = p.seq THEN list ELSE InsertAt(list, place, p)
    BY <1>4, <1>5, <1>9 DEF Insert
  <2> HIDE DEF stops, place
  <2>3. \A i \in 1 .. n : i < place => list[i].pos < p.pos
    BY <1>1, <1>2, <2>1
  <2>4. list[place].seq = p.seq <=> list[place].pos = p.pos
    <3>1. list[place].pos - p.pos \in 0 .. SeqnumCount - 1 /\ list[place].pos \in Int /\ p.pos \in Int
      BY <1>1, <1>2, <2>1 DEF hi
    <3> QED
      BY <1>1, <2>1, <3>1, SeqnumOfDistance
  <2>5. CASE list[place].pos = p.pos
    <3>1. p.pos \in Positions(list)
      BY <1>1, <2>1, <2>5 DEF Positions
    <3>2. Insert(list, p, SeqnumOf(lo)) = list
      BY <2>2, <2>4, <2>5
    <3> QED
      BY <3>1, <3>2
  <2>6. CASE list[place].pos # p.pos
    <3> DEFINE r == InsertAt(list, place, p)
    <3>1. Insert(list, p, SeqnumOf(lo)) = r
      BY <2>2, <2>4, <2>6
    <3>2. /\ r \in Seq(Packet) /\ Len(r) = n + 1 /\ DOMAIN r = 1 .. n + 1
          /\ \A k \in 1 .. n + 1 :
                r[k] = IF k < place THEN list[k] ELSE IF k = place THEN p ELSE list[k - 1]
      <4>1. /\ r \in Seq(Packet) /\ Len(r) = n + 1
            /\ \A k \in 1 .. n + 1 :
                r[k] = IF k < place THEN list[k] ELSE IF k = place THEN p ELSE list[k - 1]
        <5>1. place \in 1 .. Len(list) /\ list \in Seq(Packet)
          BY <1>1, <2>1 DEF n
        <5>2. /\ InsertAt(list, place, p) \in Seq(Packet)
              /\ Len(InsertAt(list, place, p)) = Len(list) + 1
              /\ \A k \in 1 .. Len(list) + 1 :
                    InsertAt(list, place, p)[k] =
                        IF k < place THEN list[k] ELSE IF k = place THEN p ELSE list[k - 1]
          <6> HIDE DEF r
          <6> QED
            BY <5>1, InsertAtProperties
        <5> QED
          BY <5>2 DEF n
      <4> QED
        BY <4>1, LenProperties
    <3> HIDE DEF r
    <3>3. list[place].pos > p.pos
      BY <1>1, <1>2, <2>1, <2>6
    <3>4. \A i \in 1 .. n : i >= place => list[i].pos > p.pos
      BY <1>1, <1>2, <2>1, <3>3
    <3>5. Ascending(r)
      <4> SUFFICES ASSUME NEW i \in 1 .. n + 1, NEW j \in 1 .. n + 1, i < j
                   PROVE  r[i].pos < r[j].pos
        BY <3>2 DEF Ascending
      <4>1. CASE j < place
        BY <4>1, <1>1, <3>2, <2>1
      <4>2. CASE j = place
        BY <4>2, <1>1, <3>2, <2>1, <2>3
      <4>3. CASE j > place /\ i < place
        <5>1. r[i] = list[i] /\ r[j] = list[j - 1] /\ i \in 1 .. n /\ j - 1 \in 1 .. n /\ i < j - 1
          BY <4>3, <3>2, <2>1, <1>1
        <5> QED
          BY <5>1, <1>1
      <4>4. CASE i = place
        <5>1. r[i] = p /\ r[j] = list[j - 1] /\ j - 1 \in 1 .. n /\ j - 1 >= place
          BY <4>4, <3>2, <2>1, <1>1
        <5> QED
          BY <5>1, <3>4, <1>2
      <4>5. CASE i > place
        <5>1. /\ r[i] = list[i - 1] /\ r[j] = list[j - 1]
              /\ i - 1 \in 1 .. n /\ j - 1 \in 1 .. n /\ i - 1 < j - 1
          BY <4>5, <3>2, <2>1, <1>1
        <5> QED
          BY <5>1, <1>1
      <4> QED
        BY <4>1, <4>2, <4>3, <4>4, <4>5, <2>1, <1>1
    <3>6. ASSUME NEW i \in 1 .. n + 1
          PROVE  r[i].pos \in lo .. hi /\ r[i].seq = SeqnumOf(r[i].pos)
      <4>1. r[i] = p \/ \E k \in 1 .. n : r[i] = list[k]
        <5>1. i < place => i \in 1 .. n
          BY <2>1, <1>1
        <5>2. i > place => i - 1 \in 1 .. n
          BY <2>1, <1>1
        <5> QED
          BY <5>1, <5>2, <3>2, <2>1, <1>1
      <4> QED
        BY <4>1, <1>1, <1>2
    <3>7. Numbered(r, lo, hi)
      BY <3>2, <3>5, <3>6 DEF Numbered
    <3>8. Positions(r) = Positions(list) \cup {p.pos}
      <4>1. Positions(r) = {r[i].pos : i \in 1 .. n + 1} /\ Positions(list) = {list[i].pos : i \in 1 .. n}
        BY <1>1, <3>2 DEF Positions
      <4>2. ASSUME NEW i \in 1 .. n + 1
            PROVE  r[i].pos \in Positions(list) \cup {p.pos}
        <5>1. i < place => i \in 1 .. n
          BY <2>1, <1>1
        <5>2. i > place => i - 1 \in 1 .. n
          BY <2>1, <1>1
        <5> QED
          BY <5>1, <5>2, <4>1, <3>2, <2>1, <1>1
      <4>3. ASSUME NEW i \in 1 .. n
            PROVE  \E k \in 1 .. n + 1 : r[k] = list[i]
        <5>1. CASE i < place
          BY <5>1, <3>2, <1>1
        <5>2. CASE i >= place
          <6>1. i + 1 \in 1 .. n + 1 /\ ~(i + 1 < place) /\ i + 1 # place /\ (i + 1) - 1 = i
            BY <5>2, <1>1, <2>1
          <6>2. r[i + 1] = list[i]
            BY <6>1, <3>2
          <6> QED
            BY <6>1, <6>2
        <5> QED
          BY <5>1, <5>2, <2>1
      <4>4. r[place] = p /\ place \in 1 .. n + 1
        BY <3>2, <2>1, <1>1
      <4> QED
        BY <4>1, <4>2, <4>3, <4>4
    <3> QED
      BY <3>1, <3>7, <3>8 DEF hi
  <2> QED
    BY <2>5, <2>6
<1> QED
  BY <1>8, <1>9

(* What it means to be Numbered, element by element.                       *)
LEMMA NumberedBounds ==
    ASSUME NEW list, NEW lo \in Int, NEW hi \in Int, Numbered(list, lo, hi)
    PROVE  /\ list \in Seq(Packet) /\ Len(list) \in Nat /\ DOMAIN list = 1 .. Len(list)
           /\ \A i \in 1 .. Len(list) :
                 /\ list[i] \in Packet /\ list[i].pos \in lo .. hi
                 /\ list[i].seq = SeqnumOf(list[i].pos)
           /\ \A i, j \in 1 .. Len(list) : i < j => list[i].pos < list[j].pos
           /\ Positions(list) = {list[i].pos : i \in 1 .. Len(list)}
           /\ Positions(list) \subseteq lo .. hi
BY LenProperties, ElementOfSeq DEF Numbered, Ascending, Positions

(* The bounds of a list may be replaced by any that hold.                  *)
LEMMA NumberedWithin ==
    ASSUME NEW list, NEW lo \in Int, NEW hi \in Int, Numbered(list, lo, hi),
           NEW a \in Int, NEW b \in Int, \A pos \in Positions(list) : pos \in a .. b
    PROVE  Numbered(list, a, b)
BY NumberedBounds DEF Numbered, Positions

(* The empty list.                                                         *)
LEMMA NumberedEmpty ==
    ASSUME NEW lo, NEW hi
    PROVE  Numbered(<<>>, lo, hi) /\ Positions(<<>>) = {}
BY DEF Numbered, Ascending, Positions

(* Queueing the packets of one command behind those of another.            *)
LEMMA NumberedConcat ==
    ASSUME NEW lo \in Int, NEW mid \in Int, NEW hi \in Int, lo <= mid + 1, mid <= hi,
           NEW s, NEW t, Numbered(s, lo, mid), Numbered(t, mid + 1, hi)
    PROVE  /\ Numbered(s \o t, lo, hi)
           /\ Positions(s \o t) = Positions(s) \cup Positions(t)
           /\ Len(s \o t) = Len(s) + Len(t)
<1> DEFINE r == s \o t
           m == Len(s)
           n == Len(t)
<1>1. /\ s \in Seq(Packet) /\ m \in Nat
      /\ \A i \in 1 .. m : s[i] \in Packet /\ s[i].pos \in lo .. mid /\ s[i].seq = SeqnumOf(s[i].pos)
      /\ \A i, j \in 1 .. m : i < j => s[i].pos < s[j].pos
      /\ Positions(s) = {s[i].pos : i \in 1 .. m}
  BY NumberedBounds
<1>2. /\ t \in Seq(Packet) /\ n \in Nat
      /\ \A i \in 1 .. n : t[i] \in Packet /\ t[i].pos \in mid + 1 .. hi /\ t[i].seq = SeqnumOf(t[i].pos)
      /\ \A i, j \in 1 .. n : i < j => t[i].pos < t[j].pos
      /\ Positions(t) = {t[i].pos : i \in 1 .. n}
  <2>1. mid + 1 \in Int
    OBVIOUS
  <2> QED
    BY <2>1, NumberedBounds
<1>3. /\ r \in Seq(Packet) /\ Len(r) = m + n
      /\ \A i \in 1 .. m + n : r[i] = IF i <= m THEN s[i] ELSE t[i - m]
  BY <1>1, <1>2, ConcatProperties
<1>4. DOMAIN r = 1 .. m + n
  BY <1>3, LenProperties
<1> HIDE DEF r, m, n
<1>5. Ascending(r)
  <2> SUFFICES ASSUME NEW i \in 1 .. m + n, NEW j \in 1 .. m + n, i < j
               PROVE  r[i].pos < r[j].pos
    BY <1>4 DEF Ascending
  <2>1. CASE j <= m
    <3>1. r[i] = s[i] /\ r[j] = s[j] /\ i \in 1 .. m /\ j \in 1 .. m
      BY <2>1, <1>1, <1>3
    <3> QED
      BY <3>1, <1>1
  <2>2. CASE i <= m /\ j > m
    <3>1. r[i] = s[i] /\ r[j] = t[j - m] /\ j - m \in 1 .. n /\ i \in 1 .. m
      BY <2>2, <1>1, <1>2, <1>3
    <3>2. s[i].pos \in lo .. mid /\ t[j - m].pos \in mid + 1 .. hi
      BY <3>1, <1>1, <1>2
    <3> QED
      BY <3>1, <3>2
  <2>3. CASE i > m
    <3>1. /\ r[i] = t[i - m] /\ r[j] = t[j - m]
          /\ i - m \in 1 .. n /\ j - m \in 1 .. n /\ i - m < j - m
      BY <2>3, <1>1, <1>2, <1>3
    <3> QED
      BY <3>1, <1>2
  <2> QED
    BY <2>1, <2>2, <2>3, <1>1
<1>6. ASSUME NEW i \in 1 .. m + n
      PROVE  \/ i \in 1 .. m /\ r[i] = s[i]
             \/ i - m \in 1 .. n /\ r[i] = t[i - m]
  BY <1>1, <1>2, <1>3
<1>7. \A i \in 1 .. m + n : r[i].pos \in lo .. hi /\ r[i].seq = SeqnumOf(r[i].pos)
  <2> TAKE i \in 1 .. m + n
  <2>1. CASE i \in 1 .. m /\ r[i] = s[i]
    <3>1. s[i].pos \in lo .. mid /\ s[i].seq = SeqnumOf(s[i].pos)
      BY <2>1, <1>1
    <3> QED
      BY <2>1, <3>1
  <2>2. CASE i - m \in 1 .. n /\ r[i] = t[i - m]
    <3>1. t[i - m].pos \in mid + 1 .. hi /\ t[i - m].seq = SeqnumOf(t[i - m].pos)
      BY <2>2, <1>2
    <3> QED
      BY <2>2, <3>1
  <2> QED
    BY <1>6, <2>1, <2>2
<1>8. Positions(r) = Positions(s) \cup Positions(t)
  <2>1. Positions(r) = {r[i].pos : i \in 1 .. m + n}
    BY <1>4 DEF Positions
  <2>2. \A i \in 1 .. m + n : r[i].pos \in Positions(s) \cup Positions(t)
    BY <1>1, <1>2, <1>6
  <2>3. \A i \in 1 .. m : i \in 1 .. m + n /\ r[i] = s[i]
    BY <1>1, <1>2, <1>3
  <2>4. ASSUME NEW i \in 1 .. n
        PROVE  i + m \in 1 .. m + n /\ r[i + m] = t[i]
    <3>1. i + m \in 1 .. m + n /\ ~(i + m <= m) /\ (i + m) - m = i
      BY <1>1, <1>2
    <3> QED
      BY <3>1, <1>3
  <2>5. ASSUME NEW x \in Positions(r) PROVE x \in Positions(s) \cup Positions(t)
    BY <2>1, <2>2
  <2>6. ASSUME NEW x \in Positions(s) PROVE x \in Positions(r)
    <3>1. PICK i \in 1 .. m : x = s[i].pos
      BY <1>1
    <3> QED
      BY <3>1, <2>1, <2>3
  <2>7. ASSUME NEW x \in Positions(t) PROVE x \in Positions(r)
    <3>1. PICK i \in 1 .. n : x = t[i].pos
      BY <1>2
    <3>2. i + m \in 1 .. m + n /\ r[i + m].pos = x
      BY <3>1, <2>4
    <3> QED
      BY <3>2, <2>1
  <2> QED
    BY <2>5, <2>6, <2>7
<1> QED
  BY <1>3, <1>4, <1>5, <1>7, <1>8 DEF Numbered, r, m, n

(* Queueing one packet.                                                    *)
LEMMA NumberedAppend ==
    ASSUME NEW lo \in Int, NEW hi \in Int, lo <= hi + 1,
           NEW s, Numbered(s, lo, hi),
           NEW p \in Packet, p.pos = hi + 1, p.seq = SeqnumOf(hi + 1)
    PROVE  /\ Numbered(Append(s, p), lo, hi + 1)
           /\ Positions(Append(s, p)) = Positions(s) \cup {hi + 1}
           /\ Len(Append(s, p)) = Len(s) + 1
<1>1. Numbered(<<p>>, hi + 1, hi + 1) /\ Positions(<<p>>) = {hi + 1} /\ Len(<<p>>) = 1
  <2>1. <<p>> \in Seq(Packet) /\ DOMAIN <<p>> = {1} /\ <<p>>[1] = p /\ Len(<<p>>) = 1
    OBVIOUS
  <2> QED
    BY <2>1 DEF Numbered, Ascending, Positions
<1>2. Append(s, p) = s \o <<p>>
  BY AppendIsConcat DEF Numbered
<1>3. hi + 1 \in Int /\ hi <= hi + 1
  OBVIOUS
<1> QED
  BY <1>1, <1>2, <1>3, NumberedConcat

(* Taking the first packet, the oldest, from a list.                       *)
LEMMA NumberedTail ==
    ASSUME NEW lo \in Int, NEW hi \in Int, NEW s, Numbered(s, lo, hi), s # <<>>
    PROVE  /\ Head(s) = s[1] /\ Head(s) \in Packet
           /\ Head(s).pos \in lo .. hi /\ Head(s).seq = SeqnumOf(Head(s).pos)
           /\ Head(s).pos \in Positions(s)
           /\ Numbered(Tail(s), Head(s).pos + 1, hi)
           /\ Positions(Tail(s)) = Positions(s) \ {Head(s).pos}
           /\ Len(Tail(s)) = Len(s) - 1 /\ Len(s) \in Nat /\ Len(s) > 0
           /\ \A pos \in Positions(s) : pos >= Head(s).pos
<1> DEFINE r == Tail(s)
           n == Len(s)
<1>1. /\ s \in Seq(Packet) /\ n \in Nat
      /\ \A i \in 1 .. n : s[i] \in Packet /\ s[i].pos \in lo .. hi /\ s[i].seq = SeqnumOf(s[i].pos)
      /\ \A i, j \in 1 .. n : i < j => s[i].pos < s[j].pos
      /\ Positions(s) = {s[i].pos : i \in 1 .. n}
  BY NumberedBounds
<1>2. n > 0 /\ Head(s) = s[1]
  BY <1>1, EmptySeq
<1>3. /\ r \in Seq(Packet) /\ Len(r) = n - 1
      /\ \A i \in 1 .. n - 1 : r[i] = s[i + 1]
  BY <1>1, HeadTailProperties
<1>4. DOMAIN r = 1 .. n - 1
  BY <1>3, LenProperties
<1> HIDE DEF r, n
<1>5. \A i \in 1 .. n - 1 : i + 1 \in 1 .. n /\ r[i] = s[i + 1] /\ s[1].pos < s[i + 1].pos
  BY <1>1, <1>3
<1>6. Numbered(r, s[1].pos + 1, hi)
  <2>1. Ascending(r)
    <3> SUFFICES ASSUME NEW i \in 1 .. n - 1, NEW j \in 1 .. n - 1, i < j
                 PROVE  r[i].pos < r[j].pos
      BY <1>4 DEF Ascending
    <3>1. i + 1 \in 1 .. n /\ j + 1 \in 1 .. n /\ i + 1 < j + 1
      BY <1>1
    <3> QED
      BY <3>1, <1>1, <1>5
  <2>2. ASSUME NEW i \in 1 .. n - 1
        PROVE  r[i].pos \in s[1].pos + 1 .. hi /\ r[i].seq = SeqnumOf(r[i].pos)
    <3>1. i + 1 \in 1 .. n /\ r[i] = s[i + 1] /\ s[1].pos < s[i + 1].pos /\ 1 \in 1 .. n
      BY <1>1, <1>2, <1>5
    <3>2. s[1].pos \in lo .. hi /\ s[i + 1].pos \in lo .. hi
          /\ s[i + 1].seq = SeqnumOf(s[i + 1].pos)
      BY <1>1, <3>1
    <3> QED
      BY <3>1, <3>2
  <2> QED
    BY <2>1, <2>2, <1>3, <1>4 DEF Numbered
<1>7. Positions(r) = Positions(s) \ {s[1].pos}
  <2>1. Positions(r) = {r[i].pos : i \in 1 .. n - 1}
    BY <1>4 DEF Positions
  <2>2. ASSUME NEW i \in 1 .. n - 1
        PROVE  r[i].pos \in Positions(s) \ {s[1].pos}
    <3>1. i + 1 \in 1 .. n /\ r[i] = s[i + 1] /\ s[1].pos < s[i + 1].pos
      BY <1>5
    <3>2. s[i + 1].pos \in Positions(s)
      BY <3>1, <1>1
    <3>3. 1 \in 1 .. n /\ s[1].pos \in lo .. hi /\ s[i + 1].pos \in lo .. hi
      BY <3>1, <1>1, <1>2
    <3> QED
      BY <3>1, <3>2, <3>3
  <2>3. ASSUME NEW i \in 1 .. n, s[i].pos # s[1].pos
        PROVE  i - 1 \in 1 .. n - 1 /\ r[i - 1] = s[i]
    <3>1. i # 1
      BY <2>3
    <3>2. i - 1 \in 1 .. n - 1 /\ (i - 1) + 1 = i
      BY <3>1, <1>1
    <3> QED
      BY <3>2, <1>3
  <2>4. ASSUME NEW x \in Positions(s) \ {s[1].pos}
        PROVE  x \in Positions(r)
    <3>1. PICK i \in 1 .. n : x = s[i].pos
      BY <1>1
    <3> QED
      BY <3>1, <2>1, <2>3
  <2> QED
    BY <2>1, <2>2, <2>4
<1>8. \A i \in 1 .. n : s[i].pos >= s[1].pos
  BY <1>1, <1>2
<1> QED
  BY <1>1, <1>2, <1>3, <1>6, <1>7, <1>8 DEF r, n

(* popSeqnum takes out the packet at pos, if it is there, and no other, as *)
(* long as the list spans less than the number space.                      *)
LEMMA PopLemma ==
    ASSUME NEW lo \in Int, NEW hi \in Int, hi - lo <= SeqnumCount - 1,
           NEW s, Numbered(s, lo, hi), NEW pos \in lo .. hi
    PROVE  /\ Numbered(PopSeqnum(s, SeqnumOf(pos)), lo, hi)
           /\ Positions(PopSeqnum(s, SeqnumOf(pos))) = Positions(s) \ {pos}
<1> DEFINE r == PopSeqnum(s, SeqnumOf(pos))
           n == Len(s)
           found == {i \in DOMAIN s : s[i].seq = SeqnumOf(pos)}
           place == CHOOSE i \in found : \A j \in found : i <= j
<1>1. /\ s \in Seq(Packet) /\ n \in Nat /\ DOMAIN s = 1 .. n
      /\ \A i \in 1 .. n : s[i] \in Packet /\ s[i].pos \in lo .. hi /\ s[i].seq = SeqnumOf(s[i].pos)
      /\ \A i, j \in 1 .. n : i < j => s[i].pos < s[j].pos
      /\ Positions(s) = {s[i].pos : i \in 1 .. n}
  BY NumberedBounds
<1>2. \A a, b \in lo .. hi : SeqnumOf(a) = SeqnumOf(b) <=> a = b
  <2> SUFFICES ASSUME NEW a \in lo .. hi, NEW b \in lo .. hi
               PROVE  SeqnumOf(a) = SeqnumOf(b) <=> a = b
    OBVIOUS
  <2>1. SeqnumCount \in Nat
    BY MaxWindowAssumption DEF SeqnumCount
  <2>2. a \in Int /\ b \in Int /\ (b - a \in 0 .. SeqnumCount - 1 \/ a - b \in 0 .. SeqnumCount - 1)
    BY <2>1
  <2> QED
    BY <2>2, SeqnumOfDistance
<1>3. found = {i \in 1 .. n : s[i].pos = pos}
  BY <1>1, <1>2
<1> HIDE DEF n
<1>4. CASE found = {}
  <2>1. r = s
    BY <1>4 DEF PopSeqnum
  <2>2. pos \notin Positions(s)
    BY <1>1, <1>3, <1>4
  <2> QED
    BY <2>1, <2>2
<1>5. CASE found # {}
  <2>1. place \in 1 .. n /\ s[place].pos = pos
    <3>1. \E i \in found : \A j \in found : i <= j
      <4>1. found \subseteq Nat
        BY <1>1, <1>3
      <4> HIDE DEF found
      <4> QED
        BY <4>1, <1>5, Least
    <3>2. place \in found
      <4> HIDE DEF found
      <4> QED
        BY <3>1
    <3> QED
      BY <3>2, <1>3
  <2>2. r = RemoveAt(s, place)
    BY <1>5 DEF PopSeqnum
  <2> HIDE DEF found, place, r
  <2>3. /\ r \in Seq(Packet) /\ Len(r) = n - 1
        /\ \A k \in 1 .. n - 1 : r[k] = IF k < place THEN s[k] ELSE s[k + 1]
    <3>1. place \in 1 .. Len(s)
      BY <2>1 DEF n
    <3>2. /\ RemoveAt(s, place) \in Seq(Packet)
          /\ Len(RemoveAt(s, place)) = Len(s) - 1
          /\ \A k \in 1 .. Len(s) - 1 :
                RemoveAt(s, place)[k] = IF k < place THEN s[k] ELSE s[k + 1]
      BY <3>1, <1>1, RemoveAtProperties
    <3> QED
      BY <3>2, <2>2 DEF n
  <2>4. DOMAIN r = 1 .. n - 1
    BY <2>3, LenProperties
  <2>5. \A k \in 1 .. n - 1 : /\ k < place => k \in 1 .. n /\ r[k] = s[k]
                              /\ k >= place => k + 1 \in 1 .. n /\ r[k] = s[k + 1]
    BY <1>1, <2>1, <2>3
  <2>6. Ascending(r)
    <3> SUFFICES ASSUME NEW i \in 1 .. n - 1, NEW j \in 1 .. n - 1, i < j
                 PROVE  r[i].pos < r[j].pos
      BY <2>4 DEF Ascending
    <3>1. CASE j < place
      <4>1. i < place /\ place \in 1 .. n
        BY <3>1, <2>1
      <4>2. r[i] = s[i] /\ r[j] = s[j] /\ i \in 1 .. n /\ j \in 1 .. n
        BY <3>1, <4>1, <2>5
      <4> QED
        BY <4>2, <1>1
    <3>2. CASE i < place /\ j >= place
      <4>1. r[i] = s[i] /\ r[j] = s[j + 1] /\ i < j + 1 /\ i \in 1 .. n /\ j + 1 \in 1 .. n
        BY <3>2, <2>5
      <4> QED
        BY <4>1, <1>1
    <3>3. CASE i >= place
      <4>1. r[i] = s[i + 1] /\ r[j] = s[j + 1] /\ i + 1 < j + 1 /\ i + 1 \in 1 .. n /\ j + 1 \in 1 .. n
        BY <3>3, <2>5, <2>1, <1>1
      <4> QED
        BY <4>1, <1>1
    <3> QED
      BY <3>1, <3>2, <3>3, <2>1
  <2>7. \A k \in 1 .. n - 1 : /\ r[k].pos \in lo .. hi /\ r[k].seq = SeqnumOf(r[k].pos)
                              /\ r[k].pos \in Positions(s) \ {pos}
    <3> TAKE k \in 1 .. n - 1
    <3>1. CASE k < place
      BY <3>1, <2>1, <2>5, <1>1
    <3>2. CASE k >= place
      <4>1. r[k] = s[k + 1] /\ k + 1 \in 1 .. n /\ place < k + 1
        BY <3>2, <2>5, <2>1, <1>1
      <4> QED
        BY <4>1, <2>1, <1>1
    <3> QED
      BY <3>1, <3>2, <2>1
  <2>8. Numbered(r, lo, hi)
    BY <2>3, <2>4, <2>6, <2>7 DEF Numbered
  <2>9. Positions(r) = Positions(s) \ {pos}
    <3>1. Positions(r) = {r[i].pos : i \in 1 .. n - 1}
      BY <2>4 DEF Positions
    <3>2. ASSUME NEW i \in 1 .. n, s[i].pos # pos
          PROVE  \E k \in 1 .. n - 1 : r[k] = s[i]
      <4>1. CASE i < place
        <5>1. i \in 1 .. n - 1
          BY <4>1, <2>1, <1>1
        <5> QED
          BY <4>1, <5>1, <2>3
      <4>2. CASE i > place
        <5>1. i - 1 \in 1 .. n - 1 /\ ~(i - 1 < place) /\ (i - 1) + 1 = i
          BY <4>2, <2>1, <1>1
        <5> QED
          BY <5>1, <2>3
      <4>3. i # place
        BY <3>2, <2>1
      <4> QED
        BY <4>1, <4>2, <4>3, <2>1, <1>1
    <3>3. Positions(r) \subseteq Positions(s) \ {pos}
      BY <3>1, <2>7
    <3>4. ASSUME NEW x \in Positions(s) \ {pos}
          PROVE  x \in Positions(r)
      <4>1. PICK i \in 1 .. n : x = s[i].pos
        BY <1>1
      <4>2. PICK k \in 1 .. n - 1 : r[k] = s[i]
        BY <4>1, <3>2
      <4> QED
        BY <4>1, <4>2, <3>1
    <3> QED
      BY <3>3, <3>4
  <2> QED
    BY <2>8, <2>9 DEF r
<1> QED
  BY <1>4, <1>5

(* The places of a list that carry no chunk.                               *)
Pings(list) == {i \in DOMAIN list : list[i] = Ping}

(* The list carries the first m chunks of the user, each once and in       *)
(* order, with pings between them.                                         *)
Carries(list, m) ==
    /\ list \in Seq(Chunk \cup {Ping})
    /\ Cardinality(Pings(list)) <= MaxPings
    /\ \A i \in DOMAIN list : list[i] # Ping => list[i] \in 1 .. m
    /\ \A i, j \in DOMAIN list :
          i < j /\ list[i] # Ping /\ list[j] # Ping => list[i] < list[j]
    /\ \A c \in 1 .. m : \E i \in DOMAIN list : list[i] = c

(* The commands hold the chunks from m + 1 to n, cut into pieces.          *)
Pending(commands, m, n) ==
    /\ commands \in Seq(Command)
    /\ m \in 0 .. n /\ n \in 0 .. MaxChunks
    /\ IF commands = <<>> THEN m = n ELSE commands[1][1] = m + 1
    /\ \A k \in DOMAIN commands :
          /\ \A i \in DOMAIN commands[k] : commands[k][i] = commands[k][1] + i - 1
          /\ commands[k][1] + Len(commands[k]) <= n + 1
          /\ commands[k][1] + Len(commands[k]) =
                IF k = Len(commands) THEN n + 1 ELSE commands[k + 1][1]

(* The pings of a list can be counted.                                     *)
LEMMA PingsCount ==
    ASSUME NEW list \in Seq(Chunk \cup {Ping})
    PROVE  /\ Pings(list) = {i \in 1 .. Len(list) : list[i] = Ping}
           /\ IsFiniteSet(Pings(list)) /\ Cardinality(Pings(list)) \in Nat
<1>1. Len(list) \in Nat /\ DOMAIN list = 1 .. Len(list)
  BY LenProperties
<1>2. IsFiniteSet(1 .. Len(list))
  BY <1>1, FS_Interval
<1>3. Pings(list) \in SUBSET (1 .. Len(list))
  BY <1>1 DEF Pings
<1>4. IsFiniteSet(Pings(list))
  BY <1>2, <1>3, FS_Subset
<1> QED
  BY <1>1, <1>4, FS_CardinalityType DEF Pings

(* The numbered packets are at most all chunks and pings there may be.     *)
LEMMA CarriesLength ==
    ASSUME NEW m \in 0 .. MaxChunks, NEW list, Carries(list, m)
    PROVE  /\ Len(list) \in 0 .. MaxChunks + MaxPings
           /\ DOMAIN list = 1 .. Len(list)
<1> DEFINE N == Len(list)
           P == Pings(list)
           C == 1 .. N \ P
           f == [i \in C |-> list[i]]
<1>1. list \in Seq(Chunk \cup {Ping}) /\ N \in Nat /\ DOMAIN list = 1 .. N
  BY LenProperties DEF Carries
<1>2. /\ P = {i \in 1 .. N : list[i] = Ping}
      /\ IsFiniteSet(P) /\ Cardinality(P) \in Nat /\ Cardinality(P) <= MaxPings
  BY <1>1, PingsCount DEF Carries
<1>3. IsFiniteSet(1 .. N) /\ Cardinality(1 .. N) = N
  <2> HIDE DEF f, N, C, P
  <2> QED
    BY <1>1, FS_Interval
<1>4. /\ IsFiniteSet(1 .. m) /\ Cardinality(1 .. m) = m
  BY BoundsAssumption, FS_Interval
<1>5. IsFiniteSet(C) /\ Cardinality(C) <= m
  <2>1. \A i \in C : i \in 1 .. N /\ list[i] # Ping /\ list[i] \in 1 .. m
    BY <1>1, <1>2 DEF Carries
  <2>2. \A i, j \in C : list[i] = list[j] => i = j
    <3> SUFFICES ASSUME NEW i \in C, NEW j \in C, i # j
                 PROVE  list[i] # list[j]
      OBVIOUS
    <3>1. (i < j => list[i] < list[j]) /\ (j < i => list[j] < list[i])
      BY <2>1, <1>1 DEF Carries
    <3>2. i \in Nat /\ j \in Nat /\ list[i] \in Nat /\ list[j] \in Nat
      BY <2>1
    <3> QED
      BY <3>1, <3>2
  <2>3. f \in [C -> 1 .. m] /\ \A i, j \in C : f[i] = f[j] => i = j
    BY <2>1, <2>2
  <2> HIDE DEF f, C
  <2>4. f \in Injection(C, 1 .. m)
    BY <2>3 DEF Injection, IsInjective
  <2> QED
    BY <2>4, <1>4, FS_Injection
<1> HIDE DEF C, P, N
<1>6. 1 .. N = C \cup P
  BY <1>2 DEF C
<1>7. Cardinality(C \cup P) = Cardinality(C) + Cardinality(P) - Cardinality(C \cap P)
  BY <1>2, <1>5, FS_Union
<1>8. Cardinality(C) \in Nat /\ C \cap P = {}
  BY <1>5, FS_CardinalityType DEF C
<1>9. Cardinality(C \cap P) = 0
  BY <1>8, FS_EmptySet
<1>10. N = Cardinality(C) + Cardinality(P)
  <2>1. Cardinality(C \cup P) = N
    BY <1>3, <1>6
  <2> HIDE DEF f
  <2> QED
    BY <2>1, <1>1, <1>2, <1>7, <1>8, <1>9
<1>11. N \in 0 .. MaxChunks + MaxPings
  <2> HIDE DEF f
  <2>1. Cardinality(C) \in Nat /\ Cardinality(C) <= m
    BY <1>5, <1>8
  <2>2. Cardinality(P) \in Nat /\ Cardinality(P) <= MaxPings
    BY <1>2
  <2> QED
    BY <2>1, <2>2, <1>10, BoundsAssumption
<1> QED
  BY <1>1, <1>11 DEF N

(* Numbering the chunks of the next command.                               *)
LEMMA CarriesConcat ==
    ASSUME NEW m \in 0 .. MaxChunks, NEW list, Carries(list, m),
           NEW c \in Seq(Chunk), \A i \in 1 .. Len(c) : c[i] = m + i
    PROVE  /\ Carries(list \o c, m + Len(c))
           /\ Len(list \o c) = Len(list) + Len(c)
           /\ \A i \in 1 .. Len(list) : (list \o c)[i] = list[i]
           /\ \A i \in 1 .. Len(c) : (list \o c)[Len(list) + i] = m + i
<1> DEFINE N == Len(list)
           n == Len(c)
           r == list \o c
<1>1. list \in Seq(Chunk \cup {Ping}) /\ N \in Nat /\ DOMAIN list = 1 .. N
  BY LenProperties DEF Carries
<1>2. c \in Seq(Chunk \cup {Ping}) /\ n \in Nat /\ \A i \in 1 .. n : c[i] \in Chunk
  BY SeqMonotonic, LenProperties, ElementOfSeq
<1>3. /\ r \in Seq(Chunk \cup {Ping}) /\ Len(r) = N + n
      /\ \A i \in 1 .. N + n : r[i] = IF i <= N THEN list[i] ELSE c[i - N]
  BY <1>1, <1>2, ConcatProperties
<1>4. DOMAIN r = 1 .. N + n
  BY <1>3, LenProperties
<1>5. m \in Nat
  BY BoundsAssumption
<1> HIDE DEF N, n, r
<1>6. \A i \in 1 .. N : i \in 1 .. N + n /\ r[i] = list[i]
  BY <1>1, <1>2, <1>3
<1>7. \A i \in 1 .. n : N + i \in 1 .. N + n /\ r[N + i] = m + i
  <2> TAKE i \in 1 .. n
  <2>1. N + i \in 1 .. N + n /\ ~(N + i <= N) /\ (N + i) - N = i
    BY <1>1, <1>2
  <2>2. c[i] = m + i
    BY DEF n
  <2> QED
    BY <2>1, <2>2, <1>3
<1>8. \A i \in 1 .. N + n : i > N => i - N \in 1 .. n /\ r[i] = m + (i - N)
  <2> TAKE i \in 1 .. N + n
  <2> HAVE i > N
  <2>1. i - N \in 1 .. n /\ N + (i - N) = i
    BY <1>1, <1>2
  <2> QED
    BY <2>1, <1>7
<1>9. \A i \in 1 .. N : list[i] # Ping => list[i] \in 1 .. m
  BY <1>1 DEF Carries
<1>10. Pings(r) = Pings(list)
  <2>1. Pings(r) = {i \in 1 .. N + n : r[i] = Ping} /\ Pings(list) = {i \in 1 .. N : list[i] = Ping}
    BY <1>1, <1>4 DEF Pings
  <2>2. \A i \in 1 .. N + n : i > N => r[i] # Ping
    BY <1>5, <1>8 DEF Ping
  <2> QED
    BY <2>1, <2>2, <1>1, <1>6
<1>11. \A i \in 1 .. N + n : r[i] # Ping => r[i] \in 1 .. m + n
  <2> TAKE i \in 1 .. N + n
  <2>1. CASE i <= N
    BY <2>1, <1>1, <1>2, <1>5, <1>6, <1>9
  <2>2. CASE i > N
    BY <2>2, <1>2, <1>5, <1>8
  <2> QED
    BY <2>1, <2>2, <1>1
<1>12. \A i, j \in 1 .. N + n : i < j /\ r[i] # Ping /\ r[j] # Ping => r[i] < r[j]
  <2> SUFFICES ASSUME NEW i \in 1 .. N + n, NEW j \in 1 .. N + n,
                      i < j, r[i] # Ping, r[j] # Ping
               PROVE  r[i] < r[j]
    OBVIOUS
  <2>1. CASE j <= N
    <3>1. i \in 1 .. N /\ j \in 1 .. N
      BY <2>1, <1>1
    <3>2. \A k, l \in 1 .. N : k < l /\ list[k] # Ping /\ list[l] # Ping => list[k] < list[l]
      BY <1>1 DEF Carries
    <3> QED
      BY <3>1, <3>2, <1>6
  <2>2. CASE i <= N /\ j > N
    <3>1. r[i] \in 1 .. m
      BY <2>2, <1>1, <1>6, <1>9
    <3>2. j - N \in 1 .. n /\ r[j] = m + (j - N)
      BY <2>2, <1>8
    <3> QED
      BY <3>1, <3>2, <1>5
  <2>3. CASE i > N
    <3>1. /\ i - N \in 1 .. n /\ r[i] = m + (i - N)
          /\ j - N \in 1 .. n /\ r[j] = m + (j - N)
      BY <2>3, <1>1, <1>8
    <3> QED
      BY <3>1, <1>1, <1>5
  <2> QED
    BY <2>1, <2>2, <2>3, <1>1
<1>13. ASSUME NEW x \in 1 .. m + n
       PROVE  \E i \in 1 .. N + n : r[i] = x
  <2>1. CASE x <= m
    <3>1. x \in 1 .. m
      BY <2>1, <1>5
    <3>2. \E i \in 1 .. N : list[i] = x
      BY <3>1, <1>1 DEF Carries
    <3> QED
      BY <3>2, <1>6
  <2>2. CASE x > m
    <3>1. x - m \in 1 .. n /\ m + (x - m) = x
      BY <2>2, <1>2, <1>5
    <3> QED
      BY <3>1, <1>7
  <2> QED
    BY <2>1, <2>2, <1>5
<1>14. Carries(r, m + n)
  <2>1. Cardinality(Pings(r)) <= MaxPings
    BY <1>10 DEF Carries
  <2> QED
    BY <2>1, <1>3, <1>4, <1>11, <1>12, <1>13 DEF Carries
<1> QED
  BY <1>3, <1>6, <1>7, <1>14 DEF r, n, N

(* Numbering a ping.                                                       *)
LEMMA CarriesPing ==
    ASSUME NEW m \in 0 .. MaxChunks, NEW list, Carries(list, m),
           Cardinality(Pings(list)) < MaxPings
    PROVE  /\ Carries(Append(list, Ping), m)
           /\ Len(Append(list, Ping)) = Len(list) + 1
           /\ \A i \in 1 .. Len(list) : Append(list, Ping)[i] = list[i]
           /\ Append(list, Ping)[Len(list) + 1] = Ping
<1> DEFINE N == Len(list)
           r == Append(list, Ping)
<1>1. list \in Seq(Chunk \cup {Ping}) /\ N \in Nat /\ DOMAIN list = 1 .. N
  BY LenProperties DEF Carries
<1>2. /\ r \in Seq(Chunk \cup {Ping}) /\ Len(r) = N + 1
      /\ \A i \in 1 .. N : r[i] = list[i]
      /\ r[N + 1] = Ping
  BY <1>1, AppendProperties
<1>3. DOMAIN r = 1 .. N + 1
  BY <1>2, LenProperties
<1> HIDE DEF N, r
<1>4. \A i \in 1 .. N + 1 : r[i] # Ping => i \in 1 .. N /\ r[i] = list[i]
  BY <1>1, <1>2
<1>5. Pings(r) = Pings(list) \cup {N + 1} /\ N + 1 \notin Pings(list)
  BY <1>1, <1>2, <1>3 DEF Pings
<1>6. Cardinality(Pings(r)) <= MaxPings
  <2>1. IsFiniteSet(Pings(list)) /\ Cardinality(Pings(list)) \in Nat
    BY <1>1, PingsCount
  <2>2. Cardinality(Pings(list) \cup {N + 1}) = Cardinality(Pings(list)) + 1
    BY <2>1, <1>5, FS_AddElement
  <2> QED
    BY <2>1, <2>2, <1>5, BoundsAssumption
<1>7. \A i \in 1 .. N : i \in 1 .. N + 1
  BY <1>1
<1>8. Carries(r, m)
  <2>1. \A i \in 1 .. N + 1 : r[i] # Ping => r[i] \in 1 .. m
    BY <1>1, <1>4 DEF Carries
  <2>2. \A i, j \in 1 .. N + 1 : i < j /\ r[i] # Ping /\ r[j] # Ping => r[i] < r[j]
    BY <1>1, <1>4 DEF Carries
  <2>3. \A c \in 1 .. m : \E i \in 1 .. N + 1 : r[i] = c
    <3> TAKE c \in 1 .. m
    <3>1. PICK i \in 1 .. N : list[i] = c
      BY <1>1 DEF Carries
    <3> QED
      BY <3>1, <1>2, <1>7
  <2> QED
    BY <2>1, <2>2, <2>3, <1>2, <1>3, <1>6 DEF Carries
<1> QED
  BY <1>2, <1>8 DEF r, N

(* Queueing a command behind the others.                                   *)
LEMMA PendingAppend ==
    ASSUME NEW commands, NEW m, NEW n, Pending(commands, m, n),
           NEW l \in ChunkCounts, n + l <= MaxChunks
    PROVE  Pending(Append(commands, [i \in 1 .. l |-> n + i]), m, n + l)
<1> DEFINE c == [i \in 1 .. l |-> n + i]
           r == Append(commands, c)
           L == Len(commands)
<1>1. /\ l \in Nat /\ l > 0 /\ n \in Nat /\ m \in 0 .. n /\ n + l \in 0 .. MaxChunks
  BY ChunkCountsAssumption, BoundsAssumption DEF Pending
<1>2. /\ c \in Seq(Chunk) /\ Len(c) = l /\ DOMAIN c = 1 .. l /\ c[1] = n + 1
      /\ \A i \in 1 .. l : c[i] = n + i
  <2>1. \A i \in 1 .. l : n + i \in Chunk
    BY <1>1, BoundsAssumption DEF Chunk
  <2> QED
    BY <2>1, <1>1, IsASeq
<1>3. c \in Command
  BY <1>2 DEF Command
<1>4. commands \in Seq(Command) /\ L \in Nat /\ DOMAIN commands = 1 .. L
  BY LenProperties DEF Pending
<1> HIDE DEF c
<1>5. /\ r \in Seq(Command) /\ Len(r) = L + 1 /\ r # <<>>
      /\ \A i \in 1 .. L : r[i] = commands[i]
      /\ r[L + 1] = c
  BY <1>3, <1>4, AppendProperties
<1>6. DOMAIN r = 1 .. L + 1
  BY <1>5, LenProperties
<1>7. commands = <<>> <=> L = 0
  BY <1>4, EmptySeq
<1> HIDE DEF r, L
<1>8. r[1][1] = m + 1
  <2>1. CASE L = 0
    BY <2>1, <1>2, <1>5, <1>7 DEF Pending
  <2>2. CASE L # 0
    BY <2>2, <1>4, <1>5, <1>7 DEF Pending
  <2> QED
    BY <2>1, <2>2
<1>9. ASSUME NEW k \in 1 .. L + 1
      PROVE  /\ \A i \in DOMAIN r[k] : r[k][i] = r[k][1] + i - 1
             /\ r[k][1] + Len(r[k]) <= (n + l) + 1
             /\ r[k][1] + Len(r[k]) = IF k = Len(r) THEN (n + l) + 1 ELSE r[k + 1][1]
  <2>1. CASE k = L + 1
    BY <2>1, <1>1, <1>2, <1>5
  <2>2. CASE k # L + 1
    <3>1. k \in 1 .. L /\ r[k] = commands[k]
      BY <2>2, <1>4, <1>5
    <3>2. \A i \in DOMAIN commands[k] : commands[k][i] = commands[k][1] + i - 1
      BY <3>1, <1>4 DEF Pending
    <3>3. /\ commands[k][1] + Len(commands[k]) <= n + 1
          /\ commands[k][1] + Len(commands[k]) = IF k = L THEN n + 1 ELSE commands[k + 1][1]
      BY <3>1, <1>4 DEF Pending, L
    <3> commands[k][1] \in Int /\ Len(commands[k]) \in Int
      <4>1. commands[k] \in Command
        BY <3>1, <1>4, ElementOfSeq DEF L
      <4>2. commands[k] \in Seq(Chunk) /\ Len(commands[k]) \in Nat /\ Len(commands[k]) > 0
        BY <4>1, ChunkCountsAssumption DEF Command
      <4>3. commands[k][1] \in Chunk
        BY <4>2, ElementOfSeq
      <4> QED
        BY <4>2, <4>3 DEF Chunk
    <3>4. CASE k = L
      BY <3>1, <3>2, <3>3, <3>4, <2>2, <1>1, <1>2, <1>5
    <3>5. CASE k # L
      <4>1. k + 1 \in 1 .. L
        BY <3>1, <3>5, <1>4
      <4> QED
        <5>1. r[k + 1] = commands[k + 1] /\ k # Len(r)
          BY <4>1, <2>2, <1>5
        <5>2. commands[k][1] + Len(commands[k]) <= (n + l) + 1
          BY <3>3, <1>1
        <5>3. commands[k][1] + Len(commands[k]) = commands[k + 1][1]
          BY <3>3, <3>5
        <5> QED
          BY <5>1, <5>2, <5>3, <3>1, <3>2
    <3> QED
      BY <3>4, <3>5
  <2> QED
    BY <2>1, <2>2
<1>10. Pending(r, m, n + l)
  <2>1. m \in 0 .. n + l
    BY <1>1
  <2>2. \A k \in DOMAIN r :
          /\ \A i \in DOMAIN r[k] : r[k][i] = r[k][1] + i - 1
          /\ r[k][1] + Len(r[k]) <= (n + l) + 1
          /\ r[k][1] + Len(r[k]) = IF k = Len(r) THEN (n + l) + 1 ELSE r[k + 1][1]
    BY <1>6, <1>9
  <2> QED
    BY <2>1, <2>2, <1>1, <1>5, <1>8 DEF Pending
<1> QED
  BY <1>10 DEF r, c

(* Taking the first command from the queue.                                *)
LEMMA PendingTail ==
    ASSUME NEW commands, NEW m, NEW n, Pending(commands, m, n), commands # <<>>
    PROVE  LET c == Head(commands)
           IN  /\ c \in Command /\ Len(c) \in ChunkCounts /\ Len(c) \in Nat
               /\ \A i \in 1 .. Len(c) : c[i] = m + i
               /\ Pending(Tail(commands), m + Len(c), n)
<1> DEFINE c == Head(commands)
           r == Tail(commands)
           L == Len(commands)
<1>1. n \in Nat /\ m \in 0 .. n /\ n \in 0 .. MaxChunks
  BY BoundsAssumption DEF Pending
<1>2. /\ commands \in Seq(Command) /\ L \in Nat /\ L > 0 /\ DOMAIN commands = 1 .. L
      /\ c = commands[1]
  BY LenProperties, EmptySeq DEF Pending
<1>3. /\ c \in Command /\ r \in Seq(Command) /\ Len(r) = L - 1
      /\ \A i \in 1 .. L - 1 : r[i] = commands[i + 1]
  BY <1>2, HeadTailProperties
<1>4. DOMAIN r = 1 .. L - 1
  BY <1>3, LenProperties
<1>5. Len(c) \in ChunkCounts /\ Len(c) \in Nat /\ Len(c) > 0 /\ c \in Seq(Chunk) /\ DOMAIN c = 1 .. Len(c)
  BY <1>3, ChunkCountsAssumption, LenProperties DEF Command
<1> HIDE DEF r, L, c
<1>6. c[1] = m + 1 /\ \A i \in 1 .. Len(c) : c[i] = m + i
  <2>1. c[1] = m + 1
    BY <1>2 DEF Pending
  <2>2. \A i \in DOMAIN commands[1] : commands[1][i] = commands[1][1] + i - 1
    BY <1>2 DEF Pending
  <2> QED
    BY <2>1, <2>2, <1>1, <1>2, <1>5
<1>7. /\ (m + 1) + Len(c) <= n + 1
      /\ (m + 1) + Len(c) = IF L = 1 THEN n + 1 ELSE commands[2][1]
  <2>1. /\ commands[1][1] + Len(commands[1]) <= n + 1
        /\ commands[1][1] + Len(commands[1]) = IF 1 = L THEN n + 1 ELSE commands[1 + 1][1]
    <3>1. 1 \in DOMAIN commands
      BY <1>2
    <3> QED
      BY <3>1 DEF Pending, L
  <2> QED
    BY <2>1, <1>2, <1>6
<1>8. r = <<>> <=> L = 1
  BY <1>2, <1>3, EmptySeq
<1>9. m + Len(c) \in 0 .. n
  <2>1. CASE L = 1
    BY <2>1, <1>1, <1>5, <1>7
  <2>2. CASE L # 1
    BY <2>2, <1>1, <1>5, <1>7
  <2> QED
    BY <2>1, <2>2
<1>10. IF r = <<>> THEN m + Len(c) = n ELSE r[1][1] = (m + Len(c)) + 1
  <2>1. L # 1 => 1 \in 1 .. L - 1
    BY <1>2
  <2> QED
    BY <2>1, <1>1, <1>3, <1>5, <1>7, <1>8
<1>11. ASSUME NEW k \in 1 .. L - 1
       PROVE  /\ \A i \in DOMAIN r[k] : r[k][i] = r[k][1] + i - 1
              /\ r[k][1] + Len(r[k]) <= n + 1
              /\ r[k][1] + Len(r[k]) = IF k = Len(r) THEN n + 1 ELSE r[k + 1][1]
  <2>1. k + 1 \in 1 .. L /\ r[k] = commands[k + 1] /\ (k = L - 1 <=> k + 1 = L)
    BY <1>2, <1>3
  <2>2. \A i \in DOMAIN commands[k + 1] : commands[k + 1][i] = commands[k + 1][1] + i - 1
    BY <2>1, <1>2 DEF Pending
  <2>3. /\ commands[k + 1][1] + Len(commands[k + 1]) <= n + 1
        /\ commands[k + 1][1] + Len(commands[k + 1]) =
              IF k + 1 = L THEN n + 1 ELSE commands[(k + 1) + 1][1]
    BY <2>1, <1>2 DEF Pending, L
  <2>4. k # L - 1 => k + 1 \in 1 .. L - 1
    BY <1>2
  <2> QED
    BY <2>1, <2>2, <2>3, <2>4, <1>3
<1>12. Pending(r, m + Len(c), n)
  BY <1>1, <1>3, <1>4, <1>9, <1>10, <1>11 DEF Pending
<1> QED
  BY <1>3, <1>5, <1>6, <1>12 DEF r, c

(* Copies in the network of packets from lo to hi.                         *)
Copies(copies, lo, hi) ==
    /\ copies \subseteq Packet
    /\ \A p \in copies : p.pos \in lo .. hi /\ p.seq = SeqnumOf(p.pos)

(* How many chunks have been numbered: those before the first command that *)
(* still waits.                                                            *)
Made == IF queued_commands = <<>> THEN submitted ELSE queued_commands[1][1] - 1

(* The inductive invariant.  The queued commands hold the chunks that are  *)
(* not numbered yet, in order.                                             *)
CommandsInv == Pending(queued_commands, Made, submitted)

(* The numbered packets carry the chunks before those, in order.           *)
StreamInv == Carries(stream, Made)

(* The counter is the number of the next packet.  The packets waiting for  *)
(* an ACK are among the last MaxWindow; no packet is both queued and sent; *)
(* the queue is short of MaxWindow and its oldest packet has been          *)
(* overtaken by few, so that insert will accept it when it is sent.        *)
SenderInv ==
    /\ m_window_size \in Windows
    /\ next_outgoing_seqnum = SeqnumOf(Len(stream) + 1)
    /\ Numbered(queued_reliables, 1, Len(stream))
    /\ Numbered(outgoing_reliables_sent, Len(stream) + 1 - MaxWindow, Len(stream))
    /\ Positions(queued_reliables) \cap Positions(outgoing_reliables_sent) = {}
    /\ queued_reliables # <<>> => Overtaking <= MaxOvertaking
    /\ Len(queued_reliables) + MaxOvertaking < MaxWindow

(* A copy in the network is of one of the last MaxWindow packets, and an   *)
(* ACK of one that the receiver has.                                       *)
NetworkInv ==
    /\ Copies(data, Len(stream) + 1 - MaxWindow, Len(stream))
    /\ Copies(acks, Len(stream) + 1 - MaxWindow, Len(stream))
    /\ \A a \in acks : Received(a.pos)

(* The receiver has handed on the packets in order, without a gap; the     *)
(* buffer holds packets that follow them, less than a window ahead.        *)
ReceiverInv ==
    /\ Len(delivered) \in 0 .. Len(stream)
    /\ delivered \in Seq(Position)
    /\ \A i \in 1 .. Len(delivered) : delivered[i] = i
    /\ next_incoming_seqnum = SeqnumOf(Len(delivered) + 1)
    /\ Numbered(incoming_reliables, Len(delivered) + 1, Len(delivered) + MaxWindow)
    /\ \A pos \in Positions(incoming_reliables) : pos <= Len(stream)

(* The chunks handed to the user are those of the packets handed on.       *)
HandedInv ==
    /\ handed \in Seq(Chunk)
    /\ \A i \in 1 .. Len(handed) : handed[i] = i
    /\ Len(handed) <= Made
    /\ \A i \in DOMAIN stream :
          stream[i] # Ping => (i <= Len(delivered) <=> stream[i] <= Len(handed))

(* All of it, with NothingForgotten: the bound on the distance between the *)
(* two peers rests on the oldest packet the receiver lacks still being in  *)
(* the window of the sender.                                               *)
IInv ==
    /\ CommandsInv /\ StreamInv /\ SenderInv /\ NetworkInv
    /\ ReceiverInv /\ HandedInv /\ NothingForgotten

(* The ranges that the proofs below keep needing.                          *)
LEMMA Sizes ==
    ASSUME CommandsInv, StreamInv
    PROVE  /\ Len(stream) \in Nat /\ Len(stream) <= MaxChunks + MaxPings
           /\ DOMAIN stream = 1 .. Len(stream)
           /\ Made \in 0 .. MaxChunks /\ Made \in 0 .. submitted /\ submitted \in 0 .. MaxChunks
           /\ MaxWindow \in Nat /\ MaxWindow > 0 /\ SeqnumCount = 2 * MaxWindow
<1>1. Made \in 0 .. submitted /\ submitted \in 0 .. MaxChunks
  BY DEF CommandsInv, Pending
<1>2. Made \in 0 .. MaxChunks
  BY <1>1, BoundsAssumption
<1>3. Len(stream) \in 0 .. MaxChunks + MaxPings /\ DOMAIN stream = 1 .. Len(stream)
  BY <1>2, CarriesLength DEF StreamInv
<1> QED
  BY <1>1, <1>2, <1>3, BoundsAssumption, MaxWindowAssumption DEF SeqnumCount

(* The invariant implies that of the two counters.                         *)
LEMMA NumbersHold ==
    ASSUME CommandsInv, StreamInv, SenderInv, ReceiverInv
    PROVE  NumbersInv
<1>1. Len(stream) + 1 \in Int /\ Len(delivered) + 1 \in Int
  BY Sizes DEF ReceiverInv
<1>2. 0 \in 0 .. SeqnumCount - 1
  BY MaxWindowAssumption DEF SeqnumCount
<1> QED
  BY <1>1, <1>2, Sizes, SeqnumOfPlus DEF NumbersInv, SenderInv, ReceiverInv, CommandsInv, Pending

(* A queued packet has not been overtaken so often, nor waits in so long a *)
(* queue, that the buffer of sent packets would refuse it.                 *)
LEMMA QueueFresh ==
    ASSUME CommandsInv, StreamInv, SenderInv, NEW pos \in Positions(queued_reliables)
    PROVE  pos \in Len(stream) + 2 - MaxWindow .. Len(stream)
<1>1. queued_reliables # <<>>
  BY DEF Positions
<1>2. /\ Len(stream) \in Nat /\ MaxWindow \in Nat /\ MaxOvertaking \in Nat /\ 1 \in Int
      /\ Numbered(queued_reliables, 1, Len(stream))
  BY Sizes, OvertakingAssumption DEF SenderInv
<1>3. /\ Head(queued_reliables).pos \in 1 .. Len(stream)
      /\ Len(queued_reliables) \in Nat
      /\ pos >= Head(queued_reliables).pos
  BY <1>1, <1>2, NumberedTail
<1>4. Len(stream) - Head(queued_reliables).pos + 1 - Len(queued_reliables) <= MaxOvertaking
  BY <1>1 DEF SenderInv, Overtaking
<1>5. Len(queued_reliables) + MaxOvertaking < MaxWindow
  BY DEF SenderInv
<1>6. pos \in 1 .. Len(stream)
  BY <1>2, NumberedBounds
<1> QED
  BY <1>2, <1>3, <1>4, <1>5, <1>6

(* What getOutgoingSequenceNumber guarantees: the oldest packet waiting    *)
(* for its ACK is no further back than the window, give or take one.       *)
LEMMA WindowRoom ==
    ASSUME CommandsInv, StreamInv, SenderInv,
           outgoing_reliables_sent # <<>>, NEW j \in 0 .. MaxWindow - 1,
           HasSeqnum(Plus(next_outgoing_seqnum, j))
    PROVE  Len(stream) + 1 + j - Head(outgoing_reliables_sent).pos <= m_window_size + 1
<1> DEFINE N == Len(stream)
           h == Head(outgoing_reliables_sent).pos
           lowest == Head(outgoing_reliables_sent).seq
           n == Plus(next_outgoing_seqnum, j)
<1>1. N \in Nat /\ MaxWindow \in Nat /\ MaxWindow > 0 /\ SeqnumCount = 2 * MaxWindow
  BY Sizes
<1>2. h \in N + 1 - MaxWindow .. N /\ lowest = SeqnumOf(h)
  <2>1. N + 1 - MaxWindow \in Int /\ N \in Int
    BY <1>1
  <2> QED
    BY <2>1, NumberedTail DEF SenderInv
<1>3. n = SeqnumOf(N + 1 + j)
  <2>1. N + 1 \in Int /\ j \in 0 .. SeqnumCount - 1
    BY <1>1
  <2> QED
    BY <2>1, SeqnumOfPlus DEF SenderInv, Plus
<1> HIDE DEF N, h, lowest, n
<1>4. (N + 1 + j) - h \in 1 .. SeqnumCount - 1 /\ N + 1 + j \in Int /\ h \in Int
  BY <1>1, <1>2
<1>5. /\ lowest \in Seqnum /\ n \in Seqnum /\ n # lowest
      /\ Minus(n, lowest) = (N + 1 + j) - h
  <2>1. (N + 1 + j) - h \in 0 .. SeqnumCount - 1 /\ N + 1 + j # h
    BY <1>4, <1>1
  <2> QED
    BY <2>1, <1>2, <1>3, <1>4, SeqnumOfDistance DEF Distance
<1>6. IF lowest < n THEN n - lowest <= m_window_size
                    ELSE n + (SeqnumCount - 1 - lowest) <= m_window_size
  BY DEF HasSeqnum, lowest, n
<1>7. m_window_size \in Nat
  BY WindowsAssumption DEF SenderInv
<1> QED
  BY <1>1, <1>4, <1>5, <1>6, <1>7 DEF Minus, Seqnum, N, h

(* Steps that leave the queues and the numbers of the sender alone.        *)
LEMMA SenderKept ==
    ASSUME SenderInv, m_window_size' \in Windows,
           UNCHANGED <<queued_reliables, outgoing_reliables_sent, next_outgoing_seqnum, stream>>
    PROVE  SenderInv'
<1>1. /\ Positions(queued_reliables)' = Positions(queued_reliables)
      /\ Positions(outgoing_reliables_sent)' = Positions(outgoing_reliables_sent)
      /\ Overtaking' = Overtaking
  BY DEF Positions, Overtaking
<1>2. /\ next_outgoing_seqnum' = SeqnumOf(Len(stream') + 1)
      /\ Numbered(queued_reliables', 1, Len(stream'))
      /\ Numbered(outgoing_reliables_sent', Len(stream') + 1 - MaxWindow, Len(stream'))
      /\ queued_reliables' # <<>> => Overtaking' <= MaxOvertaking
      /\ Len(queued_reliables') + MaxOvertaking < MaxWindow
  BY <1>1 DEF SenderInv
<1>3. Positions(queued_reliables)' \cap Positions(outgoing_reliables_sent)' = {}
  BY <1>1 DEF SenderInv
<1> QED
  BY <1>2, <1>3 DEF SenderInv

(* The loop over n chunks has got all its numbers: each was granted.       *)
LEMMA GrantedAll ==
    ASSUME NEW n \in Nat, Granted(n) = n, NEW j \in 0 .. n - 1
    PROVE  HasSeqnum(Plus(next_outgoing_seqnum, j))
<1> DEFINE S == {i \in 0 .. n - 1 :
                    \A k \in 0 .. i : HasSeqnum(Plus(next_outgoing_seqnum, k))}
<1>1. IsFiniteSet(0 .. n - 1) /\ Cardinality(0 .. n - 1) = n
  BY FS_Interval
<1>2. S \in SUBSET (0 .. n - 1)
  OBVIOUS
<1>3. Cardinality(S) = n
  BY DEF Granted
<1>4. S = 0 .. n - 1
  <2> HIDE DEF S
  <2> QED
    BY <1>1, <1>2, <1>3, FS_Subset
<1>5. j \in S
  BY <1>4
<1> QED
  BY <1>5

(* After n more numbers the packets waiting for an ACK are still among the *)
(* last MaxWindow, because the first of them held the numbers back.        *)
LEMMA SentStayInWindow ==
    ASSUME BacklogFits, CommandsInv, StreamInv, SenderInv,
           NEW n \in 1 .. MaxWindow, HasSeqnum(Plus(next_outgoing_seqnum, n - 1))
    PROVE  Numbered(outgoing_reliables_sent, Len(stream) + n + 1 - MaxWindow, Len(stream) + n)
<1>1. Len(stream) \in Nat /\ MaxWindow \in Nat /\ MaxWindow > 0
  BY Sizes
<1>2. Len(stream) + 1 - MaxWindow \in Int /\ Len(stream) \in Int
      /\ Len(stream) + n + 1 - MaxWindow \in Int /\ Len(stream) + n \in Int
      /\ Numbered(outgoing_reliables_sent, Len(stream) + 1 - MaxWindow, Len(stream))
  BY <1>1 DEF SenderInv
<1>3. ASSUME NEW pos \in Positions(outgoing_reliables_sent)
      PROVE  pos \in Len(stream) + n + 1 - MaxWindow .. Len(stream) + n
  <2>1. outgoing_reliables_sent # <<>>
    BY DEF Positions
  <2>2. /\ pos >= Head(outgoing_reliables_sent).pos
        /\ Head(outgoing_reliables_sent).pos \in Len(stream) + 1 - MaxWindow .. Len(stream)
    BY <1>2, <2>1, NumberedTail
  <2>3. pos \in Len(stream) + 1 - MaxWindow .. Len(stream)
    BY <1>2, NumberedBounds
  <2>4. Len(stream) + 1 + (n - 1) - Head(outgoing_reliables_sent).pos <= m_window_size + 1
    <3>1. n - 1 \in 0 .. MaxWindow - 1
      BY <1>1
    <3> QED
      BY <2>1, <3>1, WindowRoom
  <2>5. m_window_size \in Nat /\ m_window_size + 2 <= MaxWindow
    BY WindowsAssumption DEF BacklogFits, SenderInv
  <2> QED
    BY <1>1, <2>2, <2>3, <2>4, <2>5
<1> QED
  BY <1>2, <1>3, NumberedWithin

(* The packets made for a command carry the next n numbers.                *)
LEMMA NewPacketsNumbered ==
    ASSUME CommandsInv, StreamInv, SenderInv, NEW n \in 0 .. MaxWindow,
           Len(stream) + n <= MaxChunks + MaxPings
    PROVE  /\ Numbered(NewPackets(n), Len(stream) + 1, Len(stream) + n)
           /\ Positions(NewPackets(n)) = Len(stream) + 1 .. Len(stream) + n
           /\ Len(NewPackets(n)) = n
           /\ n > 0 => NewPackets(n)[1].pos = Len(stream) + 1
<1> DEFINE N == Len(stream)
           r == NewPackets(n)
           e(i) == [seq |-> Plus(next_outgoing_seqnum, i - 1), pos |-> N + i]
<1>1. N \in Nat /\ MaxWindow \in Nat /\ MaxWindow > 0 /\ SeqnumCount = 2 * MaxWindow /\ n \in Nat
  BY Sizes
<1>2. r = [i \in 1 .. n |-> e(i)]
  BY DEF NewPackets
<1>3. ASSUME NEW i \in 1 .. n
      PROVE  e(i) \in Packet /\ e(i).pos = N + i /\ e(i).seq = SeqnumOf(N + i)
  <2>1. N + 1 \in Int /\ i - 1 \in 0 .. SeqnumCount - 1 /\ N + i = (N + 1) + (i - 1) /\ N + i \in Int
        /\ 0 \in 0 .. SeqnumCount - 1
    BY <1>1
  <2>2. Plus(next_outgoing_seqnum, i - 1) = SeqnumOf(N + i) /\ SeqnumOf(N + i) \in Seqnum
    BY <2>1, SeqnumOfPlus DEF SenderInv, Plus
  <2>3. N + i \in Position
    BY <1>1, BoundsAssumption DEF Position
  <2> QED
    BY <2>2, <2>3 DEF Packet
<1>4. r \in Seq(Packet)
  BY <1>1, <1>2, <1>3, IsASeq
<1>5. Len(r) = n /\ DOMAIN r = 1 .. n
  BY <1>1, <1>2
<1>6. \A i \in 1 .. n : r[i].pos = N + i /\ r[i].seq = SeqnumOf(N + i)
  BY <1>2, <1>3
<1> HIDE DEF r, e, N
<1>7. Numbered(r, N + 1, N + n)
  <2>1. Ascending(r)
    BY <1>1, <1>5, <1>6 DEF Ascending
  <2>2. \A i \in 1 .. n : r[i].pos \in N + 1 .. N + n /\ r[i].seq = SeqnumOf(r[i].pos)
    BY <1>1, <1>6
  <2> QED
    BY <2>1, <2>2, <1>4, <1>5 DEF Numbered
<1>8. Positions(r) = N + 1 .. N + n
  <2>1. Positions(r) = {r[i].pos : i \in 1 .. n}
    BY <1>5 DEF Positions
  <2>2. ASSUME NEW x \in N + 1 .. N + n PROVE x \in Positions(r)
    <3>1. x - N \in 1 .. n /\ N + (x - N) = x
      BY <1>1
    <3> QED
      BY <3>1, <2>1, <1>6
  <2>3. ASSUME NEW x \in Positions(r) PROVE x \in N + 1 .. N + n
    <3>1. PICK i \in 1 .. n : x = r[i].pos
      BY <2>1
    <3> QED
      BY <3>1, <1>1, <1>6
  <2> QED
    BY <2>2, <2>3
<1>9. n > 0 => r[1].pos = N + 1
  BY <1>1, <1>6
<1> QED
  BY <1>5, <1>7, <1>8, <1>9 DEF r, N

(* Copies that survive n more numbers.                                     *)
LEMMA SurvivingCopies ==
    ASSUME NEW copies, NEW N \in Nat, NEW n \in Nat, Copies(copies, N + 1 - MaxWindow, N)
    PROVE  /\ Surviving(copies, N + n) \subseteq copies
           /\ Copies(Surviving(copies, N + n), N + n + 1 - MaxWindow, N + n)
<1>1. MaxWindow \in Nat
  BY MaxWindowAssumption
<1>2. ASSUME NEW p \in Surviving(copies, N + n)
      PROVE  p \in copies /\ p.pos \in N + n + 1 - MaxWindow .. N + n /\ p.seq = SeqnumOf(p.pos)
  <2>1. p \in copies /\ (N + n) - p.pos < MaxWindow
    BY DEF Surviving
  <2>2. p.pos \in N + 1 - MaxWindow .. N /\ p.seq = SeqnumOf(p.pos)
    BY <2>1 DEF Copies
  <2> QED
    BY <2>1, <2>2, <1>1
<1> QED
  BY <1>2 DEF Copies

(* While the receiver does nothing and the sender numbers n more packets.  *)
LEMMA ReceiverKept ==
    ASSUME CommandsInv, StreamInv, ReceiverInv, UNCHANGED receiverVars,
           NEW n \in Nat, Len(stream') = Len(stream) + n
    PROVE  ReceiverInv' /\ \A pos : Received(pos)' <=> Received(pos)
<1>1. Len(stream) \in Nat
  BY Sizes
<1>2. \A pos \in Positions(incoming_reliables) : pos \in Int
  <2>1. Len(delivered) \in Int /\ MaxWindow \in Int
    BY MaxWindowAssumption, <1>1 DEF ReceiverInv
  <2> QED
    BY <2>1, NumberedBounds DEF ReceiverInv
<1>3. /\ Len(delivered) \in 0 .. Len(stream) + n
      /\ \A pos \in Positions(incoming_reliables) : pos <= Len(stream) + n
  BY <1>1, <1>2 DEF ReceiverInv
<1> QED
  BY <1>3 DEF ReceiverInv, receiverVars, Received, Positions

(* Nor does it hand on anything.                                           *)
LEMMA HandedKept ==
    ASSUME CommandsInv, StreamInv, ReceiverInv, HandedInv, UNCHANGED receiverVars,
           NEW n \in Nat, NEW m \in Nat, Carries(stream', Made + m), Made' = Made + m,
           Len(stream') = Len(stream) + n,
           \A i \in 1 .. Len(stream) : stream'[i] = stream[i],
           \A i \in Len(stream) + 1 .. Len(stream) + n :
                stream'[i] # Ping => stream'[i] > Made
    PROVE  HandedInv'
<1>1. /\ Len(stream) \in Nat /\ DOMAIN stream = 1 .. Len(stream) /\ Made \in Nat
  BY Sizes, BoundsAssumption
<1>2. DOMAIN stream' = 1 .. Len(stream) + n
  BY LenProperties DEF Carries
<1>3. Len(handed) \in Nat /\ Len(handed) <= Made
  BY LenProperties DEF HandedInv
<1>4. ASSUME NEW i \in 1 .. Len(stream) + n, stream'[i] # Ping
      PROVE  i <= Len(delivered) <=> stream'[i] <= Len(handed)
  <2>1. CASE i <= Len(stream)
    <3>1. i \in 1 .. Len(stream)
      BY <2>1, <1>1
    <3> QED
      BY <3>1, <1>1, <1>4 DEF HandedInv
  <2>2. CASE i > Len(stream)
    <3>1. i \in Len(stream) + 1 .. Len(stream) + n
      BY <2>2, <1>1
    <3>2. stream'[i] > Made /\ stream'[i] \in 1 .. Made + m
      BY <3>1, <1>2, <1>4 DEF Carries
    <3>3. i > Len(delivered)
      BY <2>2, <1>1 DEF ReceiverInv
    <3> QED
      BY <3>2, <3>3, <1>1, <1>3 DEF ReceiverInv
  <2> QED
    BY <2>1, <2>2, <1>1
<1>5. Len(handed) <= Made + m
  BY <1>1, <1>3
<1> QED
  BY <1>2, <1>4, <1>5 DEF HandedInv, receiverVars

(* processReliableSendCommand, whichever way it goes.                      *)
LEMMA NumberStep ==
    ASSUME BacklogFits, IInv,
           NEW c \in Command, \A i \in 1 .. Len(c) : c[i] = Made + i,
           Made + Len(c) <= MaxChunks,
           Len(queued_reliables) + Len(c) + MaxOvertaking < MaxWindow,
           ProcessReliableSendCommand(c),
           UNCHANGED <<outgoing_reliables_sent, m_window_size, receiverVars>>,
           Made' = IF Granted(Len(c)) = Len(c) THEN Made + Len(c) ELSE Made
    PROVE  StreamInv' /\ SenderInv' /\ NetworkInv' /\ ReceiverInv' /\ HandedInv' /\ NothingForgotten'
<1> DEFINE n == Len(c)
           N == Len(stream)
<1>1. /\ CommandsInv /\ StreamInv /\ SenderInv /\ NetworkInv
      /\ ReceiverInv /\ HandedInv /\ NothingForgotten
  BY DEF IInv
<1>2. /\ N \in Nat /\ DOMAIN stream = 1 .. N /\ Made \in Nat /\ Made \in 0 .. MaxChunks
      /\ MaxWindow \in Nat /\ MaxWindow > 0
  BY <1>1, Sizes, BoundsAssumption
<1>3. n \in ChunkCounts /\ n \in 1 .. MaxWindow - 1 /\ n \in Nat /\ c \in Seq(Chunk)
  BY <1>2, ChunkCountsAssumption DEF Command
<1>4. Positions(outgoing_reliables_sent)' = Positions(outgoing_reliables_sent)
  BY DEF Positions
<1>5. next_outgoing_seqnum' = IF Granted(n) = n THEN Plus(next_outgoing_seqnum, n)
                              ELSE next_outgoing_seqnum
  BY <1>1, <1>3, NumbersHold, NumbersPutBack DEF ProcessReliableSendCommand
<1>6. CASE Granted(n) # n
  <2>1. UNCHANGED <<queued_reliables, stream, next_outgoing_seqnum>> /\ Made' = Made
    BY <1>5, <1>6 DEF ProcessReliableSendCommand
  <2>2. StreamInv'
    BY <1>1, <2>1 DEF StreamInv
  <2>3. SenderInv'
    BY <1>1, <1>4, <2>1 DEF SenderInv, Positions, Overtaking
  <2>4. ReceiverInv' /\ \A pos : Received(pos)' <=> Received(pos)
    <3>1. Len(stream') = Len(stream) + 0 /\ 0 \in Nat
      BY <1>2, <2>1
    <3> QED
      BY <1>1, <3>1, ReceiverKept
  <2>5. NetworkInv'
    <3>1. data' = Surviving(data, N + 0) /\ acks' = Surviving(acks, N + 0)
      <4>1. Len(stream') = N + 0
        BY <1>2, <2>1
      <4>2. data' = Surviving(data, Len(stream')) /\ acks' = Surviving(acks, Len(stream'))
        BY DEF ProcessReliableSendCommand
      <4> QED
        BY <4>1, <4>2
    <3>2. Copies(data', N + 0 + 1 - MaxWindow, N + 0) /\ Copies(acks', N + 0 + 1 - MaxWindow, N + 0)
          /\ acks' \subseteq acks
      BY <1>1, <1>2, <3>1, SurvivingCopies DEF NetworkInv
    <3>3. N + 0 = N
      BY <1>2
    <3> QED
      BY <1>1, <2>1, <2>4, <3>2, <3>3 DEF NetworkInv
  <2>6. HandedInv'
    BY <1>1, <2>1 DEF HandedInv, receiverVars
  <2>7. NothingForgotten'
    BY <1>1, <1>4, <2>1, <2>4 DEF NothingForgotten, Positions
  <2> QED
    BY <2>2, <2>3, <2>4, <2>5, <2>6, <2>7
<1>7. CASE Granted(n) = n
  <2>1. /\ queued_reliables' = queued_reliables \o NewPackets(n)
        /\ stream' = stream \o c /\ Made' = Made + n
        /\ data' = Surviving(data, Len(stream')) /\ acks' = Surviving(acks, Len(stream'))
    BY <1>7 DEF ProcessReliableSendCommand
  <2>2. /\ Carries(stream', Made + n) /\ Len(stream') = N + n
        /\ \A i \in 1 .. N : stream'[i] = stream[i]
        /\ \A i \in 1 .. n : stream'[N + i] = Made + i
    <3>1. Carries(stream, Made) /\ c \in Seq(Chunk) /\ Made \in 0 .. MaxChunks
      BY <1>1, <1>2, <1>3 DEF StreamInv
    <3>2. /\ Carries(stream \o c, Made + Len(c)) /\ Len(stream \o c) = Len(stream) + Len(c)
          /\ \A i \in 1 .. Len(stream) : (stream \o c)[i] = stream[i]
          /\ \A i \in 1 .. Len(c) : (stream \o c)[Len(stream) + i] = Made + i
      BY <3>1, CarriesConcat
    <3> QED
      BY <2>1, <3>2
  <2>3. StreamInv' /\ Len(stream') <= MaxChunks + MaxPings
    <3>1. Made + n \in 0 .. MaxChunks
      BY <1>2, <1>3
    <3>2. Len(stream') \in 0 .. MaxChunks + MaxPings
      BY <2>2, <3>1, CarriesLength
    <3>3. StreamInv'
      BY <2>1, <2>2 DEF StreamInv
    <3> QED
      BY <3>2, <3>3, BoundsAssumption
  <2>4. /\ Numbered(NewPackets(n), N + 1, N + n)
        /\ Positions(NewPackets(n)) = N + 1 .. N + n
        /\ Len(NewPackets(n)) = n /\ NewPackets(n)[1].pos = N + 1
    <3>1. n \in 0 .. MaxWindow /\ n > 0
      BY <1>2, <1>3
    <3> QED
      BY <1>1, <2>2, <2>3, <3>1, NewPacketsNumbered
  <2>5. /\ Numbered(queued_reliables', 1, N + n)
        /\ Positions(queued_reliables)' = Positions(queued_reliables) \cup (N + 1 .. N + n)
        /\ Len(queued_reliables') = Len(queued_reliables) + n
    <3>1. 1 \in Int /\ N \in Int /\ N + n \in Int /\ 1 <= N + 1 /\ N <= N + n
      BY <1>2, <1>3
    <3>2. Positions(queued_reliables)' = Positions(queued_reliables')
      BY DEF Positions
    <3>3. Numbered(queued_reliables, 1, N) /\ Numbered(NewPackets(n), N + 1, N + n)
      BY <1>1, <2>4 DEF SenderInv
    <3> HIDE DEF N, n
    <3>4. LET r == queued_reliables \o NewPackets(n)
          IN  /\ Numbered(r, 1, N + n)
              /\ Positions(r) = Positions(queued_reliables) \cup Positions(NewPackets(n))
              /\ Len(r) = Len(queued_reliables) + Len(NewPackets(n))
      BY <3>1, <3>3, NumberedConcat
    <3> QED
      BY <2>1, <2>4, <3>2, <3>4
  <2>6. SenderInv'
    <3>1. next_outgoing_seqnum' = SeqnumOf(Len(stream') + 1)
      <4>1. N + 1 \in Int /\ n \in 0 .. SeqnumCount - 1 /\ (N + 1) + n = Len(stream') + 1
        BY <1>2, <1>3, <2>2 DEF SeqnumCount
      <4> QED
        BY <1>1, <1>5, <1>7, <4>1, SeqnumOfPlus DEF SenderInv, Plus
    <3>2. Numbered(outgoing_reliables_sent, N + n + 1 - MaxWindow, N + n)
      <4>1. n - 1 \in 0 .. n - 1 /\ n \in 1 .. MaxWindow
        BY <1>2, <1>3
      <4>2. HasSeqnum(Plus(next_outgoing_seqnum, n - 1))
        BY <1>3, <1>7, <4>1, GrantedAll
      <4> QED
        BY <1>1, <4>1, <4>2, SentStayInWindow
    <3>3. Positions(queued_reliables)' \cap Positions(outgoing_reliables_sent)' = {}
      <4>1. Positions(outgoing_reliables_sent) \subseteq N + 1 - MaxWindow .. N
        <5>1. N + 1 - MaxWindow \in Int /\ N \in Int
          BY <1>2
        <5> QED
          BY <1>1, <5>1, NumberedBounds DEF SenderInv
      <4>2. (N + 1 .. N + n) \cap (N + 1 - MaxWindow .. N) = {}
        BY <1>2, <1>3
      <4> QED
        BY <1>1, <1>4, <2>5, <4>1, <4>2 DEF SenderInv
    <3>4. Overtaking' <= MaxOvertaking
      <4>1. CASE queued_reliables = <<>>
        <5>1. queued_reliables' = NewPackets(n)
          BY <2>1, <2>4, <4>1, ConcatEmptySeq DEF Numbered
        <5>2. Head(queued_reliables').pos = N + 1
          BY <2>4, <5>1
        <5>3. Len(queued_reliables') = n
          BY <2>4, <5>1
        <5>4. Overtaking' = (N + n) - (N + 1) + 1 - n
          BY <2>2, <5>2, <5>3 DEF Overtaking
        <5> QED
          BY <5>4, <1>2, <1>3, OvertakingAssumption
      <4>2. CASE queued_reliables # <<>>
        <5>1. /\ Head(queued_reliables).pos \in 1 .. N /\ Len(queued_reliables) \in Nat
              /\ Len(queued_reliables) > 0 /\ Head(queued_reliables) = queued_reliables[1]
          <6>1. 1 \in Int /\ N \in Int
            BY <1>2
          <6> QED
            BY <1>1, <4>2, <6>1, NumberedTail DEF SenderInv
        <5>2. Head(queued_reliables') = Head(queued_reliables)
          <6>1. queued_reliables \in Seq(Packet) /\ NewPackets(n) \in Seq(Packet)
            BY <1>1, <2>4 DEF SenderInv, Numbered
          <6>2. queued_reliables'[1] = queued_reliables[1]
            BY <2>1, <2>4, <5>1, <6>1, ConcatProperties
          <6>3. queued_reliables' \in Seq(Packet) /\ queued_reliables' # <<>>
            BY <2>5, <5>1, <1>3, EmptySeq DEF Numbered
          <6> QED
            BY <5>1, <6>2, <6>3
        <5>3. Overtaking' = (N + n) - Head(queued_reliables).pos + 1 - (Len(queued_reliables) + n)
          BY <2>2, <2>5, <5>2 DEF Overtaking
        <5>4. Overtaking = N - Head(queued_reliables).pos + 1 - Len(queued_reliables)
          BY DEF Overtaking
        <5>5. Overtaking <= MaxOvertaking
          BY <1>1, <4>2 DEF SenderInv
        <5> QED
          BY <1>2, <1>3, <5>1, <5>3, <5>4, <5>5
      <4> QED
        BY <4>1, <4>2
    <3>5. Len(queued_reliables') + MaxOvertaking < MaxWindow
      BY <2>5
    <3> QED
      BY <1>1, <2>2, <2>5, <3>1, <3>2, <3>3, <3>4, <3>5 DEF SenderInv
  <2>7. ReceiverInv' /\ \A pos : Received(pos)' <=> Received(pos)
    BY <1>1, <1>3, <2>2, ReceiverKept
  <2>8. NetworkInv'
    <3>1. data' = Surviving(data, N + n) /\ acks' = Surviving(acks, N + n)
      BY <2>1, <2>2
    <3>2. Copies(data', N + n + 1 - MaxWindow, N + n) /\ Copies(acks', N + n + 1 - MaxWindow, N + n)
          /\ acks' \subseteq acks
      BY <1>1, <1>2, <1>3, <3>1, SurvivingCopies DEF NetworkInv
    <3> QED
      BY <1>1, <2>2, <2>7, <3>2 DEF NetworkInv
  <2>9. HandedInv'
    <3>1. \A i \in N + 1 .. N + n : stream'[i] # Ping => stream'[i] > Made
      <4> TAKE i \in N + 1 .. N + n
      <4>1. i - N \in 1 .. n /\ N + (i - N) = i /\ Made + (i - N) > Made
        BY <1>2, <1>3
      <4>2. stream'[N + (i - N)] = Made + (i - N)
        BY <4>1, <2>2
      <4> QED
        BY <4>1, <4>2
    <3> QED
      BY <1>1, <1>3, <2>1, <2>2, <3>1, HandedKept
  <2>10. NothingForgotten'
    <3> SUFFICES ASSUME NEW pos \in DOMAIN stream'
                 PROVE  \/ Received(pos)'
                        \/ pos \in Positions(outgoing_reliables_sent)'
                        \/ pos \in Positions(queued_reliables)'
      BY DEF NothingForgotten
    <3>1. pos \in 1 .. N + n
      BY <2>2, LenProperties DEF Carries
    <3>2. CASE pos \in 1 .. N
      BY <1>1, <1>2, <1>4, <2>5, <2>7, <3>2 DEF NothingForgotten
    <3>3. CASE pos \in N + 1 .. N + n
      BY <2>5, <3>3
    <3> QED
      BY <3>1, <3>2, <3>3, <1>2, <1>3
  <2> QED
    BY <2>3, <2>6, <2>7, <2>8, <2>9, <2>10
<1> QED
  BY <1>6, <1>7

(* Made is the m for which the commands are Pending.                       *)
LEMMA MadeOf ==
    ASSUME NEW commands, NEW m \in Int, NEW n, Pending(commands, m, n)
    PROVE  m = IF commands = <<>> THEN n ELSE commands[1][1] - 1
<1>1. CASE commands = <<>>
  BY <1>1 DEF Pending
<1>2. CASE commands # <<>>
  <2>1. commands[1][1] = m + 1
    BY <1>2 DEF Pending
  <2> QED
    BY <1>2, <2>1
<1> QED
  BY <1>1, <1>2

(* Connection::Send, numbered at once or queued.                           *)
LEMMA SendStep ==
    ASSUME BacklogFits, IInv, NEW n \in ChunkCounts, Send(n)
    PROVE  IInv'
<1> DEFINE c == [i \in 1 .. n |-> submitted + i]
           Q == queued_reliables
<1>1. /\ CommandsInv /\ StreamInv /\ SenderInv /\ NetworkInv
      /\ ReceiverInv /\ HandedInv /\ NothingForgotten
  BY DEF IInv
<1>2. /\ n \in Nat /\ n > 0 /\ submitted \in Nat /\ Made \in 0 .. submitted
      /\ submitted + n <= MaxChunks /\ submitted' = submitted + n
  BY <1>1, Sizes, ChunkCountsAssumption, BoundsAssumption DEF Send
<1>3. Pending(Append(queued_commands, c), Made, submitted + n)
  BY <1>1, <1>2, PendingAppend DEF CommandsInv
<1>4. CASE queued_commands = <<>> /\ Len(Q) + 1 < m_window_size \div 2
  <2>1. /\ ProcessReliableSendCommand(c)
        /\ queued_commands' = IF Granted(n) = n THEN <<>> ELSE <<c>>
        /\ UNCHANGED <<outgoing_reliables_sent, m_window_size, receiverVars>>
    BY <1>4 DEF Send
  <2>2. Made = submitted
    BY <1>4 DEF Made
  <2>3. c \in Command /\ Len(c) = n /\ \A i \in 1 .. Len(c) : c[i] = Made + i
    <3>1. \A i \in 1 .. n : submitted + i \in Chunk
      BY <1>2, BoundsAssumption DEF Chunk
    <3>2. c \in Seq(Chunk) /\ Len(c) = n
      BY <1>2, <3>1, IsASeq
    <3> QED
      BY <2>2, <3>2 DEF Command
  <2>4. Append(queued_commands, c) = <<c>>
    BY <1>4
  <2>5. Pending(queued_commands', IF Granted(n) = n THEN Made + n ELSE Made, submitted')
    <3>1. CASE Granted(n) = n
      <4>1. queued_commands' = <<>>
        BY <2>1, <3>1
      <4>2. submitted + n \in 0 .. submitted + n /\ submitted + n \in 0 .. MaxChunks
        BY <1>2
      <4> QED
        BY <3>1, <4>1, <4>2, <1>2, <2>2 DEF Pending
    <3>2. CASE Granted(n) # n
      BY <3>2, <1>2, <1>3, <2>1, <2>4
    <3> QED
      BY <3>1, <3>2
  <2> HIDE DEF c
  <2>6. Made' = IF Granted(n) = n THEN Made + n ELSE Made
    <3>1. (IF Granted(n) = n THEN Made + n ELSE Made) \in Int
      BY <1>2
    <3> QED
      BY <2>5, <3>1, MadeOf DEF Made
  <2>7. CommandsInv'
    BY <2>5, <2>6 DEF CommandsInv
  <2>8. Len(Q) + n + MaxOvertaking < MaxWindow
    <3>1. m_window_size \in Windows /\ m_window_size \in Nat
      BY <1>1, WindowsAssumption DEF SenderInv
    <3>2. MaxOvertaking + (m_window_size \div 2) + n <= MaxWindow + 1
      BY <3>1 DEF BacklogFits
    <3>3. Len(Q) \in Nat
      BY <1>1, LenProperties DEF SenderInv, Numbered
    <3>4. m_window_size \div 2 \in Int /\ MaxWindow \in Nat /\ MaxOvertaking \in Nat
      BY <3>1, MaxWindowAssumption, OvertakingAssumption
    <3> QED
      BY <1>2, <1>4, <3>2, <3>3, <3>4
  <2>9. StreamInv' /\ SenderInv' /\ NetworkInv' /\ ReceiverInv' /\ HandedInv' /\ NothingForgotten'
    BY <1>2, <2>1, <2>2, <2>3, <2>6, <2>8, NumberStep
  <2> QED
    BY <2>7, <2>9 DEF IInv
<1>5. CASE ~(queued_commands = <<>> /\ Len(Q) + 1 < m_window_size \div 2)
  <2>1. /\ queued_commands' = Append(queued_commands, c)
        /\ UNCHANGED <<next_outgoing_seqnum, queued_reliables, stream, data, acks,
                       outgoing_reliables_sent, m_window_size, receiverVars>>
    BY <1>5 DEF Send
  <2> HIDE DEF c
  <2>2. Made' = Made
    <3>1. Pending(queued_commands', Made, submitted')
      BY <1>2, <1>3, <2>1
    <3>2. Made \in Int
      BY <1>2
    <3> QED
      BY <3>1, <3>2, MadeOf DEF Made
  <2>3. CommandsInv'
    BY <1>2, <1>3, <2>1, <2>2 DEF CommandsInv
  <2>4. StreamInv' /\ HandedInv'
    BY <1>1, <2>1, <2>2 DEF StreamInv, HandedInv, receiverVars
  <2>5. SenderInv'
    <3>1. m_window_size' \in Windows
      BY <1>1, <2>1 DEF SenderInv
    <3> QED
      BY <1>1, <2>1, <3>1, SenderKept
  <2>6. NetworkInv' /\ ReceiverInv' /\ NothingForgotten'
    BY <1>1, <2>1 DEF NetworkInv, ReceiverInv, NothingForgotten, Received, Positions, receiverVars
  <2> QED
    BY <2>3, <2>4, <2>5, <2>6 DEF IInv
<1> QED
  BY <1>4, <1>5

(* RunCommandQueues.                                                       *)
LEMMA RunCommandQueuesStep ==
    ASSUME BacklogFits, IInv, RunCommandQueues
    PROVE  IInv'
<1> DEFINE c == Head(queued_commands)
           n == Len(c)
           Q == queued_reliables
<1>1. /\ CommandsInv /\ StreamInv /\ SenderInv /\ NetworkInv
      /\ ReceiverInv /\ HandedInv /\ NothingForgotten
  BY DEF IInv
<1>2. /\ queued_commands # <<>> /\ Len(Q) < MaxRequeued
      /\ ProcessReliableSendCommand(c)
      /\ queued_commands' = IF Granted(n) = n THEN Tail(queued_commands) ELSE queued_commands
      /\ submitted' = submitted
      /\ UNCHANGED <<outgoing_reliables_sent, m_window_size, receiverVars>>
  BY DEF RunCommandQueues
<1>3. /\ c \in Command /\ n \in ChunkCounts /\ n \in Nat
      /\ \A i \in 1 .. n : c[i] = Made + i
      /\ Pending(Tail(queued_commands), Made + n, submitted)
  BY <1>1, <1>2, PendingTail DEF CommandsInv
<1> HIDE DEF n, c
<1>4. Pending(queued_commands', IF Granted(n) = n THEN Made + n ELSE Made, submitted')
  BY <1>1, <1>2, <1>3 DEF CommandsInv
<1>5. Made \in Int /\ Made + n \in Int /\ Made + n <= MaxChunks
  BY <1>1, <1>3, Sizes, BoundsAssumption DEF Pending
<1>6. Made' = IF Granted(n) = n THEN Made + n ELSE Made
  <2>1. (IF Granted(n) = n THEN Made + n ELSE Made) \in Int
    BY <1>5
  <2> QED
    BY <1>4, <2>1, MadeOf DEF Made
<1>7. CommandsInv'
  BY <1>4, <1>6 DEF CommandsInv
<1>8. Len(Q) + n + MaxOvertaking < MaxWindow
  <2>1. m_window_size \in Windows
    BY <1>1 DEF SenderInv
  <2>2. MaxOvertaking + MaxRequeued + n <= MaxWindow
    BY <1>3, <2>1 DEF BacklogFits
  <2>3. Len(Q) \in Nat
    BY <1>1, LenProperties DEF SenderInv, Numbered
  <2> QED
    BY <1>2, <1>3, <2>2, <2>3, MaxWindowAssumption, OvertakingAssumption, BoundsAssumption
<1>9. StreamInv' /\ SenderInv' /\ NetworkInv' /\ ReceiverInv' /\ HandedInv' /\ NothingForgotten'
  BY <1>2, <1>3, <1>5, <1>6, <1>8, NumberStep DEF n
<1> QED
  BY <1>7, <1>9 DEF IInv

(* How Overtaking changes with a ping and with a packet sent.              *)
LEMMA OneMore ==
    ASSUME NEW n \in Int, NEW pos \in Int, NEW q \in Int
    PROVE  (n + 1) - pos + 1 - q = (n - pos + 1 - q) + 1 /\ n - pos + 1 - q \in Int
OBVIOUS

LEMMA OneLess ==
    ASSUME NEW n \in Int, NEW pos \in Int, NEW next \in Int, NEW q \in Int, pos < next
    PROVE  /\ n - next + 1 - (q - 1) <= n - pos + 1 - q
           /\ n - next + 1 - (q - 1) \in Int /\ n - pos + 1 - q \in Int
OBVIOUS

(* One round of the loop of sendPackets: the packet moves from the queue   *)
(* to the packets waiting for an ACK.                                      *)
LEMMA SendPacketsStep ==
    ASSUME BacklogFits, IInv, SendPackets
    PROVE  IInv'
<1> DEFINE N == Len(stream)
           Q == queued_reliables
           O == outgoing_reliables_sent
           p == Head(queued_reliables)
           lo == N + 1 - MaxWindow
<1>1. /\ CommandsInv /\ StreamInv /\ SenderInv /\ NetworkInv
      /\ ReceiverInv /\ HandedInv /\ NothingForgotten
  BY DEF IInv
<1>2. /\ Q # <<>>
      /\ O' = Insert(O, p, Minus(next_outgoing_seqnum, MaxWindow))
      /\ data' = data \cup {p}
      /\ Q' = Tail(Q)
      /\ UNCHANGED <<queued_commands, next_outgoing_seqnum, m_window_size, acks,
                     submitted, stream, receiverVars>>
  BY DEF SendPackets, SendAsPacketReliable
<1>3. N \in Nat /\ MaxWindow \in Nat /\ MaxWindow > 0 /\ 1 \in Int /\ N \in Int /\ lo \in Int
      /\ lo + MaxWindow - 1 = N /\ N + 1 \in Int
  BY <1>1, Sizes
<1>4. /\ p \in Packet /\ p.pos \in 1 .. N /\ p.seq = SeqnumOf(p.pos) /\ p.pos \in Positions(Q)
      /\ Numbered(Tail(Q), p.pos + 1, N)
      /\ Positions(Tail(Q)) = Positions(Q) \ {p.pos}
      /\ Len(Tail(Q)) = Len(Q) - 1 /\ Len(Q) \in Nat /\ Len(Q) > 0
  BY <1>1, <1>2, <1>3, NumberedTail DEF SenderInv
<1>5. p.pos \in lo + 1 .. N
  <2>1. p.pos \in N + 2 - MaxWindow .. N
    BY <1>1, <1>4, QueueFresh
  <2> QED
    BY <2>1, <1>3
<1>6. Numbered(O', lo, N) /\ Positions(O)' = Positions(O) \cup {p.pos}
  <2>1. Minus(next_outgoing_seqnum, MaxWindow) = SeqnumOf(lo)
    <3>1. MaxWindow \in 0 .. MaxWindow
      BY <1>3
    <3> QED
      BY <1>1, <1>3, <3>1, SeqnumOfMinus DEF SenderInv
  <2>2. Numbered(O, lo, lo + MaxWindow - 1) /\ p.pos \in lo + 1 .. lo + MaxWindow - 1
    BY <1>1, <1>3, <1>5 DEF SenderInv
  <2> HIDE DEF p, lo, O
  <2>3. /\ Numbered(Insert(O, p, SeqnumOf(lo)), lo, lo + MaxWindow - 1)
        /\ Positions(Insert(O, p, SeqnumOf(lo))) = Positions(O) \cup {p.pos}
    BY <1>3, <1>4, <2>2, InsertLemma
  <2>4. Positions(O)' = Positions(O')
    BY DEF Positions, O
  <2> QED
    BY <1>2, <1>3, <2>1, <2>3, <2>4
<1>7. Positions(Q)' = Positions(Q) \ {p.pos}
  BY <1>2, <1>4 DEF Positions
<1>8. Numbered(Q', 1, N)
  <2>1. p.pos + 1 \in Int
    BY <1>4
  <2>2. \A pos \in Positions(Tail(Q)) : pos \in 1 .. N
    BY <1>1, <1>3, <1>4, NumberedBounds DEF SenderInv
  <2> QED
    BY <1>2, <1>3, <1>4, <2>1, <2>2, NumberedWithin
<1>9. ASSUME Q' # <<>>
      PROVE  Overtaking' <= MaxOvertaking
  <2>1. Head(Q').pos \in p.pos + 1 .. N
    <3>1. Tail(Q) # <<>> /\ Numbered(Tail(Q), p.pos + 1, N) /\ p.pos + 1 \in Int
      BY <1>2, <1>4, <1>9
    <3> QED
      BY <1>2, <1>3, <3>1, NumberedTail
  <2>2. Overtaking' = N - Head(Q').pos + 1 - (Len(Q) - 1)
    BY <1>2, <1>4 DEF Overtaking
  <2>3. Overtaking = N - p.pos + 1 - Len(Q)
    BY DEF Overtaking
  <2>4. Overtaking <= MaxOvertaking
    BY <1>1, <1>2 DEF SenderInv
  <2>5. N \in Nat /\ Len(Q) \in Nat /\ p.pos \in 1 .. N /\ MaxOvertaking \in Nat
    BY <1>3, <1>4, OvertakingAssumption
  <2>6. Overtaking' <= Overtaking /\ Overtaking' \in Int /\ Overtaking \in Int
    <3>1. /\ p.pos \in Int /\ Head(Q').pos \in Int /\ N \in Int /\ Len(Q) \in Int
          /\ p.pos < Head(Q').pos
      BY <2>1, <2>5
    <3>2. /\ N - Head(Q').pos + 1 - (Len(Q) - 1) <= N - p.pos + 1 - Len(Q)
          /\ N - Head(Q').pos + 1 - (Len(Q) - 1) \in Int /\ N - p.pos + 1 - Len(Q) \in Int
      BY <3>1, OneLess
    <3> QED
      BY <2>2, <2>3, <3>2
  <2> QED
    BY <2>4, <2>5, <2>6
<1> HIDE DEF p, lo
<1>10. SenderInv'
  <2>1. Positions(Q)' \cap Positions(O)' = {}
    BY <1>1, <1>6, <1>7 DEF SenderInv
  <2>2. Len(Q') + MaxOvertaking < MaxWindow
    <3>1. Len(Q) + MaxOvertaking < MaxWindow
      BY <1>1 DEF SenderInv
    <3> QED
      BY <1>2, <1>3, <1>4, <3>1, OvertakingAssumption
  <2> QED
    BY <1>1, <1>2, <1>6, <1>8, <1>9, <2>1, <2>2 DEF SenderInv, lo
<1>11. NetworkInv'
  <2>1. Copies(data \cup {p}, lo, N)
    <3>1. p.pos \in lo .. N
      BY <1>3, <1>5
    <3> QED
      BY <1>1, <1>4, <3>1 DEF Copies, NetworkInv, lo
  <2>2. \A pos : Received(pos)' <=> Received(pos)
    BY <1>2 DEF Received, receiverVars, Positions
  <2> QED
    BY <1>1, <1>2, <2>1, <2>2 DEF NetworkInv, lo
<1>12. NothingForgotten'
  <2>1. \A pos : Received(pos)' <=> Received(pos)
    BY <1>2 DEF Received, receiverVars, Positions
  <2> QED
    BY <1>1, <1>2, <1>6, <1>7, <2>1 DEF NothingForgotten
<1>13. CommandsInv' /\ StreamInv' /\ ReceiverInv' /\ HandedInv'
  BY <1>1, <1>2 DEF CommandsInv, StreamInv, ReceiverInv, HandedInv, Made, receiverVars, Positions
<1> QED
  BY <1>10, <1>11, <1>12, <1>13 DEF IInv

(* When a ping must be queued because the window is full, at most one      *)
(* packet is queued before it: the full window and the queue would not fit *)
(* between the oldest packet and the last number otherwise.                *)
LEMMA QueueShort ==
    ASSUME CommandsInv, StreamInv, SenderInv, HasSeqnum(next_outgoing_seqnum),
           next_outgoing_seqnum \in Seqnum,
           ~(Len(outgoing_reliables_sent) < m_window_size)
    PROVE  Len(queued_reliables) <= 1
<1> DEFINE N == Len(stream)
           Q == queued_reliables
           O == outgoing_reliables_sent
           h == Head(O).pos
           g == Head(Q).pos
<1>1. N \in Nat /\ MaxWindow \in Nat /\ MaxWindow > 0 /\ 1 \in Int /\ N \in Int
      /\ N + 1 - MaxWindow \in Int
  BY Sizes
<1>2. m_window_size \in Nat /\ m_window_size > 0 /\ MaxOvertaking < m_window_size /\ MaxOvertaking \in Nat
  BY WindowsAssumption, OvertakingAssumption DEF SenderInv
<1>3. /\ Numbered(Q, 1, N) /\ Numbered(O, N + 1 - MaxWindow, N)
      /\ Positions(Q) \cap Positions(O) = {}
      /\ Len(Q) \in Nat /\ Len(O) \in Nat
  BY LenProperties DEF SenderInv, Numbered
<1>4. O # <<>> /\ Len(O) >= m_window_size
  BY <1>2, <1>3
<1>5. /\ h \in N + 1 - MaxWindow .. N
      /\ \A pos \in Positions(O) : pos >= h /\ pos \in N + 1 - MaxWindow .. N
  <2>1. Positions(O) \subseteq N + 1 - MaxWindow .. N
    BY <1>1, <1>3, NumberedBounds
  <2> QED
    BY <1>1, <1>3, <1>4, <2>1, NumberedTail
<1>6. N + 1 - h <= m_window_size + 1
  <2>1. Plus(next_outgoing_seqnum, 0) = next_outgoing_seqnum /\ 0 \in 0 .. MaxWindow - 1
    BY <1>1 DEF Plus, Wrap, Seqnum, SeqnumCount
  <2>2. N + 1 + 0 - h <= m_window_size + 1
    BY <1>4, <2>1, WindowRoom
  <2>3. h \in Int /\ N \in Int
    BY <1>1, <1>5
  <2>4. N + 1 + 0 - h = N + 1 - h
    <3> HIDE DEF N, h
    <3> QED
      BY <2>3
  <2> QED
    BY <2>2, <2>4
<1>7. SUFFICES ASSUME Len(Q) > 1
               PROVE  FALSE
  BY <1>3
<1>8. Q # <<>> /\ g \in 1 .. N /\ g \in Positions(Q)
      /\ \A pos \in Positions(Q) : pos >= g /\ pos \in 1 .. N
  <2>1. Q # <<>>
    BY <1>7
  <2>2. Positions(Q) \subseteq 1 .. N
    BY <1>1, <1>3, NumberedBounds
  <2> QED
    BY <1>1, <1>3, <2>1, <2>2, NumberedTail
<1>9. /\ Cardinality(Positions(Q)) = Len(Q) /\ Cardinality(Positions(O)) = Len(O)
  BY <1>3, PositionsCount DEF Numbered
<1>10. h \in Positions(O)
  BY <1>1, <1>3, <1>4, NumberedTail
<1> HIDE DEF N, g, h
<1>11. CASE g > h
  <2>1. Positions(Q) \subseteq h .. N /\ Positions(O) \subseteq h .. N
    <3>1. ASSUME NEW pos \in Positions(Q) PROVE pos \in h .. N
      <4>1. pos >= g /\ pos \in 1 .. N /\ g \in 1 .. N /\ h \in N + 1 - MaxWindow .. N
        BY <1>5, <1>8
      <4> QED
        BY <4>1, <1>1, <1>11
    <3>2. ASSUME NEW pos \in Positions(O) PROVE pos \in h .. N
      <4>1. pos >= h /\ pos \in N + 1 - MaxWindow .. N /\ h \in N + 1 - MaxWindow .. N
        BY <1>5
      <4> QED
        BY <4>1, <1>1
    <3> QED
      BY <3>1, <3>2
  <2>2. IsFiniteSet(h .. N) /\ Cardinality(h .. N) = N - h + 1
    BY <1>1, <1>5, FS_Interval
  <2>3. Cardinality(Positions(Q)) + Cardinality(Positions(O)) > Cardinality(h .. N)
    BY <1>1, <1>2, <1>3, <1>4, <1>5, <1>6, <1>7, <1>9, <2>2
  <2> QED
    BY <1>3, <2>1, <2>2, <2>3, FS_MajoritiesIntersect
<1>12. CASE g < h
  <2>1. Positions(Q) \subseteq g .. N /\ Positions(O) \subseteq g .. N
    <3>1. ASSUME NEW pos \in Positions(Q) PROVE pos \in g .. N
      <4>1. pos >= g /\ pos \in 1 .. N /\ g \in 1 .. N
        BY <1>8
      <4> QED
        BY <4>1, <1>1
    <3>2. ASSUME NEW pos \in Positions(O) PROVE pos \in g .. N
      <4>1. pos >= h /\ pos \in N + 1 - MaxWindow .. N /\ h \in N + 1 - MaxWindow .. N /\ g \in 1 .. N
        BY <1>5, <1>8
      <4> QED
        BY <4>1, <1>1, <1>12
    <3> QED
      BY <3>1, <3>2
  <2>2. IsFiniteSet(g .. N) /\ Cardinality(g .. N) = N - g + 1
    BY <1>1, <1>8, FS_Interval
  <2>3. N - g + 1 - Len(Q) <= MaxOvertaking
    BY <1>8 DEF SenderInv, Overtaking, N, g
  <2>4. Cardinality(Positions(Q)) + Cardinality(Positions(O)) > Cardinality(g .. N)
    BY <1>1, <1>2, <1>3, <1>4, <1>8, <1>9, <2>2, <2>3
  <2> QED
    BY <1>3, <2>1, <2>2, <2>4, FS_MajoritiesIntersect
<1>13. g # h
  BY <1>3, <1>8, <1>10
<1> QED
  BY <1>1, <1>5, <1>8, <1>11, <1>12, <1>13

(* rawSendAsPacket, directly or through the queue.                         *)
LEMMA RawSendAsPacketStep ==
    ASSUME BacklogFits, IInv, RawSendAsPacket
    PROVE  IInv'
<1> DEFINE N == Len(stream)
           Q == queued_reliables
           O == outgoing_reliables_sent
           p == [seq |-> next_outgoing_seqnum, pos |-> N + 1]
           lo == N + 2 - MaxWindow
<1>1. /\ CommandsInv /\ StreamInv /\ SenderInv /\ NetworkInv
      /\ ReceiverInv /\ HandedInv /\ NothingForgotten
  BY DEF IInv
<1>2. /\ Cardinality(Pings(stream)) < MaxPings
      /\ HasSeqnum(next_outgoing_seqnum)
      /\ next_outgoing_seqnum' = Plus(next_outgoing_seqnum, 1)
      /\ stream' = Append(stream, Ping)
      /\ acks' = Surviving(acks, Len(stream'))
      /\ UNCHANGED <<queued_commands, m_window_size, submitted, receiverVars>>
  BY DEF RawSendAsPacket, Pings
<1>3. /\ N \in Nat /\ DOMAIN stream = 1 .. N /\ MaxWindow \in Nat /\ MaxWindow > 0
      /\ Made \in 0 .. MaxChunks /\ Made \in Nat /\ SeqnumCount = 2 * MaxWindow
      /\ m_window_size \in Nat /\ m_window_size > 0 /\ m_window_size + 2 <= MaxWindow
      /\ MaxOvertaking \in Nat /\ MaxOvertaking < m_window_size
  BY <1>1, Sizes, WindowsAssumption, OvertakingAssumption, BoundsAssumption
     DEF SenderInv, BacklogFits
<1>4. lo \in Int /\ lo + MaxWindow - 1 = N + 1 /\ N + 1 \in Int /\ N \in Int /\ 1 \in Int
      /\ N + 1 \in lo + 1 .. lo + MaxWindow - 1 /\ N + 1 + 1 - MaxWindow = lo
  BY <1>3
<1>5. /\ Carries(stream', Made) /\ Len(stream') = N + 1
      /\ \A i \in 1 .. N : stream'[i] = stream[i]
      /\ stream'[N + 1] = Ping
  BY <1>1, <1>2, <1>3, CarriesPing DEF StreamInv
<1>6. Made' = Made /\ CommandsInv' /\ StreamInv'
  BY <1>1, <1>2, <1>5 DEF Made, CommandsInv, StreamInv
<1>7. p \in Packet /\ p.pos = N + 1 /\ p.seq = SeqnumOf(N + 1)
  <2>1. N + 1 \in Position
    <3>1. Len(stream') \in 0 .. MaxChunks + MaxPings
      BY <1>3, <1>5, CarriesLength
    <3> QED
      BY <1>3, <1>5, <3>1, BoundsAssumption DEF Position
  <2>2. next_outgoing_seqnum = SeqnumOf(N + 1) /\ next_outgoing_seqnum \in Seqnum
    BY <1>1, NumbersHold DEF SenderInv, NumbersInv
  <2> QED
    BY <2>1, <2>2 DEF Packet
<1>8. next_outgoing_seqnum' = SeqnumOf(N + 2)
  <2>1. 1 \in 0 .. SeqnumCount - 1 /\ N + 1 + 1 = N + 2
    BY <1>3
  <2> QED
    BY <1>1, <1>2, <1>4, <2>1, SeqnumOfPlus DEF SenderInv, Plus
<1>9. Numbered(O, lo, N + 1)
  <2>1. 1 \in 1 .. MaxWindow /\ Plus(next_outgoing_seqnum, 1 - 1) = next_outgoing_seqnum
    BY <1>1, <1>3, NumbersHold DEF NumbersInv, Plus, Wrap, Seqnum
  <2>2. Numbered(O, N + 1 + 1 - MaxWindow, N + 1)
    BY <1>1, <1>2, <2>1, SentStayInWindow
  <2> QED
    BY <1>4, <2>2
<1>10. /\ Copies(Surviving(data, Len(stream')), lo, N + 1)
       /\ Copies(acks', lo, N + 1) /\ acks' \subseteq acks
  BY <1>1, <1>2, <1>3, <1>4, <1>5, SurvivingCopies DEF NetworkInv
<1>11. ReceiverInv' /\ \A pos : Received(pos)' <=> Received(pos)
  <2>1. 1 \in Nat
    OBVIOUS
  <2> QED
    BY <1>1, <1>2, <1>5, <2>1, ReceiverKept
<1>12. HandedInv'
  <2>1. 1 \in Nat /\ 0 \in Nat /\ Made + 0 = Made
    BY <1>3
  <2>2. \A i \in N + 1 .. N + 1 : stream'[i] # Ping => stream'[i] > Made
    <3>1. \A i \in N + 1 .. N + 1 : i = N + 1
      BY <1>3
    <3> QED
      BY <1>5, <3>1
  <2> QED
    BY <1>1, <1>2, <1>5, <1>6, <2>1, <2>2, HandedKept
<1>13. Len(Q) \in Nat /\ Numbered(Q, 1, N) /\ Len(Q) + MaxOvertaking < MaxWindow
       /\ (Q # <<>> => Overtaking <= MaxOvertaking)
       /\ Positions(Q) \subseteq 1 .. N /\ Positions(O) \subseteq N + 1 - MaxWindow .. N
       /\ Positions(Q) \cap Positions(O) = {}
  <2>1. N + 1 - MaxWindow \in Int
    BY <1>4, <1>3
  <2> QED
    BY <1>1, <1>4, <2>1, NumberedBounds DEF SenderInv
<1>14. N + 1 \notin Positions(Q) /\ N + 1 \notin Positions(O)
  <2>1. N + 1 \notin 1 .. N /\ N + 1 \notin N + 1 - MaxWindow .. N
    BY <1>3
  <2> QED
    BY <1>13, <2>1
<1> HIDE DEF p, lo, N
<1>15. CASE Len(O) < m_window_size
  <2>1. /\ Q # <<>> => Overtaking < MaxOvertaking
        /\ O' = Insert(O, p, Minus(next_outgoing_seqnum', MaxWindow))
        /\ data' = Surviving(data, Len(stream')) \cup {p}
        /\ Q' = Q
    BY <1>15 DEF RawSendAsPacket, SendAsPacketReliable, p, N
  <2>2. Numbered(O', lo, N + 1) /\ Positions(O)' = Positions(O) \cup {N + 1}
    <3>1. Minus(next_outgoing_seqnum', MaxWindow) = SeqnumOf(lo)
      <4>1. MaxWindow \in 0 .. MaxWindow /\ N + 2 \in Int
        BY <1>3
      <4>2. Minus(SeqnumOf(N + 2), MaxWindow) = SeqnumOf((N + 2) - MaxWindow)
        BY <4>1, SeqnumOfMinus
      <4>3. lo = (N + 2) - MaxWindow
        BY <1>3 DEF lo
      <4> QED
        BY <1>8, <4>2, <4>3
    <3>2. Numbered(O, lo, lo + MaxWindow - 1) /\ p.pos \in lo + 1 .. lo + MaxWindow - 1
      BY <1>4, <1>7, <1>9
    <3> HIDE DEF O
    <3>3. /\ Numbered(Insert(O, p, SeqnumOf(lo)), lo, lo + MaxWindow - 1)
          /\ Positions(Insert(O, p, SeqnumOf(lo))) = Positions(O) \cup {p.pos}
      BY <1>4, <1>7, <3>2, InsertLemma
    <3>4. Positions(O)' = Positions(O')
      BY DEF Positions, O
    <3> QED
      BY <1>4, <1>7, <2>1, <3>1, <3>3, <3>4
  <2>3. Positions(Q)' = Positions(Q) /\ Numbered(Q', 1, N + 1)
    <3>1. Positions(Q)' = Positions(Q)
      BY <2>1 DEF Positions
    <3>2. \A pos \in Positions(Q) : pos \in 1 .. N + 1
      BY <1>3, <1>13
    <3> QED
      BY <1>4, <1>13, <2>1, <3>1, <3>2, NumberedWithin
  <2>4. Q' # <<>> => Overtaking' <= MaxOvertaking
    <3>1. ASSUME Q # <<>> PROVE Overtaking' <= MaxOvertaking
      <4>1. Head(Q).pos \in 1 .. N
        BY <1>4, <1>13, <3>1, NumberedTail
      <4>2. Overtaking' = (N + 1) - Head(Q).pos + 1 - Len(Q)
        BY <1>5, <2>1 DEF Overtaking
      <4>3. Overtaking = N - Head(Q).pos + 1 - Len(Q)
        BY DEF Overtaking, N
      <4>4. N \in Nat /\ Len(Q) \in Nat /\ Overtaking < MaxOvertaking /\ MaxOvertaking \in Nat
        BY <1>3, <1>13, <2>1, <3>1
      <4>5. Overtaking' = Overtaking + 1 /\ Overtaking \in Int
        <5>1. N \in Int /\ Head(Q).pos \in Int /\ Len(Q) \in Int
          BY <4>1, <4>4
        <5>2. /\ (N + 1) - Head(Q).pos + 1 - Len(Q) = (N - Head(Q).pos + 1 - Len(Q)) + 1
              /\ N - Head(Q).pos + 1 - Len(Q) \in Int
          BY <5>1, OneMore
        <5> QED
          BY <4>2, <4>3, <5>2
      <4> QED
        BY <4>4, <4>5
    <3> QED
      BY <2>1, <3>1
  <2>5. SenderInv'
    <3>1. Positions(Q)' \cap Positions(O)' = {}
      BY <1>13, <1>14, <2>2, <2>3
    <3>2. Len(stream') + 1 = N + 2 /\ Len(stream') + 1 - MaxWindow = lo
      BY <1>3, <1>5 DEF lo
    <3> QED
      BY <1>1, <1>2, <1>5, <1>8, <1>13, <2>1, <2>2, <2>3, <2>4, <3>1, <3>2 DEF SenderInv
  <2>6. NetworkInv'
    <3>1. N + 1 \in lo .. N + 1
      BY <1>3 DEF lo
    <3>2. Copies(data', lo, N + 1)
      BY <1>7, <1>10, <2>1, <3>1 DEF Copies
    <3>3. Len(stream') + 1 - MaxWindow = lo
      BY <1>3, <1>5 DEF lo
    <3> QED
      BY <1>1, <1>5, <1>10, <1>11, <3>2, <3>3 DEF NetworkInv
  <2>7. NothingForgotten'
    <3> SUFFICES ASSUME NEW pos \in DOMAIN stream'
                 PROVE  \/ Received(pos)'
                        \/ pos \in Positions(O)'
                        \/ pos \in Positions(Q)'
      BY DEF NothingForgotten
    <3>1. pos \in 1 .. N + 1
      BY <1>5, LenProperties DEF Carries
    <3>2. CASE pos \in 1 .. N
      BY <1>1, <1>3, <1>11, <2>2, <2>3, <3>2 DEF NothingForgotten
    <3>3. CASE pos = N + 1
      BY <2>2, <3>3
    <3> QED
      BY <3>1, <3>2, <3>3, <1>3
  <2> QED
    BY <1>6, <1>11, <1>12, <2>5, <2>6, <2>7 DEF IInv
<1>16. CASE ~(Len(O) < m_window_size)
  <2>1. /\ Q' = Append(Q, p)
        /\ data' = Surviving(data, Len(stream'))
        /\ O' = O
    BY <1>16 DEF RawSendAsPacket, p, N
  <2>2. /\ Numbered(Q', 1, N + 1) /\ Positions(Q)' = Positions(Q) \cup {N + 1}
        /\ Len(Q') = Len(Q) + 1
    <3>1. 1 <= N + 1
      BY <1>3
    <3>2. Positions(Q)' = Positions(Q')
      BY DEF Positions
    <3> QED
      BY <1>4, <1>7, <1>13, <2>1, <3>1, <3>2, NumberedAppend
  <2>3. Positions(O)' = Positions(O)
    BY <2>1 DEF Positions
  <2>4. Len(Q) <= 1
    BY <1>1, <1>2, <1>16, NumbersHold, QueueShort DEF NumbersInv
  <2>5. Overtaking' <= MaxOvertaking
    <3>1. CASE Q = <<>>
      <4>1. Q' = <<p>>
        BY <2>1, <3>1
      <4>2. Overtaking' = (N + 1) - (N + 1) + 1 - 1
        BY <1>5, <1>7, <4>1 DEF Overtaking
      <4> QED
        BY <1>3, <4>2
    <3>2. CASE Q # <<>>
      <4>1. Head(Q).pos \in 1 .. N
        BY <1>4, <1>13, <3>2, NumberedTail
      <4>2. Head(Q') = Head(Q)
        <5>1. Q \in Seq(Packet)
          BY <1>13 DEF Numbered
        <5> QED
          BY <1>7, <2>1, <3>2, <5>1
      <4>3. Overtaking' = (N + 1) - Head(Q).pos + 1 - (Len(Q) + 1)
        BY <1>5, <2>2, <4>2 DEF Overtaking
      <4>4. Overtaking = N - Head(Q).pos + 1 - Len(Q)
        BY DEF Overtaking, N
      <4>5. N \in Nat /\ Len(Q) \in Nat /\ Overtaking <= MaxOvertaking /\ MaxOvertaking \in Nat
        BY <1>3, <1>13, <3>2
      <4>6. Overtaking' = Overtaking
        <5> HIDE DEF Q, O
        <5> QED
          BY <4>1, <4>3, <4>4, <4>5
      <4> QED
        BY <4>5, <4>6
    <3> QED
      BY <3>1, <3>2
  <2>6. SenderInv'
    <3>1. Positions(Q)' \cap Positions(O)' = {}
      BY <1>13, <1>14, <2>2, <2>3
    <3>2. Len(stream') + 1 = N + 2 /\ Len(stream') + 1 - MaxWindow = lo
      BY <1>3, <1>5 DEF lo
    <3>3. Len(Q') + MaxOvertaking < MaxWindow
      BY <1>3, <1>13, <2>2, <2>4
    <3> QED
      BY <1>1, <1>2, <1>5, <1>8, <1>9, <2>1, <2>2, <2>5, <3>1, <3>2, <3>3 DEF SenderInv
  <2>7. NetworkInv'
    <3>1. Len(stream') + 1 - MaxWindow = lo
      BY <1>3, <1>5 DEF lo
    <3> QED
      BY <1>1, <1>5, <1>10, <1>11, <2>1, <3>1 DEF NetworkInv
  <2>8. NothingForgotten'
    <3> SUFFICES ASSUME NEW pos \in DOMAIN stream'
                 PROVE  \/ Received(pos)'
                        \/ pos \in Positions(O)'
                        \/ pos \in Positions(Q)'
      BY DEF NothingForgotten
    <3>1. pos \in 1 .. N + 1
      BY <1>5, LenProperties DEF Carries
    <3>2. CASE pos \in 1 .. N
      BY <1>1, <1>3, <1>11, <2>2, <2>3, <3>2 DEF NothingForgotten
    <3>3. CASE pos = N + 1
      BY <2>2, <3>3
    <3> QED
      BY <3>1, <3>2, <3>3, <1>3
  <2> QED
    BY <1>6, <1>11, <1>12, <2>6, <2>7, <2>8 DEF IInv
<1> QED
  BY <1>15, <1>16

(* A packet sent again is one the sender remembers.                        *)
LEMMA ResendReliableStep ==
    ASSUME IInv, NEW pos \in Position, ResendReliable(pos)
    PROVE  IInv'
<1>1. /\ CommandsInv /\ StreamInv /\ SenderInv /\ NetworkInv
      /\ ReceiverInv /\ HandedInv /\ NothingForgotten
  BY DEF IInv
<1>2. UNCHANGED <<senderVars, receiverVars, acks>>
  BY DEF ResendReliable
<1>3. PICK i \in DOMAIN outgoing_reliables_sent :
        data' = data \cup {outgoing_reliables_sent[i]}
  BY DEF ResendReliable
<1>4. NetworkInv'
  <2>1. Len(stream) \in Int /\ Len(stream) + 1 - MaxWindow \in Int
    BY <1>1, Sizes
  <2>2. /\ outgoing_reliables_sent[i] \in Packet
        /\ outgoing_reliables_sent[i].pos \in Len(stream) + 1 - MaxWindow .. Len(stream)
        /\ outgoing_reliables_sent[i].seq = SeqnumOf(outgoing_reliables_sent[i].pos)
    BY <1>1, <2>1, NumberedBounds DEF SenderInv
  <2>3. Copies(data', Len(stream) + 1 - MaxWindow, Len(stream))
    BY <1>1, <1>3, <2>2 DEF NetworkInv, Copies
  <2> QED
    BY <1>1, <1>2, <2>3 DEF NetworkInv, senderVars, receiverVars, Received, Positions
<1>5. CommandsInv' /\ StreamInv' /\ SenderInv'
  <2>1. m_window_size' \in Windows
    BY <1>1, <1>2 DEF SenderInv, senderVars
  <2>2. SenderInv'
    BY <1>1, <1>2, <2>1, SenderKept DEF senderVars
  <2>3. CommandsInv' /\ StreamInv'
    BY <1>1, <1>2 DEF CommandsInv, StreamInv, Made, senderVars
  <2> QED
    BY <2>2, <2>3
<1>6. ReceiverInv' /\ HandedInv' /\ NothingForgotten'
  BY <1>1, <1>2 DEF ReceiverInv, HandedInv, NothingForgotten, Received, Made, senderVars,
     receiverVars, Positions
<1> QED
  BY <1>4, <1>5, <1>6 DEF IInv

(* A new window size.                                                      *)
LEMMA UpdateTimersStep ==
    ASSUME IInv, UpdateTimers
    PROVE  IInv'
<1>1. /\ CommandsInv /\ StreamInv /\ SenderInv /\ NetworkInv
      /\ ReceiverInv /\ HandedInv /\ NothingForgotten
  BY DEF IInv
<1>2. /\ m_window_size' \in Windows
      /\ UNCHANGED <<queued_commands, queued_reliables, outgoing_reliables_sent,
                     next_outgoing_seqnum, submitted, stream, receiverVars, data, acks>>
  BY DEF UpdateTimers
<1>3. CommandsInv' /\ StreamInv' /\ SenderInv'
  <2>1. SenderInv'
    BY <1>1, <1>2, SenderKept
  <2>2. CommandsInv' /\ StreamInv'
    BY <1>1, <1>2 DEF CommandsInv, StreamInv, Made
  <2> QED
    BY <2>1, <2>2
<1>4. NetworkInv'
  BY <1>1, <1>2 DEF NetworkInv, receiverVars, Received, Positions
<1>5. ReceiverInv' /\ HandedInv' /\ NothingForgotten'
  BY <1>1, <1>2 DEF ReceiverInv, HandedInv, NothingForgotten, Received, Made,
     receiverVars, Positions
<1> QED
  BY <1>3, <1>4, <1>5 DEF IInv

(* An ACK takes out exactly the packet it is for, which the receiver has.  *)
LEMMA ReceiveAckStep ==
    ASSUME IInv, NEW pos \in Position, ReceiveAck(pos)
    PROVE  IInv'
<1> DEFINE N == Len(stream)
           O == outgoing_reliables_sent
           lo == N + 1 - MaxWindow
<1>1. /\ CommandsInv /\ StreamInv /\ SenderInv /\ NetworkInv
      /\ ReceiverInv /\ HandedInv /\ NothingForgotten
  BY DEF IInv
<1>2. UNCHANGED <<queued_commands, queued_reliables, next_outgoing_seqnum,
                  m_window_size, submitted, stream, receiverVars, data, acks>>
  BY DEF ReceiveAck
<1>3. PICK a \in acks : a.pos = pos /\ O' = PopSeqnum(O, a.seq)
  BY DEF ReceiveAck
<1>4. N \in Int /\ lo \in Int /\ N - lo <= SeqnumCount - 1
  BY <1>1, Sizes
<1>5. a.pos \in lo .. N /\ a.seq = SeqnumOf(a.pos) /\ Received(a.pos)
  BY <1>1, <1>3 DEF NetworkInv, Copies
<1>6. Numbered(O', lo, N) /\ Positions(O)' = Positions(O) \ {a.pos}
  <2>1. Numbered(O, lo, N)
    BY <1>1 DEF SenderInv
  <2>2. Positions(O)' = Positions(O')
    BY DEF Positions
  <2> HIDE DEF O, N, lo
  <2> QED
    BY <1>3, <1>4, <1>5, <2>1, <2>2, PopLemma
<1>7. SenderInv'
  <2>1. Positions(queued_reliables)' = Positions(queued_reliables) /\ Overtaking' = Overtaking
    BY <1>2 DEF Positions, Overtaking
  <2>2. Positions(queued_reliables)' \cap Positions(O)' = {}
    BY <1>1, <1>6, <2>1 DEF SenderInv
  <2> QED
    BY <1>1, <1>2, <1>6, <2>1, <2>2 DEF SenderInv
<1>8. \A q : Received(q)' <=> Received(q)
  BY <1>2 DEF Received, receiverVars, Positions
<1>9. NothingForgotten'
  BY <1>1, <1>2, <1>5, <1>6, <1>8 DEF NothingForgotten, Positions
<1>10. CommandsInv' /\ StreamInv' /\ NetworkInv'
  BY <1>1, <1>2, <1>8 DEF CommandsInv, StreamInv, NetworkInv, Made
<1>11. ReceiverInv' /\ HandedInv'
  BY <1>1, <1>2 DEF ReceiverInv, HandedInv, Made, receiverVars, Positions
<1> QED
  BY <1>7, <1>9, <1>10, <1>11 DEF IInv

(* Losing a copy.                                                          *)
LEMMA LoseStep ==
    ASSUME IInv, Lose
    PROVE  IInv'
<1>1. /\ CommandsInv /\ StreamInv /\ SenderInv /\ NetworkInv
      /\ ReceiverInv /\ HandedInv /\ NothingForgotten
  BY DEF IInv
<1>2. UNCHANGED <<senderVars, receiverVars>> /\ data' \subseteq data /\ acks' \subseteq acks
  BY DEF Lose
<1>3. NetworkInv'
  BY <1>1, <1>2 DEF NetworkInv, Copies, senderVars, receiverVars, Received, Positions
<1>4. CommandsInv' /\ StreamInv' /\ SenderInv'
  <2>1. m_window_size' \in Windows
    BY <1>1, <1>2 DEF SenderInv, senderVars
  <2>2. SenderInv'
    BY <1>1, <1>2, <2>1, SenderKept DEF senderVars
  <2>3. CommandsInv' /\ StreamInv'
    BY <1>1, <1>2 DEF CommandsInv, StreamInv, Made, senderVars
  <2> QED
    BY <2>2, <2>3
<1>5. ReceiverInv' /\ HandedInv' /\ NothingForgotten'
  BY <1>1, <1>2 DEF ReceiverInv, HandedInv, NothingForgotten, Received, Made, senderVars,
     receiverVars, Positions
<1> QED
  BY <1>3, <1>4, <1>5 DEF IInv

(* When the buffer has nothing to hand on, the packet the receiver waits   *)
(* for is not in it, so the sender has it still: the sender is at most     *)
(* half the number space ahead.                                            *)
LEMMA Ahead ==
    ASSUME IInv, ~BufferReady
    PROVE  /\ Len(delivered) + 1 \notin Positions(incoming_reliables)
           /\ Len(stream) <= Len(delivered) + MaxWindow
<1> DEFINE N == Len(stream)
           D == Len(delivered)
           B == incoming_reliables
<1>1. /\ CommandsInv /\ StreamInv /\ SenderInv /\ NetworkInv
      /\ ReceiverInv /\ HandedInv /\ NothingForgotten
  BY DEF IInv
<1>2. N \in Nat /\ DOMAIN stream = 1 .. N /\ MaxWindow \in Nat /\ D \in 0 .. N /\ D \in Nat
      /\ D + 1 \in Int /\ D + MaxWindow \in Int /\ N + 1 - MaxWindow \in Int /\ N \in Int
  BY <1>1, Sizes DEF ReceiverInv
<1>3. D + 1 \notin Positions(B)
  <2> SUFFICES ASSUME D + 1 \in Positions(B)
               PROVE  FALSE
    OBVIOUS
  <2>1. B # <<>> /\ Numbered(B, D + 1, D + MaxWindow)
    BY <1>1 DEF Positions, ReceiverInv
  <2>2. /\ Head(B).pos \in D + 1 .. D + MaxWindow /\ D + 1 >= Head(B).pos
        /\ Head(B).seq = SeqnumOf(Head(B).pos)
    BY <1>2, <2>1, NumberedTail
  <2>3. Head(B).pos = D + 1
    BY <1>2, <2>2
  <2>4. Head(B).seq = next_incoming_seqnum
    BY <1>1, <2>2, <2>3 DEF ReceiverInv
  <2> QED
    BY <2>1, <2>4 DEF BufferReady
<1>4. N <= D + MaxWindow
  <2> SUFFICES ASSUME N > D + MaxWindow
               PROVE  FALSE
    BY <1>2
  <2>1. D + 1 \in DOMAIN stream
    BY <1>2
  <2>2. D + 1 \notin 1 .. D
    BY <1>2
  <2>3. D + 1 \in Positions(outgoing_reliables_sent) \cup Positions(queued_reliables)
    BY <1>1, <1>3, <2>1, <2>2 DEF NothingForgotten, Received
  <2>4. CASE D + 1 \in Positions(outgoing_reliables_sent)
    <3>1. D + 1 \in N + 1 - MaxWindow .. N
      BY <1>1, <1>2, <2>4, NumberedBounds DEF SenderInv
    <3> QED
      BY <1>2, <3>1
  <2>5. CASE D + 1 \in Positions(queued_reliables)
    <3>1. D + 1 \in N + 2 - MaxWindow .. N
      BY <1>1, <2>5, QueueFresh
    <3> QED
      BY <1>2, <3>1
  <2> QED
    BY <2>3, <2>4, <2>5
<1> QED
  BY <1>3, <1>4

(* Hence the number of a copy tells what it is.                            *)
LEMMA CopiesJudged ==
    ASSUME IInv
    PROVE  CopyJudgedRightly
<1> DEFINE N == Len(stream)
           D == Len(delivered)
<1>1. /\ CommandsInv /\ StreamInv /\ SenderInv /\ NetworkInv
      /\ ReceiverInv /\ HandedInv /\ NothingForgotten
  BY DEF IInv
<1>2. SUFFICES ASSUME ~BufferReady, NEW p \in data
               PROVE  /\ p.pos <= D => ~InWindow(p.seq, next_incoming_seqnum)
                      /\ p.pos > D => InWindow(p.seq, next_incoming_seqnum)
                      /\ p.seq = next_incoming_seqnum <=> p.pos = D + 1
  BY DEF CopyJudgedRightly
<1>3. N \in Nat /\ MaxWindow \in Nat /\ MaxWindow > 0 /\ SeqnumCount = 2 * MaxWindow
      /\ D \in 0 .. N /\ D \in Nat
  BY <1>1, Sizes DEF ReceiverInv
<1>4. p.pos \in N + 1 - MaxWindow .. N /\ p.seq = SeqnumOf(p.pos) /\ p.pos \in Int
  BY <1>1, <1>3 DEF NetworkInv, Copies
<1>5. N <= D + MaxWindow
  BY <1>2, Ahead
<1>6. next_incoming_seqnum = SeqnumOf(D + 1) /\ D + 1 \in Int
  BY <1>1, <1>3 DEF ReceiverInv
<1> HIDE DEF N, D
<1>7. CASE p.pos > D
  <2>1. p.pos \in D + 1 .. D + 1 + SeqnumCount - 1 /\ p.pos < (D + 1) + MaxWindow
        /\ p.pos - (D + 1) \in 0 .. SeqnumCount - 1
    BY <1>3, <1>4, <1>5, <1>7
  <2>2. InWindow(p.seq, next_incoming_seqnum)
    BY <1>4, <1>6, <2>1, WindowOf
  <2>3. SeqnumOf(D + 1) = SeqnumOf(p.pos) <=> D + 1 = p.pos
    BY <1>4, <1>6, <2>1, SeqnumOfDistance
  <2> QED
    BY <1>3, <1>4, <1>6, <1>7, <2>2, <2>3
<1>8. CASE p.pos <= D
  <2>1. (D + 1) - p.pos \in 1 .. MaxWindow
    BY <1>3, <1>4, <1>8
  <2>2. /\ p.seq \in Seqnum /\ next_incoming_seqnum \in Seqnum
        /\ Distance(p.seq, next_incoming_seqnum) = (D + 1) - p.pos
    <3>1. (D + 1) - p.pos \in 0 .. SeqnumCount - 1
      BY <1>3, <2>1
    <3> QED
      BY <1>4, <1>6, <3>1, SeqnumOfDistance
  <2>3. p.seq # next_incoming_seqnum /\ Distance(next_incoming_seqnum, p.seq) >= MaxWindow
    BY <1>3, <2>1, <2>2 DEF Distance, Minus, Seqnum
  <2>4. ~InWindow(p.seq, next_incoming_seqnum)
    <3>1. MaxWindow \in 1 .. MaxWindow
      BY <1>3
    <3>2. Distance(next_incoming_seqnum, p.seq) \in Int
      BY <1>3, <2>2 DEF Distance, Minus, Seqnum
    <3> QED
      BY <1>3, <2>2, <2>3, <3>1, <3>2, WindowLemma DEF WindowIsDistance, InWindow
  <2> QED
    BY <1>3, <1>4, <1>8, <2>3, <2>4
<1> QED
  BY <1>3, <1>4, <1>7, <1>8

(* The chunk at the next position is the next chunk.                       *)
LEMMA NextChunk ==
    ASSUME CommandsInv, StreamInv, ReceiverInv, HandedInv,
           Len(delivered) + 1 <= Len(stream), stream[Len(delivered) + 1] # Ping
    PROVE  /\ stream[Len(delivered) + 1] = Len(handed) + 1
           /\ Len(handed) + 1 <= Made /\ Len(handed) + 1 \in Chunk
<1> DEFINE N == Len(stream)
           D == Len(delivered)
           H == Len(handed)
<1>1. N \in Nat /\ D \in Nat /\ D + 1 \in 1 .. N /\ H \in Nat /\ Made \in 0 .. MaxChunks
      /\ DOMAIN stream = 1 .. N
  BY Sizes, LenProperties DEF ReceiverInv, HandedInv
<1>2. stream[D + 1] \in 1 .. Made /\ stream[D + 1] > H
  <2>1. stream[D + 1] \in 1 .. Made
    BY <1>1 DEF StreamInv, Carries
  <2>2. ~(stream[D + 1] <= H)
    BY <1>1 DEF HandedInv
  <2> QED
    BY <1>1, <2>1, <2>2
<1>3. H + 1 \in 1 .. Made
  BY <1>1, <1>2
<1>4. PICK j \in DOMAIN stream : stream[j] = H + 1
  BY <1>3 DEF StreamInv, Carries
<1>5. j \in 1 .. N /\ j > D /\ stream[j] # Ping
  <2>1. stream[j] # Ping
    BY <1>1, <1>4 DEF Ping
  <2>2. ~(j <= D)
    BY <1>1, <1>4, <2>1 DEF HandedInv
  <2> QED
    BY <1>1, <2>1, <2>2
<1>6. j = D + 1
  <2>1. CASE j > D + 1
    <3>1. stream[D + 1] < stream[j]
      BY <1>1, <1>5, <2>1 DEF StreamInv, Carries
    <3> QED
      BY <1>1, <1>2, <1>4, <3>1
  <2> QED
    BY <1>1, <1>5, <2>1
<1> QED
  BY <1>1, <1>3, <1>4, <1>6, BoundsAssumption DEF Chunk

(* Handing on the packet the receiver waits for.                           *)
LEMMA HandOnStep ==
    ASSUME IInv, Len(delivered) + 1 <= Len(stream), HandOn(Len(delivered) + 1),
           UNCHANGED senderVars,
           Numbered(incoming_reliables', Len(delivered) + 2, Len(delivered) + 1 + MaxWindow),
           Positions(incoming_reliables') = Positions(incoming_reliables) \ {Len(delivered) + 1}
    PROVE  /\ ReceiverInv' /\ HandedInv'
           /\ \A pos : Received(pos) => Received(pos)'
           /\ \A pos : pos = Len(delivered) + 1 => Received(pos)'
<1> DEFINE N == Len(stream)
           D == Len(delivered)
           H == Len(handed)
<1>1. /\ CommandsInv /\ StreamInv /\ SenderInv /\ NetworkInv
      /\ ReceiverInv /\ HandedInv /\ NothingForgotten
  BY DEF IInv
<1>2. /\ N \in Nat /\ N <= MaxChunks + MaxPings /\ DOMAIN stream = 1 .. N /\ MaxWindow \in Nat
      /\ D \in Nat /\ H \in Nat /\ D + 1 \in 1 .. N /\ delivered \in Seq(Position)
      /\ handed \in Seq(Chunk) /\ Made \in 0 .. MaxChunks /\ MaxWindow > 0
      /\ SeqnumCount = 2 * MaxWindow
  BY <1>1, Sizes, LenProperties DEF ReceiverInv, HandedInv
<1>3. /\ next_incoming_seqnum' = Plus(next_incoming_seqnum, 1)
      /\ delivered' = Append(delivered, D + 1)
      /\ handed' = IF stream[D + 1] = Ping THEN handed ELSE Append(handed, stream[D + 1])
  BY DEF HandOn
<1>4. /\ delivered' \in Seq(Position) /\ Len(delivered') = D + 1
      /\ \A i \in 1 .. D + 1 : delivered'[i] = i
  <2>1. D + 1 \in Position
    BY <1>2, BoundsAssumption DEF Position
  <2>2. /\ delivered' \in Seq(Position) /\ Len(delivered') = D + 1
        /\ \A i \in 1 .. D : delivered'[i] = delivered[i]
        /\ delivered'[D + 1] = D + 1
    BY <1>2, <1>3, <2>1, AppendProperties
  <2>3. ASSUME NEW i \in 1 .. D + 1 PROVE delivered'[i] = i
    <3>1. CASE i \in 1 .. D
      BY <1>1, <2>2, <3>1 DEF ReceiverInv
    <3>2. CASE i = D + 1
      BY <2>2, <3>2
    <3> QED
      BY <1>2, <3>1, <3>2
  <2> QED
    BY <2>2, <2>3
<1>5. UNCHANGED <<stream, queued_commands, submitted>> /\ Made' = Made
  BY DEF senderVars, Made
<1>6. Positions(incoming_reliables)' = Positions(incoming_reliables) \ {D + 1}
  BY DEF Positions
<1>7. ReceiverInv'
  <2>1. next_incoming_seqnum' = SeqnumOf(D + 1 + 1)
    <3>1. D + 1 \in Int /\ 1 \in 0 .. SeqnumCount - 1
      BY <1>2
    <3> QED
      BY <1>1, <1>3, <3>1, SeqnumOfPlus DEF ReceiverInv, Plus
  <2>2. D + 1 + 1 = D + 2 /\ Len(delivered') \in 0 .. Len(stream')
    BY <1>2, <1>4, <1>5
  <2>3. Numbered(incoming_reliables', Len(delivered') + 1, Len(delivered') + MaxWindow)
    BY <1>4, <2>2
  <2>4. \A pos \in Positions(incoming_reliables)' : pos <= Len(stream')
    BY <1>1, <1>5, <1>6 DEF ReceiverInv
  <2> QED
    BY <1>4, <2>1, <2>2, <2>3, <2>4 DEF ReceiverInv
<1>8. HandedInv'
  <2>1. CASE stream[D + 1] = Ping
    <3>1. handed' = handed
      BY <1>3, <2>1
    <3>2. ASSUME NEW i \in 1 .. N, stream[i] # Ping
          PROVE  i <= D + 1 <=> stream[i] <= H
      <4>1. i # D + 1
        BY <2>1, <3>2
      <4>2. i <= D <=> stream[i] <= H
        BY <1>1, <1>2, <3>2 DEF HandedInv
      <4> QED
        BY <1>2, <4>1, <4>2
    <3> QED
      BY <1>1, <1>2, <1>4, <1>5, <3>1, <3>2 DEF HandedInv
  <2>2. CASE stream[D + 1] # Ping
    <3>1. stream[D + 1] = H + 1 /\ H + 1 <= Made /\ H + 1 \in Chunk
      BY <1>1, <2>2, NextChunk
    <3>2. /\ handed' \in Seq(Chunk) /\ Len(handed') = H + 1
          /\ \A i \in 1 .. H : handed'[i] = handed[i]
          /\ handed'[H + 1] = H + 1
      BY <1>2, <1>3, <2>2, <3>1, AppendProperties
    <3>3. ASSUME NEW i \in 1 .. H + 1 PROVE handed'[i] = i
      <4>1. CASE i \in 1 .. H
        BY <1>1, <3>2, <4>1 DEF HandedInv
      <4>2. CASE i = H + 1
        BY <3>2, <4>2
      <4> QED
        BY <1>2, <4>1, <4>2
    <3>4. ASSUME NEW i \in 1 .. N, stream[i] # Ping
          PROVE  i <= D + 1 <=> stream[i] <= H + 1
      <4>0. stream[i] \in 1 .. Made
        BY <1>1, <1>2, <3>4 DEF StreamInv, Carries
      <4>1. CASE i <= D
        <5>1. stream[i] <= H
          BY <1>1, <1>2, <3>4, <4>1 DEF HandedInv
        <5> QED
          BY <1>2, <4>0, <4>1, <5>1
      <4>2. CASE i = D + 1
        BY <1>2, <3>1, <4>2
      <4>3. CASE i > D + 1
        <5>1. stream[D + 1] < stream[i]
          BY <1>1, <1>2, <2>2, <3>4, <4>3 DEF StreamInv, Carries
        <5> QED
          BY <1>2, <3>1, <4>0, <4>3, <5>1
      <4> QED
        BY <1>2, <4>1, <4>2, <4>3
    <3> QED
      BY <1>2, <1>4, <1>5, <3>1, <3>2, <3>3, <3>4 DEF HandedInv
  <2> QED
    BY <2>1, <2>2
<1>9. \A pos : Received(pos) => Received(pos)'
  <2> SUFFICES ASSUME NEW pos, Received(pos)
               PROVE  Received(pos)'
    OBVIOUS
  <2>1. CASE pos \in 1 .. D
    <3>1. pos \in 1 .. D + 1
      BY <1>2, <2>1
    <3> QED
      BY <1>4, <3>1 DEF Received
  <2>2. CASE pos \in Positions(incoming_reliables)
    <3>1. CASE pos = D + 1
      <4>1. pos \in 1 .. D + 1
        BY <1>2, <3>1
      <4> QED
        BY <1>4, <4>1 DEF Received
    <3>2. CASE pos # D + 1
      BY <1>6, <2>2, <3>2 DEF Received
    <3> QED
      BY <3>1, <3>2
  <2> QED
    BY <2>1, <2>2 DEF Received
<1>10. ASSUME NEW pos, pos = D + 1
       PROVE  Received(pos)'
  <2>1. pos \in 1 .. D + 1
    BY <1>2, <1>10
  <2> QED
    BY <1>4, <2>1 DEF Received
<1> QED
  BY <1>7, <1>8, <1>9, <1>10

(* The rest of the state when the receiver moves: it acknowledges at most  *)
(* packets it has, and has no packet less than before.                     *)
LEMMA ReceiverMoves ==
    ASSUME IInv, UNCHANGED senderVars, data' = data,
           acks' \in SUBSET (acks \cup data), \A a \in acks' : a \in acks \/ Received(a.pos)',
           \A pos : Received(pos) => Received(pos)'
    PROVE  CommandsInv' /\ StreamInv' /\ SenderInv' /\ NetworkInv' /\ NothingForgotten'
<1>1. /\ CommandsInv /\ StreamInv /\ SenderInv /\ NetworkInv
      /\ ReceiverInv /\ HandedInv /\ NothingForgotten
  BY DEF IInv
<1>2. CommandsInv' /\ StreamInv' /\ SenderInv'
  <2>1. m_window_size' \in Windows
    BY <1>1 DEF SenderInv, senderVars
  <2>2. SenderInv'
    BY <1>1, <2>1, SenderKept DEF senderVars
  <2>3. CommandsInv' /\ StreamInv'
    BY <1>1 DEF CommandsInv, StreamInv, Made, senderVars
  <2> QED
    BY <2>2, <2>3
<1>3. NetworkInv'
  <2>1. stream' = stream
    BY DEF senderVars
  <2>2. \A a \in acks' : Received(a.pos)'
    BY <1>1 DEF NetworkInv
  <2>3. Copies(acks', Len(stream) + 1 - MaxWindow, Len(stream))
    BY <1>1 DEF NetworkInv, Copies
  <2> QED
    BY <1>1, <2>1, <2>2, <2>3 DEF NetworkInv
<1>4. NothingForgotten'
  BY <1>1 DEF NothingForgotten, senderVars, Positions
<1> QED
  BY <1>2, <1>3, <1>4

(* checkIncomingBuffers hands on the next packet.                          *)
LEMMA CheckIncomingBuffersStep ==
    ASSUME IInv, CheckIncomingBuffers
    PROVE  IInv' /\ HandOn(Len(delivered) + 1) /\ Len(delivered) + 1 <= Len(stream)
<1> DEFINE D == Len(delivered)
           B == incoming_reliables
<1>1. /\ CommandsInv /\ StreamInv /\ SenderInv /\ NetworkInv
      /\ ReceiverInv /\ HandedInv /\ NothingForgotten
  BY DEF IInv
<1>2. /\ B # <<>> /\ Head(B).seq = next_incoming_seqnum
      /\ B' = Tail(B) /\ HandOn(Head(B).pos)
      /\ UNCHANGED <<senderVars, data, acks>>
  BY DEF CheckIncomingBuffers, BufferReady
<1>3. D \in Nat /\ MaxWindow \in Nat /\ MaxWindow > 0 /\ SeqnumCount = 2 * MaxWindow
      /\ D + 1 \in Int /\ D + MaxWindow \in Int
  BY <1>1, Sizes DEF ReceiverInv
<1>4. /\ Head(B).pos \in D + 1 .. D + MaxWindow /\ Head(B).seq = SeqnumOf(Head(B).pos)
      /\ Head(B).pos \in Positions(B)
      /\ Numbered(Tail(B), Head(B).pos + 1, D + MaxWindow)
      /\ Positions(Tail(B)) = Positions(B) \ {Head(B).pos}
  BY <1>1, <1>2, <1>3, NumberedTail DEF ReceiverInv
<1>5. Head(B).pos = D + 1
  <2>1. Head(B).pos - (D + 1) \in 0 .. SeqnumCount - 1 /\ Head(B).pos \in Int
    BY <1>3, <1>4
  <2>2. SeqnumOf(D + 1) = SeqnumOf(Head(B).pos)
    BY <1>1, <1>2, <1>4 DEF ReceiverInv
  <2> QED
    BY <1>3, <2>1, <2>2, SeqnumOfDistance
<1>6. D + 1 <= Len(stream)
  BY <1>1, <1>4, <1>5 DEF ReceiverInv
<1>7. Numbered(B', D + 2, D + 1 + MaxWindow) /\ Positions(B') = Positions(B) \ {D + 1}
  <2>1. D + 1 + 1 = D + 2 /\ D + 2 \in Int /\ D + 1 + MaxWindow \in Int
    BY <1>3
  <2>2. Numbered(Tail(B), D + 2, D + MaxWindow)
    BY <1>4, <1>5, <2>1
  <2>3. \A pos \in Positions(Tail(B)) : pos \in D + 2 .. D + 1 + MaxWindow
    <3>1. Positions(Tail(B)) \subseteq D + 2 .. D + MaxWindow
      BY <1>3, <2>1, <2>2, NumberedBounds
    <3> QED
      BY <1>3, <3>1
  <2> QED
    BY <1>2, <1>3, <1>4, <1>5, <2>1, <2>2, <2>3, NumberedWithin
<1>8. /\ ReceiverInv' /\ HandedInv'
      /\ \A pos : Received(pos) => Received(pos)'
  BY <1>2, <1>5, <1>6, <1>7, HandOnStep
<1>9. CommandsInv' /\ StreamInv' /\ SenderInv' /\ NetworkInv' /\ NothingForgotten'
  BY <1>2, <1>8, ReceiverMoves
<1> QED
  BY <1>2, <1>5, <1>6, <1>8, <1>9 DEF IInv

(* handlePacketType_Reliable, its three cases.                             *)
LEMMA ReceiveReliableStep ==
    ASSUME IInv, NEW pos \in Position, ReceiveReliable(pos)
    PROVE  /\ IInv'
           /\ \/ UNCHANGED <<delivered, handed>>
              \/ HandOn(Len(delivered) + 1) /\ Len(delivered) + 1 <= Len(stream)
<1> DEFINE D == Len(delivered)
           N == Len(stream)
           B == incoming_reliables
<1>1. /\ CommandsInv /\ StreamInv /\ SenderInv /\ NetworkInv
      /\ ReceiverInv /\ HandedInv /\ NothingForgotten
  BY DEF IInv
<1>2. PICK p \in data :
        /\ p.pos = pos
        /\ acks' = IF IsFuture(p.seq, next_incoming_seqnum) THEN acks ELSE acks \cup {p}
        /\ \/ /\ ~InWindow(p.seq, next_incoming_seqnum)
              /\ UNCHANGED receiverVars
           \/ /\ InWindow(p.seq, next_incoming_seqnum)
              /\ p.seq # next_incoming_seqnum
              /\ B' = Insert(B, p, next_incoming_seqnum)
              /\ UNCHANGED <<next_incoming_seqnum, delivered, handed>>
           \/ /\ p.seq = next_incoming_seqnum
              /\ HandOn(p.pos)
              /\ UNCHANGED B
  BY DEF ReceiveReliable
<1>3. ~BufferReady /\ UNCHANGED <<senderVars, data>>
  BY DEF ReceiveReliable
<1>4. N \in Nat /\ D \in Nat /\ D \in 0 .. N /\ MaxWindow \in Nat /\ MaxWindow > 0
      /\ D + 1 \in Int /\ D + MaxWindow \in Int /\ D + 1 + MaxWindow - 1 = D + MaxWindow
  <2>1. N \in Nat /\ D \in 0 .. N /\ MaxWindow \in Nat /\ MaxWindow > 0
    BY <1>1, Sizes DEF ReceiverInv
  <2> HIDE DEF N, D
  <2> QED
    BY <2>1
<1>5. /\ p \in Packet /\ p.pos \in N + 1 - MaxWindow .. N /\ p.seq = SeqnumOf(p.pos)
      /\ p.pos \in Int
  BY <1>1, <1>2, <1>4 DEF NetworkInv, Copies
<1>6. N <= D + MaxWindow /\ D + 1 \notin Positions(B)
  BY <1>3, Ahead
<1>7. /\ p.pos <= D => ~InWindow(p.seq, next_incoming_seqnum)
      /\ p.pos > D => InWindow(p.seq, next_incoming_seqnum)
      /\ p.seq = next_incoming_seqnum <=> p.pos = D + 1
  BY <1>2, <1>3, CopiesJudged DEF CopyJudgedRightly
<1>8. acks' \in SUBSET (acks \cup data) /\ \A a \in acks' : a \in acks \/ a = p
  BY <1>2
<1>9. CASE ~InWindow(p.seq, next_incoming_seqnum) /\ UNCHANGED receiverVars
  <2>1. \A q : Received(q)' <=> Received(q)
    BY <1>9 DEF receiverVars, Received, Positions
  <2>2. Received(p.pos)
    <3>1. p.pos <= D
      BY <1>4, <1>5, <1>7, <1>9
    <3>2. p.pos \in Position
      BY <1>5 DEF Packet
    <3>3. p.pos \in 1 .. D
      BY <1>4, <3>1, <3>2 DEF Position
    <3> QED
      BY <3>3 DEF Received
  <2>3. CommandsInv' /\ StreamInv' /\ SenderInv' /\ NetworkInv' /\ NothingForgotten'
    BY <1>3, <1>8, <2>1, <2>2, ReceiverMoves
  <2>4. ReceiverInv' /\ HandedInv' /\ UNCHANGED <<delivered, handed>>
    BY <1>1, <1>3, <1>9 DEF ReceiverInv, HandedInv, Made, senderVars, receiverVars, Positions
  <2> QED
    BY <2>3, <2>4 DEF IInv
<1>10. CASE /\ InWindow(p.seq, next_incoming_seqnum)
            /\ p.seq # next_incoming_seqnum
            /\ B' = Insert(B, p, next_incoming_seqnum)
            /\ UNCHANGED <<next_incoming_seqnum, delivered, handed>>
  <2>1. p.pos \in D + 1 + 1 .. D + 1 + MaxWindow - 1
    BY <1>4, <1>5, <1>6, <1>7, <1>10
  <2>2. Numbered(B, D + 1, D + 1 + MaxWindow - 1) /\ next_incoming_seqnum = SeqnumOf(D + 1)
    BY <1>1, <1>4 DEF ReceiverInv
  <2>3. Numbered(B', D + 1, D + MaxWindow) /\ Positions(B') = Positions(B) \cup {p.pos}
    <3> HIDE DEF B, D
    <3> QED
      BY <1>4, <1>5, <1>10, <2>1, <2>2, InsertLemma
  <2>4. Positions(B)' = Positions(B')
    BY DEF Positions
  <2>5. ReceiverInv'
    <3>1. \A q \in Positions(B)' : q <= Len(stream')
      BY <1>1, <1>3, <1>4, <1>5, <2>3, <2>4 DEF ReceiverInv, senderVars
    <3> QED
      BY <1>1, <1>3, <1>10, <2>3, <3>1 DEF ReceiverInv, senderVars
  <2>6. HandedInv'
    BY <1>1, <1>3, <1>10 DEF HandedInv, Made, senderVars
  <2>7. (\A q : Received(q) => Received(q)') /\ Received(p.pos)'
    BY <1>10, <2>3, <2>4 DEF Received
  <2>8. CommandsInv' /\ StreamInv' /\ SenderInv' /\ NetworkInv' /\ NothingForgotten'
    BY <1>3, <1>8, <2>7, ReceiverMoves
  <2> QED
    BY <1>10, <2>5, <2>6, <2>8 DEF IInv
<1>11. CASE /\ p.seq = next_incoming_seqnum
            /\ HandOn(p.pos)
            /\ UNCHANGED B
  <2>1. p.pos = D + 1 /\ D + 1 <= N
    BY <1>4, <1>5, <1>7, <1>11
  <2>2. Numbered(B', D + 2, D + 1 + MaxWindow) /\ Positions(B') = Positions(B) \ {D + 1}
    <3>1. D + 2 \in Int /\ D + 1 + MaxWindow \in Int
      BY <1>4
    <3>2. \A q \in Positions(B) : q \in D + 2 .. D + 1 + MaxWindow
      <4>1. Positions(B) \subseteq D + 1 .. D + MaxWindow
        BY <1>1, <1>4, NumberedBounds DEF ReceiverInv
      <4> QED
        BY <1>4, <1>6, <4>1
    <3> QED
      BY <1>1, <1>4, <1>6, <1>11, <3>1, <3>2, NumberedWithin DEF ReceiverInv
  <2>3. /\ ReceiverInv' /\ HandedInv'
        /\ \A q : Received(q) => Received(q)'
        /\ Received(p.pos)'
    BY <1>3, <1>11, <2>1, <2>2, HandOnStep
  <2>4. CommandsInv' /\ StreamInv' /\ SenderInv' /\ NetworkInv' /\ NothingForgotten'
    BY <1>3, <1>8, <2>1, <2>3, ReceiverMoves
  <2> QED
    BY <1>11, <2>1, <2>3, <2>4 DEF IInv
<1> QED
  BY <1>2, <1>9, <1>10, <1>11

(* The invariant holds of a new channel,                                   *)
LEMMA InitInv ==
    ASSUME BacklogFits, Init
    PROVE  IInv
<1>1. /\ submitted = 0 /\ queued_commands = <<>> /\ stream = <<>> /\ delivered = <<>>
      /\ handed = <<>> /\ data = {} /\ acks = {} /\ Made = 0
      /\ queued_reliables = <<>> /\ outgoing_reliables_sent = <<>> /\ incoming_reliables = <<>>
      /\ next_outgoing_seqnum = SeqnumInitial /\ next_incoming_seqnum = SeqnumInitial
      /\ m_window_size \in Windows
  BY DEF Init, Made
<1>2. MaxWindow \in Nat /\ MaxWindow > 0 /\ MaxChunks \in Nat /\ MaxPings \in Nat
  BY MaxWindowAssumption, BoundsAssumption
<1>3. CommandsInv
  BY <1>1, <1>2 DEF CommandsInv, Pending
<1>4. StreamInv
  <2>1. Pings(<<>>) = {}
    BY DEF Pings
  <2>2. Cardinality(Pings(<<>>)) = 0
    BY <2>1, FS_EmptySet
  <2>3. 1 .. 0 = {} /\ DOMAIN <<>> = {}
    OBVIOUS
  <2>4. Carries(<<>>, 0)
    BY <1>2, <2>2, <2>3 DEF Carries
  <2> QED
    BY <1>1, <2>4 DEF StreamInv
<1>5. SenderInv
  <2>1. m_window_size + 2 <= MaxWindow /\ MaxOvertaking < m_window_size /\ m_window_size \in Nat
        /\ MaxOvertaking \in Nat
    BY <1>1, WindowsAssumption, OvertakingAssumption DEF BacklogFits
  <2>2. MaxOvertaking < MaxWindow
    BY <1>2, <2>1
  <2>3. Numbered(queued_reliables, 1, Len(stream))
        /\ Numbered(outgoing_reliables_sent, Len(stream) + 1 - MaxWindow, Len(stream))
        /\ Positions(queued_reliables) = {}
    BY <1>1, NumberedEmpty
  <2> QED
    BY <1>1, <2>1, <2>2, <2>3, SeqnumOfFirst DEF SenderInv
<1>6. NetworkInv
  BY <1>1 DEF NetworkInv, Copies
<1>7. ReceiverInv
  <2>1. Numbered(incoming_reliables, Len(delivered) + 1, Len(delivered) + MaxWindow)
        /\ Positions(incoming_reliables) = {}
    BY <1>1, NumberedEmpty
  <2> QED
    BY <1>1, <2>1, SeqnumOfFirst DEF ReceiverInv
<1>8. HandedInv
  BY <1>1 DEF HandedInv
<1>9. NothingForgotten
  BY <1>1 DEF NothingForgotten
<1> QED
  BY <1>3, <1>4, <1>5, <1>6, <1>7, <1>8, <1>9 DEF IInv

(* and every step keeps it.                                                *)
LEMMA NextInv ==
    ASSUME BacklogFits, IInv, [Next]_vars
    PROVE  IInv'
<1>1. CASE UNCHANGED vars
  <2>1. UNCHANGED <<senderVars, receiverVars, data, acks>>
    BY <1>1 DEF vars
  <2>2. /\ CommandsInv /\ StreamInv /\ SenderInv /\ NetworkInv
        /\ ReceiverInv /\ HandedInv /\ NothingForgotten
    BY DEF IInv
  <2>3. CommandsInv' /\ StreamInv' /\ SenderInv'
    <3>1. m_window_size' \in Windows
      BY <2>1, <2>2 DEF SenderInv, senderVars
    <3>2. SenderInv'
      BY <2>1, <2>2, <3>1, SenderKept DEF senderVars
    <3>3. CommandsInv' /\ StreamInv'
      BY <2>1, <2>2 DEF CommandsInv, StreamInv, Made, senderVars
    <3> QED
      BY <3>2, <3>3
  <2>4. ReceiverInv' /\ HandedInv' /\ NothingForgotten' /\ NetworkInv'
    BY <2>1, <2>2 DEF ReceiverInv, HandedInv, NothingForgotten, NetworkInv, Received, Made,
       senderVars, receiverVars, Positions
  <2> QED
    BY <2>3, <2>4 DEF IInv
<1> QED
  BY <1>1, SendStep, RunCommandQueuesStep, SendPacketsStep, RawSendAsPacketStep,
     ResendReliableStep, UpdateTimersStep, ReceiveAckStep, CheckIncomingBuffersStep,
     ReceiveReliableStep, LoseStep DEF Next

(* The invariant of the channel, whatever the network does.                *)
THEOREM ChannelInvariance ==
    ASSUME BacklogFits
    PROVE  Spec => []IInv
BY InitInv, NextInv, PTL DEF Spec

(* Every variable stays in its type, and both buffers stay sorted in the   *)
(* order of numbering across wrap-around, whatever order insert is called  *)
(* in.                                                                     *)
THEOREM TypeCorrect ==
    ASSUME BacklogFits
    PROVE  Spec => []TypeOK
<1>1. ASSUME IInv PROVE TypeOK
  <2>1. /\ CommandsInv /\ StreamInv /\ SenderInv /\ NetworkInv
        /\ ReceiverInv /\ HandedInv
    BY <1>1 DEF IInv
  <2>2. NumbersInv
    BY <2>1, NumbersHold
  <2>3. queued_commands \in Seq(Seq(Chunk))
    <3>1. Command \subseteq Seq(Chunk)
      BY DEF Command
    <3>2. queued_commands \in Seq(Command)
      BY <2>2 DEF NumbersInv
    <3> QED
      BY <3>1, <3>2
  <2> QED
    BY <2>1, <2>2, <2>3 DEF TypeOK, NumbersInv, SenderInv, NetworkInv, ReceiverInv, HandedInv,
       Numbered, Copies, StreamInv, Carries
<1> QED
  BY <1>1, ChannelInvariance, PTL

(* No packet that was numbered is ever forgotten by both peers: an ACK     *)
(* makes the sender forget (popSeqnum) only what the receiver has.         *)
THEOREM NeverForgotten ==
    ASSUME BacklogFits
    PROVE  Spec => []NothingForgotten
<1>1. IInv => NothingForgotten
  BY DEF IInv
<1> QED
  BY <1>1, ChannelInvariance, PTL

(* popSeqnum, which goes by the number alone, never takes out another      *)
(* packet than the one acknowledged.                                       *)
THEOREM AcksHit ==
    ASSUME BacklogFits
    PROVE  Spec => []AckHitsItsPacket
<1>1. ASSUME IInv PROVE AckHitsItsPacket
  <2> SUFFICES ASSUME NEW a \in acks, NEW i \in DOMAIN outgoing_reliables_sent,
                      a.seq = outgoing_reliables_sent[i].seq
               PROVE  a.pos = outgoing_reliables_sent[i].pos
    BY DEF AckHitsItsPacket
  <2> DEFINE N == Len(stream)
             q == outgoing_reliables_sent[i]
  <2>1. CommandsInv /\ StreamInv /\ SenderInv /\ NetworkInv
    BY <1>1 DEF IInv
  <2>2. N \in Nat /\ MaxWindow \in Nat /\ MaxWindow > 0 /\ SeqnumCount = 2 * MaxWindow
    BY <2>1, Sizes
  <2>3. a.pos \in N + 1 - MaxWindow .. N /\ a.seq = SeqnumOf(a.pos)
    BY <2>1 DEF NetworkInv, Copies
  <2>4. q.pos \in N + 1 - MaxWindow .. N /\ q.seq = SeqnumOf(q.pos)
    BY <2>1 DEF SenderInv, Numbered
  <2> HIDE DEF N, q
  <2>5. a.pos \in Int /\ q.pos \in Int
        /\ (a.pos - q.pos \in 0 .. SeqnumCount - 1 \/ q.pos - a.pos \in 0 .. SeqnumCount - 1)
    BY <2>2, <2>3, <2>4
  <2>6. SeqnumOf(a.pos) = SeqnumOf(q.pos)
    BY <2>3, <2>4 DEF q
  <2>7. a.pos = q.pos
    BY <2>5, <2>6, SeqnumOfDistance
  <2> QED
    BY <2>7 DEF q
<1> QED
  BY <1>1, ChannelInvariance, PTL

(* handlePacketType_Reliable, which goes by the number alone, never takes  *)
(* an old copy for a new packet nor a new one for an old one.              *)
THEOREM CopiesAlwaysJudged ==
    ASSUME BacklogFits
    PROVE  Spec => []CopyJudgedRightly
BY CopiesJudged, ChannelInvariance, PTL

(* Send is the Put of the abstract channel.                                *)
LEMMA SendPuts ==
    ASSUME IInv, NEW n \in ChunkCounts, Send(n)
    PROVE  Fifo!Put
<1> DEFINE sent == [i \in 1 .. submitted |-> i]
           more == [i \in 1 .. submitted + n |-> i]
<1>1. n \in Nat /\ n > 0 /\ submitted \in Nat /\ submitted + n <= MaxChunks /\ MaxChunks \in Nat
      /\ submitted' = submitted + n /\ handed' = handed
  BY ChunkCountsAssumption, BoundsAssumption, Sizes DEF Send, IInv, receiverVars
<1>2. /\ more \in Seq(Nat) /\ Len(more) = submitted + n /\ n \in 1 .. Len(more)
      /\ \A i \in 1 .. Len(more) : more[i] \in Chunk
  <2>1. more \in Seq(Nat)
    BY <1>1, IsASeq
  <2> QED
    BY <1>1, <2>1 DEF Chunk
<1>3. sent = SubSeq(more, 1, Len(more) - n)
  <2>1. Len(more) - n = submitted
    BY <1>1, <1>2
  <2>2. SubSeq(more, 1, submitted) = [i \in 1 .. submitted |-> more[i]]
    BY <1>1, <1>2
  <2>3. \A i \in 1 .. submitted : more[i] = i
    BY <1>1
  <2> QED
    BY <2>1, <2>2, <2>3
<1>4. [i \in 1 .. submitted |-> i]' = more
  BY <1>1
<1> QED
  BY <1>1, <1>2, <1>3, <1>4 DEF Fifo!Put

(* Handing on a chunk is its Get, handing on a ping a stutter.             *)
LEMMA HandOnGets ==
    ASSUME IInv, HandOn(Len(delivered) + 1), Len(delivered) + 1 <= Len(stream),
           submitted' = submitted
    PROVE  [Fifo!FifoNext]_(Fifo!fifoVars)
<1> DEFINE D == Len(delivered)
           H == Len(handed)
<1>1. CommandsInv /\ StreamInv /\ ReceiverInv /\ HandedInv
  BY DEF IInv
<1>2. CASE stream[D + 1] = Ping
  BY <1>2 DEF HandOn, Fifo!fifoVars
<1>3. CASE stream[D + 1] # Ping
  <2>1. stream[D + 1] = H + 1 /\ H + 1 <= Made
    BY <1>1, <1>3, NextChunk
  <2>2. H \in Nat /\ Made \in 0 .. submitted /\ submitted \in Nat
    BY <1>1, Sizes, LenProperties, BoundsAssumption DEF HandedInv
  <2>3. handed' = Append(handed, H + 1)
    BY <1>3, <2>1 DEF HandOn
  <2>4. Len([i \in 1 .. submitted |-> i]) = submitted /\ H < submitted
        /\ [i \in 1 .. submitted |-> i][H + 1] = H + 1
    BY <2>1, <2>2
  <2>5. Fifo!Get
    BY <2>3, <2>4 DEF Fifo!Get
  <2> QED
    BY <2>5 DEF Fifo!FifoNext
<1> QED
  BY <1>2, <1>3

(* The channel is a FIFO channel: over a network that loses, duplicates    *)
(* and reorders, the user is handed exactly the chunks sent, once and in   *)
(* order.                                                                  *)
THEOREM ChannelImplementsFifo ==
    ASSUME BacklogFits
    PROVE  Spec => ImplementsFifo
<1>1. Init => Fifo!FifoInit
  BY DEF Init, Fifo!FifoInit
<1>2. ASSUME IInv, [Next]_vars
      PROVE  [Fifo!FifoNext]_(Fifo!fifoVars)
  <2>1. ASSUME NEW n \in ChunkCounts, Send(n)
        PROVE  Fifo!FifoNext
    BY <1>2, <2>1, SendPuts DEF Fifo!FifoNext
  <2>2. CASE CheckIncomingBuffers
    BY <1>2, <2>2, CheckIncomingBuffersStep, HandOnGets DEF CheckIncomingBuffers, senderVars
  <2>3. ASSUME NEW pos \in Position, ReceiveReliable(pos)
        PROVE  [Fifo!FifoNext]_(Fifo!fifoVars)
    <3>1. submitted' = submitted
      BY <2>3 DEF ReceiveReliable, senderVars
    <3>2. CASE UNCHANGED <<delivered, handed>>
      BY <3>1, <3>2 DEF Fifo!fifoVars
    <3>3. CASE HandOn(Len(delivered) + 1) /\ Len(delivered) + 1 <= Len(stream)
      BY <1>2, <3>1, <3>3, HandOnGets
    <3> QED
      BY <1>2, <2>3, <3>2, <3>3, ReceiveReliableStep
  <2>4. ASSUME UNCHANGED <<submitted, handed>>
        PROVE  UNCHANGED Fifo!fifoVars
    BY <2>4 DEF Fifo!fifoVars
  <2>5. CASE RunCommandQueues \/ SendPackets \/ RawSendAsPacket \/ UpdateTimers \/ Lose
    BY <2>4, <2>5 DEF RunCommandQueues, SendPackets, RawSendAsPacket, UpdateTimers, Lose,
       senderVars, receiverVars
  <2>6. ASSUME NEW pos \in Position, ResendReliable(pos) \/ ReceiveAck(pos)
        PROVE  UNCHANGED Fifo!fifoVars
    BY <2>4, <2>6 DEF ResendReliable, ReceiveAck, senderVars, receiverVars
  <2>7. CASE UNCHANGED vars
    BY <2>4, <2>7 DEF vars, senderVars, receiverVars
  <2> QED
    BY <1>2, <2>1, <2>2, <2>3, <2>5, <2>6, <2>7 DEF Next
<1> QED
  BY <1>1, <1>2, ChannelInvariance, PTL DEF Spec, ImplementsFifo, Fifo!FifoSpec
=============================================================================
