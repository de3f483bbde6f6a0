--------------------------- MODULE ReliableChannel ---------------------------
(***************************************************************************)
(* One direction of one reliable channel of the MTP protocol               *)
(* (src/src/network/mtp): the sending half of a Channel at one peer, the   *)
(* receiving half of the Channel at the other, and the UDP network between *)
(* them, which loses, duplicates and reorders.                             *)
(*                                                                         *)
(* The sender's connection thread numbers the chunks of each command       *)
(* (UDPPeer::processReliableSendCommand), keeps every sent packet until    *)
(* its ACK arrives (outgoing_reliables_sent), resends it meanwhile, and    *)
(* lets no more than a window of them be under way.  The receiver hands    *)
(* packets on in the order of their numbers and buffers those that come    *)
(* early (incoming_reliables).                                             *)
(*                                                                         *)
(* A chunk is its number in the order the user sent it; Ping stands for a  *)
(* packet that the send thread puts directly into the channel              *)
(* (rawSendAsPacket).  A packet is its u16 sequence number and, as a       *)
(* history value the program does not have, pos: the how-many-th packet    *)
(* numbered on this channel it is.  stream lists what the packets carry.   *)
(***************************************************************************)
EXTENDS SeqNum, Sequences, FiniteSets, SequencesExt

CONSTANTS
    SeqnumInitial,  \* SEQNUM_INITIAL, 65500 in the program
    Windows,        \* the values m_window_size may take, 32 .. 2048
    ChunkCounts,    \* into how many packets a command may be split
    MaxRequeued,    \* m_max_packets_requeued, 256
    MaxOvertaking,  \* bound: pings that go out ahead of the oldest queued packet
    MaxChunks,      \* bound: chunks the user sends
    MaxPings,       \* bound: packets sent with rawSendAsPacket
    Lossy           \* may the network drop the copies it holds?

ASSUME SeqnumInitialAssumption == SeqnumInitial \in Seqnum
ASSUME WindowsAssumption == Windows \subseteq Nat \ {0} /\ Windows # {}
\* sanity_check(originals.size() < MAX_RELIABLE_WINDOW_SIZE)
ASSUME ChunkCountsAssumption == ChunkCounts \subseteq 1 .. MaxWindow - 1
\* A ping is due every 5 s, a queued packet is sent within 50 ms of room in the window.
ASSUME OvertakingAssumption == MaxOvertaking \in Nat /\ \A w \in Windows : MaxOvertaking < w
ASSUME BoundsAssumption == MaxRequeued \in Nat /\ MaxChunks \in Nat /\ MaxPings \in Nat
ASSUME LossyAssumption == Lossy \in BOOLEAN

(* insert accepts a packet only if it is less than MaxWindow behind the    *)
(* next number.  Nothing bounds the backlog directly: a command is queued  *)
(* behind at most MaxRequeued packets, or half a window of them.  What is  *)
(* proved of the channel is proved where that leaves room for the largest  *)
(* command; with the program's constants that is one of 31714 packets,     *)
(* about 16 MB.                                                            *)
BacklogFits ==
    \A w \in Windows :
        /\ w + 2 <= MaxWindow
        /\ \A n \in ChunkCounts : /\ MaxOvertaking + MaxRequeued + n <= MaxWindow
                                  /\ MaxOvertaking + (w \div 2) + n <= MaxWindow + 1

VARIABLES
    queued_commands,            \* commands prior to splitting and numbering
    queued_reliables,           \* numbered packets not sent yet
    outgoing_reliables_sent,    \* packets sent and not acknowledged
    next_outgoing_seqnum,
    m_window_size,
    data, acks,                 \* the network: packets, and ACKs of packets
    next_incoming_seqnum,
    incoming_reliables,         \* packets received early
    submitted,                  \* history: chunks the user has sent
    stream,                     \* history: what each numbered packet carries
    delivered,                  \* history: positions handed on, in order
    handed                      \* history: chunks handed to the receiving user

senderVars == <<queued_commands, queued_reliables, outgoing_reliables_sent,
                next_outgoing_seqnum, m_window_size, submitted, stream>>
receiverVars == <<next_incoming_seqnum, incoming_reliables, delivered, handed>>
vars == <<senderVars, receiverVars, data, acks>>

Ping == 0
Chunk == 1 .. MaxChunks
Position == 1 .. MaxChunks + MaxPings
Packet == [seq : Seqnum, pos : Position]

(* Both buffers stay sorted in the order of numbering, across wrap-around  *)
(* and although packets enter them out of order: their first element is    *)
(* the oldest, which is what the send window and the hand-on rely on.      *)
Ascending(list) == \A i, j \in DOMAIN list : i < j => list[i].pos < list[j].pos

TypeOK ==
    /\ queued_commands \in Seq(Seq(Chunk))
    /\ queued_reliables \in Seq(Packet)
    /\ outgoing_reliables_sent \in Seq(Packet) /\ Ascending(outgoing_reliables_sent)
    /\ next_outgoing_seqnum \in Seqnum
    /\ m_window_size \in Windows
    /\ data \subseteq Packet
    /\ acks \subseteq Packet
    /\ next_incoming_seqnum \in Seqnum
    /\ incoming_reliables \in Seq(Packet) /\ Ascending(incoming_reliables)
    /\ submitted \in 0 .. MaxChunks
    /\ stream \in Seq(Chunk \cup {Ping})
    /\ delivered \in Seq(Position)
    /\ handed \in Seq(Chunk)

Init ==
    /\ queued_commands = <<>>
    /\ queued_reliables = <<>>
    /\ outgoing_reliables_sent = <<>>
    /\ next_outgoing_seqnum = SeqnumInitial
    /\ m_window_size \in Windows
    /\ data = {}
    /\ acks = {}
    /\ next_incoming_seqnum = SeqnumInitial
    /\ incoming_reliables = <<>>
    /\ submitted = 0
    /\ stream = <<>>
    /\ delivered = <<>>
    /\ handed = <<>>

-----------------------------------------------------------------------------
(* ReliablePacketBuffer: a list of packets kept sorted by insert, which    *)
(* starts from the oldest number that may occur, next_expected.            *)

(* Does insert walk past a list element numbered s to place seqnum?        *)
Precedes(s, seqnum, next_expected) ==
    IF seqnum < next_expected
    THEN s < seqnum \/ s >= next_expected
    ELSE s < seqnum /\ s >= next_expected

InsertAtEnd(list, p, next_expected) == Append(list, p)    \* mutant

Insert(list, p, next_expected) ==
    LET stops == {i \in DOMAIN list : ~Precedes(list[i].seq, p.seq, next_expected)}
        refused == \/ ~seqnum_in_window(p.seq, next_expected, MaxWindow)
                   \/ p.seq = next_expected
        place == CHOOSE i \in stops : \A j \in stops : i <= j
    IN  CASE refused -> list
          [] ~refused /\ stops = {} -> Append(list, p)
          [] ~refused /\ stops # {} ->
                IF list[place].seq = p.seq THEN list ELSE InsertAt(list, place, p)

PopFirst(list, seqnum) == IF list = <<>> THEN list ELSE Tail(list)    \* mutant
PopSeqnum(list, seqnum) ==
    LET found == {i \in DOMAIN list : list[i].seq = seqnum}
    IN  IF found = {} THEN list
        ELSE RemoveAt(list, CHOOSE i \in found : \A j \in found : i <= j)

-----------------------------------------------------------------------------
(* The sender *)

(* getOutgoingSequenceNumber: may n be given out?  The branch for numbers  *)
(* that have wrapped around counts one less than the distance.             *)
HasSeqnumOnceWrapped(n) ==    \* mutant: no limit after the numbers wrap
    outgoing_reliables_sent # <<>> /\ Head(outgoing_reliables_sent).seq < n =>
        n - Head(outgoing_reliables_sent).seq <= m_window_size
HasSeqnum(n) ==
    outgoing_reliables_sent # <<>> =>
        LET lowest == Head(outgoing_reliables_sent).seq
        IN  IF lowest < n
            THEN n - lowest <= m_window_size
            ELSE n + (SeqnumCount - 1 - lowest) <= m_window_size

(* How many of n numbers the loop over the chunks of a command gets.       *)
Granted(n) ==
    Cardinality({i \in 0 .. n - 1 :
                    \A j \in 0 .. i : HasSeqnum(Plus(next_outgoing_seqnum, j))})

(* next_outgoing_seqnum afterwards: when the numbers do not suffice, those *)
(* taken are put back one by one, the last first.                          *)
SeqnumPutBackTwice(n) ==    \* mutant: one more number than taken
    IF Granted(n) = n
    THEN Plus(next_outgoing_seqnum, n)
    ELSE Minus(next_outgoing_seqnum, 1)
SeqnumAfter(n) ==
    IF Granted(n) = n
    THEN Plus(next_outgoing_seqnum, n)
    ELSE Minus(Plus(next_outgoing_seqnum, Granted(n)), Granted(n))

(* A copy of a packet or ACK survives in the network until half the number *)
(* space has been given out after it.                                      *)
Surviving(copies, numbered) == {p \in copies : numbered - p.pos < MaxWindow}

(* The packets made for n chunks, all of which got a number. *)
NewPackets(n) ==
    [i \in 1 .. n |-> [seq |-> Plus(next_outgoing_seqnum, i - 1),
                       pos |-> Len(stream) + i]]

(* processReliableSendCommand: number and queue all chunks or none. *)
ProcessReliableSendCommand(c) ==
    LET made == Granted(Len(c)) = Len(c)
    IN  /\ next_outgoing_seqnum' = SeqnumAfter(Len(c))
        /\ queued_reliables' =
              IF made THEN queued_reliables \o NewPackets(Len(c)) ELSE queued_reliables
        /\ stream' = IF made THEN stream \o c ELSE stream
        /\ data' = Surviving(data, Len(stream'))
        /\ acks' = Surviving(acks, Len(stream'))

(* Connection::Send of a message of n chunks, then PutReliableSendCommand. *)
Send(n) ==
    LET c == [i \in 1 .. n |-> submitted + i]
    IN  /\ submitted + n <= MaxChunks
        /\ submitted' = submitted + n
        /\ IF queued_commands = <<>> /\ Len(queued_reliables) + 1 < m_window_size \div 2
           THEN /\ ProcessReliableSendCommand(c)
                /\ queued_commands' = IF Granted(n) = n THEN <<>> ELSE <<c>>
           ELSE /\ queued_commands' = Append(queued_commands, c)
                /\ UNCHANGED <<next_outgoing_seqnum, queued_reliables, stream, data, acks>>
        /\ UNCHANGED <<outgoing_reliables_sent, m_window_size, receiverVars>>

(* RunCommandQueues: try again to number the oldest command. *)
RunCommandQueues ==
    /\ queued_commands # <<>>
    /\ Len(queued_reliables) < MaxRequeued
    /\ ProcessReliableSendCommand(Head(queued_commands))
    /\ queued_commands' =
          IF Granted(Len(Head(queued_commands))) = Len(Head(queued_commands))
          THEN Tail(queued_commands) ELSE queued_commands
    /\ UNCHANGED <<outgoing_reliables_sent, m_window_size, submitted, receiverVars>>

(* sendAsPacketReliable: remember the packet, then put it on the wire.     *)
(* next is what readOutgoingSequenceNumber returns.                        *)
SendAsPacketReliable(p, next) ==
    outgoing_reliables_sent' =
        Insert(outgoing_reliables_sent, p, Minus(next, MaxWindow))

(* The loop of sendPackets over the queued packets, one round of it.       *)
SendPackets ==
    /\ queued_reliables # <<>>
    /\ Len(outgoing_reliables_sent) < m_window_size
    /\ SendAsPacketReliable(Head(queued_reliables), next_outgoing_seqnum)
    /\ data' = data \cup {Head(queued_reliables)}
    /\ queued_reliables' = Tail(queued_reliables)
    /\ UNCHANGED <<queued_commands, next_outgoing_seqnum, m_window_size, acks,
                   submitted, stream, receiverVars>>

(* How many packets numbered after the oldest queued one went out ahead of *)
(* it.  Only pings do, one every PING_TIMEOUT, and the send thread empties *)
(* the queue into the window far more often: they stay few.                *)
Overtaking == Len(stream) - Head(queued_reliables).pos + 1 - Len(queued_reliables)

(* rawSendAsPacket of a reliable packet (PING, SET_PEER_ID): it overtakes  *)
(* the queued commands and, while the window has room, the queued packets. *)
RawSendAsPacket ==
    LET p == [seq |-> next_outgoing_seqnum, pos |-> Len(stream) + 1]
    IN  /\ Cardinality({i \in DOMAIN stream : stream[i] = Ping}) < MaxPings
        /\ HasSeqnum(next_outgoing_seqnum)
        /\ next_outgoing_seqnum' = Plus(next_outgoing_seqnum, 1)
        /\ stream' = Append(stream, Ping)
        /\ acks' = Surviving(acks, Len(stream'))
        /\ IF Len(outgoing_reliables_sent) < m_window_size
           THEN /\ queued_reliables # <<>> => Overtaking < MaxOvertaking
                /\ SendAsPacketReliable(p, next_outgoing_seqnum')
                /\ data' = Surviving(data, Len(stream')) \cup {p}
                /\ UNCHANGED queued_reliables
           ELSE /\ queued_reliables' = Append(queued_reliables, p)
                /\ data' = Surviving(data, Len(stream'))
                /\ UNCHANGED outgoing_reliables_sent
        /\ UNCHANGED <<queued_commands, m_window_size, submitted, receiverVars>>

(* runTimeouts and RESEND_ONE: a packet whose resend time has come is sent *)
(* again.  It is not looked up again when it is put on the wire, so the    *)
(* copy may follow its ACK; the copies the network keeps stand for that.   *)
ResendReliable(pos) ==
    /\ \E i \in DOMAIN outgoing_reliables_sent :
          /\ outgoing_reliables_sent[i].pos = pos
          /\ data' = data \cup {outgoing_reliables_sent[i]}
    /\ UNCHANGED <<senderVars, receiverVars, acks>>

(* UpdateTimers: the window follows the loss statistics up or down.        *)
UpdateTimers ==
    /\ m_window_size' \in Windows \ {m_window_size}
    /\ UNCHANGED <<queued_commands, queued_reliables, outgoing_reliables_sent,
                   next_outgoing_seqnum, submitted, stream, receiverVars, data, acks>>

(* handlePacketType_Control, CONTROLTYPE_ACK *)
ReceiveAck(pos) ==
    /\ \E a \in acks :
          /\ a.pos = pos
          /\ outgoing_reliables_sent' = PopSeqnum(outgoing_reliables_sent, a.seq)
    /\ UNCHANGED <<queued_commands, queued_reliables, next_outgoing_seqnum,
                   m_window_size, submitted, stream, receiverVars, data, acks>>

-----------------------------------------------------------------------------
(* The receiver *)

(* Is the first buffered packet the next one to hand on? *)
BufferNotEmpty == incoming_reliables # <<>>    \* mutant
BufferReady ==
    /\ incoming_reliables # <<>>
    /\ Head(incoming_reliables).seq = next_incoming_seqnum

(* The packet at pos is the next one: a chunk goes to the receiving user,  *)
(* a ping ends here.                                                       *)
HandOn(pos) ==
    /\ next_incoming_seqnum' = Plus(next_incoming_seqnum, 1)
    /\ delivered' = Append(delivered, pos)
    /\ handed' = IF stream[pos] = Ping THEN handed ELSE Append(handed, stream[pos])

(* checkIncomingBuffers; receive() repeats it until the buffer is not      *)
(* ready any more, before it takes another packet from the socket.         *)
CheckIncomingBuffers ==
    /\ BufferReady
    /\ incoming_reliables' = Tail(incoming_reliables)
    /\ HandOn(Head(incoming_reliables).pos)
    /\ UNCHANGED <<senderVars, data, acks>>

(* handlePacketType_Reliable *)
ReceiveReliableAcksOnce(pos) ==    \* mutant: an old packet is not acknowledged again
    /\ ~BufferReady
    /\ \E p \in data :
        /\ p.pos = pos
        /\ InWindow(p.seq, next_incoming_seqnum)
        /\ acks' = acks \cup {p}
        /\ IF p.seq = next_incoming_seqnum
           THEN HandOn(p.pos) /\ UNCHANGED incoming_reliables
           ELSE /\ incoming_reliables' = Insert(incoming_reliables, p, next_incoming_seqnum)
                /\ UNCHANGED <<next_incoming_seqnum, delivered, handed>>
    /\ UNCHANGED <<senderVars, data>>
ReceiveReliable(pos) ==
    /\ ~BufferReady
    /\ \E p \in data :
        /\ p.pos = pos
        /\ acks' = IF IsFuture(p.seq, next_incoming_seqnum) THEN acks ELSE acks \cup {p}
        /\ \/ /\ ~InWindow(p.seq, next_incoming_seqnum)
              /\ UNCHANGED receiverVars
           \/ /\ InWindow(p.seq, next_incoming_seqnum)
              /\ p.seq # next_incoming_seqnum
              /\ incoming_reliables' = Insert(incoming_reliables, p, next_incoming_seqnum)
              /\ UNCHANGED <<next_incoming_seqnum, delivered, handed>>
           \/ /\ p.seq = next_incoming_seqnum
              /\ HandOn(p.pos)
              /\ UNCHANGED incoming_reliables
    /\ UNCHANGED <<senderVars, data>>

-----------------------------------------------------------------------------
(* The network loses a packet or an ACK.  It delivers one any number of    *)
(* times and in any order, because receiving leaves it where it is.  A     *)
(* copy that is never received is as good as lost: what must never happen  *)
(* can be checked without Lose, what must happen eventually can not.       *)
Lose ==
    /\ Lossy
    /\ \/ \E p \in data : data' = data \ {p} /\ UNCHANGED acks
       \/ \E a \in acks : acks' = acks \ {a} /\ UNCHANGED data
    /\ UNCHANGED <<senderVars, receiverVars>>

Next ==
    \/ \E n \in ChunkCounts : Send(n)
    \/ RunCommandQueues
    \/ SendPackets
    \/ RawSendAsPacket
    \/ \E pos \in Position : ResendReliable(pos)
    \/ UpdateTimers
    \/ \E pos \in Position : ReceiveAck(pos)
    \/ CheckIncomingBuffers
    \/ \E pos \in Position : ReceiveReliable(pos)
    \/ Lose

Spec == Init /\ [][Next]_vars

(* The two threads keep running: the send thread works through its queues  *)
(* and its resend timers every 50 ms, the receive thread drains its buffer *)
(* before each read.  The network is fair: of the copies of a packet that  *)
(* are sent again and again, it lets one through at last.  The user is     *)
(* under no obligation, and neither are losses and window changes.         *)
Fairness ==
    /\ WF_vars(RunCommandQueues)
    /\ WF_vars(SendPackets)
    /\ WF_vars(CheckIncomingBuffers)
    /\ \A pos \in Position :
          /\ WF_vars(ResendReliable(pos))
          /\ SF_vars(ReceiveReliable(pos))
          /\ SF_vars(ReceiveAck(pos))

FairSpec == Spec /\ Fairness

-----------------------------------------------------------------------------
(* The comparisons in u16 agree with the distance from the number expected *)
(* next.  seqnum_higher says that one number was given out after another   *)
(* as long as they are less than half the number space apart; at exactly   *)
(* half of it neither is ahead, and the plain values decide.               *)
(* seqnum_in_window is true of the window_size numbers from next on, also  *)
(* where the window wraps around.                                          *)
ComparisonsAgree ==
    \A s \in Seqnum :
        /\ HigherIsShorterWay(s, next_incoming_seqnum)
        /\ \A size \in 1 .. MaxWindow : WindowIsDistance(s, next_incoming_seqnum, size)

(* Whatever number arrives, exactly one of the three cases of              *)
(* handlePacketType_Reliable applies.  An "old" packet, which is           *)
(* acknowledged without being looked at, is one already passed; "future"   *)
(* is only ever said of the number half the space away.                    *)
EveryPacketClassified == \A s \in Seqnum : Classified(s, next_incoming_seqnum)

(* Positions of the packets in a buffer, and what the receiver has got. *)
Positions(list) == {list[i].pos : i \in DOMAIN list}
Received(pos) == pos \in 1 .. Len(delivered) \cup Positions(incoming_reliables)

(* Every packet that was given a number is still somewhere: with the       *)
(* receiver, remembered for resending, or queued.  An ACK may make the     *)
(* sender forget a packet only when the receiver has it, whatever copies   *)
(* of ACKs and packets come late, twice or after the numbers wrap around.  *)
NothingForgotten ==
    \A pos \in DOMAIN stream :
        \/ Received(pos)
        \/ pos \in Positions(outgoing_reliables_sent)
        \/ pos \in Positions(queued_reliables)

(* popSeqnum finds a packet by its number only.  No ACK under way carries  *)
(* the number of another packet that is waiting for its own ACK.           *)
AckHitsItsPacket ==
    \A a \in acks : \A i \in DOMAIN outgoing_reliables_sent :
        a.seq = outgoing_reliables_sent[i].seq => a.pos = outgoing_reliables_sent[i].pos

(* The receiver judges a copy by its number only.  It takes no copy for    *)
(* the next packet, or for one still to come, when it is an old one, and   *)
(* it ignores or re-acknowledges unseen none that it still needs.  (It     *)
(* judges only once its buffer has nothing more to hand on.)               *)
CopyJudgedRightly ==
    ~BufferReady => \A p \in data :
        /\ p.pos <= Len(delivered) => ~InWindow(p.seq, next_incoming_seqnum)
        /\ p.pos > Len(delivered) => InWindow(p.seq, next_incoming_seqnum)
        /\ p.seq = next_incoming_seqnum <=> p.pos = Len(delivered) + 1

(* The channel keeps the promise of FifoChannel to its users. *)
Fifo == INSTANCE FifoChannel WITH
            Item <- Chunk,
            sent <- [i \in 1 .. submitted |-> i],
            received <- handed
ImplementsFifo == Fifo!FifoSpec

(* Whatever the network loses, each chunk the user has sent is handed to   *)
(* the receiving user in the end,                                          *)
EverythingDelivered ==
    \A n \in Chunk : submitted >= n ~> n \in ToSet(handed)

(* and the sender learns of it: no packet is resent for ever, which would  *)
(* end in the peer being timed out.                                        *)
EverythingAcknowledged ==
    \A pos \in Position :
        pos \in Positions(outgoing_reliables_sent)
            ~> pos \notin Positions(outgoing_reliables_sent)
=============================================================================
