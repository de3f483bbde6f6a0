------------------------------ MODULE Handshake ------------------------------
(***************************************************************************)
(* How clients join a server (src/src/network/mtp/threads.cpp, impl.cpp).  *)
(*                                                                         *)
(* A client does not know its peer id yet: its first packets carry the id  *)
(* PEER_ID_INEXISTENT, None here.  The server makes a half-open peer for   *)
(* an address it does not know, and sends it SET_PEER_ID.  The peer is     *)
(* fully open once a packet with its id arrives from its address.  Until   *)
(* then nothing is resent to it; a packet without an id is the reminder    *)
(* that makes the server send SET_PEER_ID once more.                       *)
(*                                                                         *)
(* What is numbered is channel 0 of each client's session: the dummy       *)
(* packet of connect(), number 1, and the pings after it.  The windows and *)
(* the order of delivery are those of ReliableChannel; here it matters     *)
(* only which numbers a session has received.  All SET_PEER_ID packets     *)
(* have the number SEQNUM_INITIAL, so the client takes one, and            *)
(* acknowledges the others as old.                                         *)
(***************************************************************************)
EXTENDS Naturals, Sequences

CONSTANTS
    Client,         \* addresses of clients
    Id,             \* peer ids the server hands out
    MaxReliables,   \* bound: reliable packets of a client on channel 0
    MaxTimeouts,    \* bound: half-open peers that time out
    Lossy,          \* does the network lose packets for good?
    None

ASSUME HandshakeAssumption ==
    /\ None \notin Id
    /\ MaxReliables \in Nat /\ MaxTimeouts \in Nat
    /\ Lossy \in BOOLEAN

VARIABLES
    to_server,      \* packets in flight
    to_client,
    m_peer_id,      \* of each client: its own id
    setting,        \* the id its receive thread is about to set
    next,           \* its next reliable packet; 1 before connect()
    outgoing_reliables_sent,    \* its packets not acknowledged yet
    commands,       \* for its send thread
    m_peers,        \* the server's peers
    m_command_queue,            \* the server's: what its send thread is to do
    timeouts        \* half-open peers deleted so far

clientVars == <<m_peer_id, setting, next, outgoing_reliables_sent, commands>>
serverVars == <<m_peers, m_command_queue, timeouts>>
vars == <<to_server, to_client, clientVars, serverVars>>

Number == 1 .. MaxReliables
OwnId == Id \cup {None}
ToServer == [from : Client, id : OwnId, type : {"reliable"}, n : Number]
            \cup [from : Client, id : OwnId, type : {"init", "ack"}, n : {0}]
ToClient == [to : Client, type : {"ack"}, n : Number]
            \cup [to : Client, type : {"set_peer_id"}, id : Id]
UDPPeer == [address : Client, half_open : BOOLEAN,
            set_peer_id : {"queued", "sent", "acked"}, received : SUBSET Number]
Command == [type : {"create_peer", "resend_one"}, id : Id, n : {0}]
           \cup [type : {"ack"}, id : Id, n : Number]

ASSUME NoneAssumption == None \notin UDPPeer

TypeOK ==
    /\ to_server \subseteq ToServer /\ to_client \subseteq ToClient
    /\ m_peer_id \in [Client -> OwnId]
    /\ setting \in [Client -> OwnId]
    /\ next \in [Client -> 1 .. MaxReliables + 1]
    /\ outgoing_reliables_sent \in [Client -> SUBSET [n : Number, id : OwnId]]
    /\ \A c \in Client : \A p \in outgoing_reliables_sent[c] : p.n < next[c]
    /\ commands \in [Client -> Seq({"ack", "peer_id_set"})]
    /\ m_peers \in [Id -> UDPPeer \cup {None}]
    /\ m_command_queue \subseteq Command
    /\ timeouts \in 0 .. MaxTimeouts

Init ==
    /\ to_server = {} /\ to_client = {}
    /\ m_peer_id = [c \in Client |-> None]
    /\ setting = [c \in Client |-> None]
    /\ next = [c \in Client |-> 1]
    /\ outgoing_reliables_sent = [c \in Client |-> {}]
    /\ commands = [c \in Client |-> <<>>]
    /\ m_peers = [i \in Id |-> None]
    /\ m_command_queue = {}
    /\ timeouts = 0

-----------------------------------------------------------------------------
(* A client *)

SendToServer(c, id, type, n) ==
    to_server' = to_server \cup {[from |-> c, id |-> id, type |-> type, n |-> n]}

(* The dummy packet of connect(), then a Ping, or anything the user sends  *)
(* on the channel.  The header has the id of the moment.                   *)
SendReliable(c) ==
    /\ next[c] \in Number
    /\ next' = [next EXCEPT ![c] = @ + 1]
    /\ outgoing_reliables_sent' = [outgoing_reliables_sent EXCEPT ![c] =
            @ \cup {[n |-> next[c], id |-> m_peer_id[c]]}]
    /\ SendToServer(c, m_peer_id[c], "reliable", next[c])
    /\ UNCHANGED <<to_client, m_peer_id, setting, commands, serverVars>>

(* The client's timer: its peer, the server, is fully open from the start. *)
ResendReliable(c, n) ==
    /\ \E p \in outgoing_reliables_sent[c] : p.n = n /\ SendToServer(c, p.id, "reliable", n)
    /\ UNCHANGED <<to_client, clientVars, serverVars>>

(* TOSERVER_INIT, unreliable, sent again and again until it is answered *)
SendInit(c) ==
    /\ next[c] > 1
    /\ SendToServer(c, m_peer_id[c], "init", 0)
    /\ UNCHANGED <<to_client, clientVars, serverVars>>

(* The receive thread: the command to acknowledge SET_PEER_ID is queued    *)
(* before the packet is looked into.  Bound: the send thread has carried    *)
(* out the commands of the one before.                                     *)
ReceiveSetPeerId(c, i) ==
    /\ [to |-> c, type |-> "set_peer_id", id |-> i] \in to_client
    /\ setting[c] = None
    /\ commands[c] = <<>>
    /\ commands' = [commands EXCEPT ![c] = Append(@, "ack")]
    /\ setting' = [setting EXCEPT ![c] = IF m_peer_id[c] = None THEN i ELSE None]
    /\ UNCHANGED <<to_server, to_client, m_peer_id, next, outgoing_reliables_sent, serverVars>>

SetPeerID(c) ==
    /\ setting[c] # None
    /\ m_peer_id' = [m_peer_id EXCEPT ![c] = setting[c]]
    /\ setting' = [setting EXCEPT ![c] = None]
    /\ commands' = [commands EXCEPT ![c] = Append(@, "peer_id_set")]
    /\ UNCHANGED <<to_server, to_client, next, outgoing_reliables_sent, serverVars>>

ReceiveAck(c, n) ==
    /\ [to |-> c, type |-> "ack", n |-> n] \in to_client
    /\ outgoing_reliables_sent' = [outgoing_reliables_sent EXCEPT ![c] =
            {p \in @ : p.n # n}]
    /\ UNCHANGED <<to_server, to_client, m_peer_id, setting, next, commands, serverVars>>

(* The send thread's commands.  fix_peer_id gives the stored packets the   *)
(* new id; an ACK is sent with the id of the moment.                       *)
fix_peer_id_no_stored(sent, id) == sent    \* mutant
fix_peer_id(sent, id) == {[p EXCEPT !.id = id] : p \in sent}

ProcessClientCommand(c) ==
    /\ commands[c] # <<>>
    /\ commands' = [commands EXCEPT ![c] = Tail(@)]
    /\ \/ /\ Head(commands[c]) = "ack"
          /\ SendToServer(c, m_peer_id[c], "ack", 0)
          /\ UNCHANGED outgoing_reliables_sent
       \/ /\ Head(commands[c]) = "peer_id_set"
          /\ outgoing_reliables_sent' = [outgoing_reliables_sent EXCEPT ![c] =
                    fix_peer_id(@, m_peer_id[c])]
          /\ UNCHANGED to_server
    /\ UNCHANGED <<to_client, m_peer_id, setting, next, serverVars>>

-----------------------------------------------------------------------------
(* The server *)

Known(i) == m_peers[i] # None

(* lookupPeer: the peers with this address *)
LookupPeerOpen(c) == {i \in Id : Known(i) /\ m_peers[i].address = c /\ ~m_peers[i].half_open}    \* mutant
LookupPeer(c) == {i \in Id : Known(i) /\ m_peers[i].address = c}

(* processPacket of a packet p for peer i: the peer after it, and the      *)
(* commands it gives rise to.                                              *)
ReceivedUnlessHalfOpen(peer, p) ==    \* mutant: acknowledged, but not kept while half-open
    IF p.type = "reliable" /\ ~peer.half_open THEN peer.received \cup {p.n} ELSE peer.received
Received(peer, p) ==
    IF p.type = "reliable" THEN peer.received \cup {p.n} ELSE peer.received

Processed(peer, p) ==
    [peer EXCEPT !.received = Received(peer, p),
                 !.set_peer_id = IF p.type = "ack" /\ @ = "sent" THEN "acked" ELSE @]

AcknowledgementAlways(i, p) == {[type |-> "ack", id |-> i, n |-> p.n]}    \* mutant: unreliable packets too
Acknowledgement(i, p) ==
    IF p.type = "reliable" THEN {[type |-> "ack", id |-> i, n |-> p.n]} ELSE {}

(* With an id: it must be a peer's, from its address.  The peer is fully   *)
(* open now.                                                               *)
MayOpenFromAnywhere(i, p) == Known(i)    \* mutant: the address is not validated
MayOpen(i, p) == Known(i) /\ m_peers[i].address = p.from

ReceiveWithId(p) ==
    /\ p.id # None
    /\ MayOpen(p.id, p)
    /\ m_peers' = [m_peers EXCEPT ![p.id] = Processed([@ EXCEPT !.half_open = FALSE], p)]
    /\ m_command_queue' = m_command_queue \cup Acknowledgement(p.id, p)

(* Without an id, from a known address: a reminder, and processed only     *)
(* while the peer is half-open.                                            *)
ReceiveReminder(p) ==
    /\ p.id = None
    /\ \E i \in LookupPeer(p.from) :
        LET resend_one == {[type |-> "resend_one", id |-> i, n |-> 0]}
        IN  IF m_peers[i].half_open
            THEN /\ m_peers' = [m_peers EXCEPT ![i] = Processed(@, p)]
                 /\ m_command_queue' = m_command_queue \cup resend_one \cup Acknowledgement(i, p)
            ELSE /\ m_command_queue' = m_command_queue \cup resend_one
                 /\ UNCHANGED m_peers

(* Without an id, from a new address: createPeer *)
ReceiveNew(p) ==
    /\ p.id = None
    /\ LookupPeer(p.from) = {}
    /\ \E i \in Id :
        /\ ~Known(i)
        /\ m_peers' = [m_peers EXCEPT ![i] =
                Processed([address |-> p.from, half_open |-> TRUE,
                           set_peer_id |-> "queued", received |-> {}], p)]
        /\ m_command_queue' = m_command_queue
                \cup {[type |-> "create_peer", id |-> i, n |-> 0]} \cup Acknowledgement(i, p)

Receive(p) ==
    /\ p \in to_server
    /\ ReceiveWithId(p) \/ ReceiveReminder(p) \/ ReceiveNew(p)
    /\ UNCHANGED <<to_server, to_client, clientVars, timeouts>>

SendSetPeerId(i) ==
    to_client' = to_client \cup {[to |-> m_peers[i].address, type |-> "set_peer_id", id |-> i]}

(* RESEND_ONE sends the first packet that is not acknowledged *)
ResendsNone(i) == FALSE    \* mutant
Resends(i) == m_peers[i].set_peer_id = "sent"

(* The server's send thread: one command.  Commands for peers that are     *)
(* gone come to nothing.  Nothing here depends on their order, and one     *)
(* that waits twice sends the same packet twice, as the network does: so   *)
(* the queue is a set.                                                     *)
ProcessCommand(c) ==
    /\ c \in m_command_queue
    /\ m_command_queue' = m_command_queue \ {c}
    /\ \/ /\ Known(c.id) /\ c.type = "create_peer"
          /\ m_peers' = [m_peers EXCEPT ![c.id].set_peer_id = "sent"]
          /\ SendSetPeerId(c.id)
       \/ /\ Known(c.id) /\ c.type = "resend_one" /\ Resends(c.id)
          /\ SendSetPeerId(c.id)
          /\ UNCHANGED m_peers
       \/ /\ Known(c.id) /\ c.type = "ack"
          /\ to_client' = to_client \cup
                {[to |-> m_peers[c.id].address, type |-> "ack", n |-> c.n]}
          /\ UNCHANGED m_peers
       \/ /\ Known(c.id) => c.type = "resend_one" /\ ~Resends(c.id)
          /\ UNCHANGED <<m_peers, to_client>>
    /\ UNCHANGED <<to_server, clientVars, timeouts>>

(* runTimeouts resends to peers that are fully open *)
ResendSetPeerId(i) ==
    /\ Known(i) /\ ~m_peers[i].half_open
    /\ m_peers[i].set_peer_id = "sent"
    /\ SendSetPeerId(i)
    /\ UNCHANGED <<to_server, clientVars, serverVars>>

(* runTimeouts deletes a peer that stays half-open for too long *)
TimeOutHalfOpen(i) ==
    /\ timeouts < MaxTimeouts
    /\ Known(i) /\ m_peers[i].half_open
    /\ m_peers' = [m_peers EXCEPT ![i] = None]
    /\ timeouts' = timeouts + 1
    /\ UNCHANGED <<to_server, to_client, clientVars, m_command_queue>>

-----------------------------------------------------------------------------
(* The network loses a packet for good; it delivers one any number of      *)
(* times, late, and out of order, because receiving leaves it in flight.   *)
Lose ==
    /\ Lossy
    /\ \/ \E p \in to_server : to_server' = to_server \ {p} /\ UNCHANGED to_client
       \/ \E p \in to_client : to_client' = to_client \ {p} /\ UNCHANGED to_server
    /\ UNCHANGED <<clientVars, serverVars>>

Next ==
    \/ \E c \in Client :
        \/ SendReliable(c)
        \/ \E n \in Number : ResendReliable(c, n)
        \/ SendInit(c)
        \/ \E i \in Id : ReceiveSetPeerId(c, i)
        \/ SetPeerID(c)
        \/ \E n \in Number : ReceiveAck(c, n)
        \/ ProcessClientCommand(c)
    \/ \E p \in to_server : Receive(p)
    \/ \E c \in m_command_queue : ProcessCommand(c)
    \/ \E i \in Id : ResendSetPeerId(i)
    \/ \E i \in Id : TimeOutHalfOpen(i)
    \/ Lose

Spec == Init /\ [][Next]_vars

(* The threads keep running, and the client repeats TOSERVER_INIT every    *)
(* 1.5 s: of the copies of a packet sent again and again, the network lets *)
(* one through.  Nothing else has to happen for a client to join: no       *)
(* reliable packet has to arrive, none has to be resent.                   *)
Fairness ==
    /\ \A c \in Client :
        /\ WF_vars(SendInit(c)) /\ WF_vars(SetPeerID(c))
        /\ \A i \in Id : SF_vars(ReceiveSetPeerId(c, i))
    /\ \A p \in [from : Client, id : OwnId, type : {"init"}, n : {0}] : SF_vars(Receive(p))
    /\ \A i \in Id :
        /\ WF_vars(ProcessCommand([type |-> "create_peer", id |-> i, n |-> 0]))
        /\ WF_vars(ProcessCommand([type |-> "resend_one", id |-> i, n |-> 0]))

FairSpec == Spec /\ Fairness

-----------------------------------------------------------------------------
(* Client and server agree on the session. *)
Agreed(c) ==
    \E i \in Id : /\ m_peer_id[c] = i
                  /\ Known(i) /\ m_peers[i].address = c /\ ~m_peers[i].half_open

(* A peer is fully open only when the client at its address has that very  *)
(* id: no packet that is late, duplicated, or of an earlier session opens  *)
(* it.                                                                     *)
OpenMeansAgreed ==
    \A i \in Id : Known(i) /\ ~m_peers[i].half_open => m_peer_id[m_peers[i].address] = i

(* However often a client repeats its first packets, there is one peer for *)
(* its address.                                                            *)
OnePeerPerAddress ==
    \A i, j \in Id : Known(i) /\ Known(j) /\ m_peers[i].address = m_peers[j].address => i = j

(* Once the send thread has seen the new id, no packet waits to be resent  *)
(* with another one: the server ignores such a packet for ever.            *)
HeadersFixed ==
    \A c \in Client :
        m_peer_id[c] # None /\ "peer_id_set" \notin {commands[c][k] : k \in DOMAIN commands[c]}
        => \A p \in outgoing_reliables_sent[c] : p.id = m_peer_id[c]

(* "Delivery of all RELIABLE packets shall be forced by ACKs"              *)
(* (internal.h): what the client will not send again, the session it has   *)
(* with the server has received.                                           *)
DeliveryForced ==
    \A c \in Client : Agreed(c) =>
        \A n \in Number :
            n < next[c] /\ (\A p \in outgoing_reliables_sent[c] : p.n # n)
            => n \in m_peers[m_peer_id[c]].received

(* The same as long as no half-open peer has timed out. *)
AckedIsReceived == timeouts = 0 => DeliveryForced

(* A client that connects joins: as long as no half-open peer times out,   *)
(* client and server come to agree, whatever the network loses.            *)
Joined == [](timeouts = 0) => \A c \in Client : next[c] > 1 ~> Agreed(c)
=============================================================================
