--------------------------- MODULE HandshakeProofs ---------------------------
(* Who is at which id: for any number of clients, ids, packets and         *)
(* timeouts, with any loss.                                                *)
EXTENDS Handshake, SequenceTheorems, TLAPS

(* A client uses no id but the one it has or had none; and it sets its id  *)
(* once.                                                                   *)
IdsOwn ==
    /\ \A p \in to_server : p.id \in {None, m_peer_id[p.from]}
    /\ \A c \in Client : \A p \in outgoing_reliables_sent[c] : p.id \in {None, m_peer_id[c]}
    /\ \A c \in Client : setting[c] # None => m_peer_id[c] = None

(* Some peer of the server's for client c has received packet n.           *)
Has(c, n) ==
    \E i \in Id : Known(i) /\ m_peers[i].address = c /\ n \in m_peers[i].received

(* Why an acknowledgement can be trusted, until a half-open peer and what  *)
(* it has received are deleted: the packet was kept before the command to  *)
(* acknowledge it was queued.                                              *)
AckedInv ==
    timeouts = 0 =>
        /\ \A c \in Client, n \in Number :
              n < next[c] /\ (\A p \in outgoing_reliables_sent[c] : p.n # n) => Has(c, n)
        /\ \A m \in to_client : m.type = "ack" => Has(m.to, m.n)
        /\ \A x \in m_command_queue :
              x.type = "ack" => Known(x.id) /\ x.n \in m_peers[x.id].received

IInv ==
    TypeOK /\ IdsOwn /\ OpenMeansAgreed /\ HeadersFixed /\ OnePeerPerAddress /\ AckedInv

-----------------------------------------------------------------------------
(* What the server's receive thread makes of a peer: the same peer, fully  *)
(* open at most after a packet with its id.                                *)
LEMMA ProcessedType ==
    ASSUME NEW peer \in UDPPeer, NEW p \in ToServer
    PROVE  /\ Processed(peer, p) \in UDPPeer
           /\ Processed(peer, p).address = peer.address
           /\ Processed(peer, p).half_open = peer.half_open
<1>1. Received(peer, p) \in SUBSET Number
  BY DEF Received, ToServer, UDPPeer
<1>2. (IF p.type = "ack" /\ peer.set_peer_id = "sent" THEN "acked" ELSE peer.set_peer_id)
        \in {"queued", "sent", "acked"}
  BY DEF UDPPeer
<1> QED
  BY <1>1, <1>2 DEF Processed, UDPPeer

(* Receive changes at most one entry: it opens a peer of the sender's that *)
(* has the id of the packet, or keeps a peer as it was, or makes one for   *)
(* an address that has none.                                               *)
LEMMA ReceiveChanges ==
    ASSUME TypeOK, NEW p \in ToServer, Receive(p)
    PROVE  \/ m_peers' = m_peers
           \/ \E i \in Id, peer \in UDPPeer :
                /\ m_peers' = [m_peers EXCEPT ![i] = peer]
                /\ peer.address = p.from
                /\ \/ /\ p.id = i /\ m_peers[i] # None
                      /\ m_peers[i].address = p.from
                   \/ /\ m_peers[i] # None
                      /\ m_peers[i].address = p.from
                      /\ m_peers[i].half_open /\ peer.half_open
                   \/ /\ peer.half_open
                      /\ LookupPeer(p.from) = {}
<1>1. CASE ReceiveWithId(p)
  <2>1. p.id \in Id /\ m_peers[p.id] # None /\ m_peers[p.id].address = p.from
    BY <1>1 DEF ReceiveWithId, MayOpen, Known, ToServer, OwnId
  <2>2. m_peers[p.id] \in UDPPeer
    BY <2>1 DEF TypeOK
  <2> DEFINE open == [m_peers[p.id] EXCEPT !.half_open = FALSE]
  <2>3. open \in UDPPeer /\ open.address = p.from
    BY <2>1, <2>2 DEF UDPPeer
  <2>4. Processed(open, p) \in UDPPeer /\ Processed(open, p).address = p.from
    BY <2>3, ProcessedType
  <2>5. m_peers' = [m_peers EXCEPT ![p.id] = Processed(open, p)]
    BY <1>1, <2>1 DEF ReceiveWithId, TypeOK
  <2> QED
    BY <2>1, <2>4, <2>5
<1>2. CASE ReceiveReminder(p)
  <2>1. PICK i \in Id :
          /\ m_peers[i] # None /\ m_peers[i].address = p.from
          /\ \/ m_peers' = m_peers
             \/ m_peers[i].half_open /\ m_peers' = [m_peers EXCEPT ![i] = Processed(@, p)]
    BY <1>2 DEF ReceiveReminder, LookupPeer, Known
  <2>2. m_peers[i] \in UDPPeer
    BY <2>1 DEF TypeOK
  <2>3. /\ Processed(m_peers[i], p) \in UDPPeer
        /\ Processed(m_peers[i], p).address = p.from
        /\ Processed(m_peers[i], p).half_open = m_peers[i].half_open
    BY <2>1, <2>2, ProcessedType
  <2>4. CASE m_peers[i].half_open /\ m_peers' = [m_peers EXCEPT ![i] = Processed(@, p)]
    <3>1. m_peers' = [m_peers EXCEPT ![i] = Processed(m_peers[i], p)]
      BY <2>4 DEF TypeOK
    <3> QED
      BY <2>1, <2>3, <2>4, <3>1
  <2> QED
    BY <2>1, <2>4
<1>3. CASE ReceiveNew(p)
  <2> DEFINE fresh == [address |-> p.from, half_open |-> TRUE,
                       set_peer_id |-> "queued", received |-> {}]
  <2>1. PICK i \in Id : m_peers' = [m_peers EXCEPT ![i] = Processed(fresh, p)]
    BY <1>3 DEF ReceiveNew
  <2>2. fresh \in UDPPeer
    BY DEF UDPPeer, ToServer
  <2>3. /\ Processed(fresh, p) \in UDPPeer
        /\ Processed(fresh, p).address = p.from
        /\ Processed(fresh, p).half_open
    BY <2>2, ProcessedType
  <2>4. LookupPeer(p.from) = {}
    BY <1>3 DEF ReceiveNew
  <2> QED
    BY <2>1, <2>3, <2>4
<1> QED
  BY <1>1, <1>2, <1>3 DEF Receive

(* The server's send thread and timers change no peer but its SET_PEER_ID, *)
(* and delete half-open ones.                                              *)
LEMMA CommandChanges ==
    ASSUME TypeOK, NEW c \in m_command_queue, ProcessCommand(c)
    PROVE  \/ m_peers' = m_peers
           \/ \E i \in Id, peer \in UDPPeer :
                /\ m_peers' = [m_peers EXCEPT ![i] = peer]
                /\ m_peers[i] # None
                /\ peer.address = m_peers[i].address
                /\ peer.half_open = m_peers[i].half_open
<1>1. CASE Known(c.id) /\ m_peers' = [m_peers EXCEPT ![c.id].set_peer_id = "sent"]
  <2>1. c.id \in Id
    BY DEF Command, TypeOK
  <2>2. m_peers[c.id] \in UDPPeer /\ m_peers[c.id] # None
    BY <1>1, <2>1 DEF Known, TypeOK
  <2> DEFINE peer == [m_peers[c.id] EXCEPT !.set_peer_id = "sent"]
  <2>3. /\ peer \in UDPPeer /\ peer.address = m_peers[c.id].address
        /\ peer.half_open = m_peers[c.id].half_open
    BY <2>2 DEF UDPPeer
  <2>4. m_peers' = [m_peers EXCEPT ![c.id] = peer]
    BY <1>1, <2>1 DEF TypeOK
  <2> QED
    BY <2>1, <2>2, <2>3, <2>4
<1> QED
  BY <1>1 DEF ProcessCommand

-----------------------------------------------------------------------------
(* Types *)

LEMMA TypeInit == Init => TypeOK
<1> SUFFICES ASSUME Init
             PROVE  TypeOK
  OBVIOUS
<1>1. 1 \in 1 .. MaxReliables + 1 /\ 0 \in 0 .. MaxTimeouts
  BY HandshakeAssumption
<1>2. <<>> \in Seq({"ack", "peer_id_set"})
  BY EmptySeq
<1> QED
  BY <1>1, <1>2 DEF Init, TypeOK, OwnId

(* What client c does leaves the server alone. *)
LEMMA SentTyped ==
    ASSUME TypeOK, NEW c \in Client, NEW id \in OwnId,
           NEW type \in {"reliable", "init", "ack"}, NEW n,
           type = "reliable" => n \in Number, type # "reliable" => n = 0,
           SendToServer(c, id, type, n)
    PROVE  to_server' \subseteq ToServer
<1>1. [from |-> c, id |-> id, type |-> type, n |-> n] \in ToServer
  BY DEF ToServer
<1> QED
  BY <1>1 DEF SendToServer, TypeOK

LEMMA TypeStep == TypeOK /\ [Next]_vars => TypeOK'
<1> SUFFICES ASSUME TypeOK, [Next]_vars
             PROVE  TypeOK'
  OBVIOUS
<1>1. ASSUME NEW c \in Client, SendReliable(c)
      PROVE  TypeOK'
  <2>1. next[c] \in Number /\ m_peer_id[c] \in OwnId /\ MaxReliables \in Nat
    BY <1>1, HandshakeAssumption DEF SendReliable, TypeOK
  <2>2. to_server' \subseteq ToServer
    BY <1>1, <2>1, SentTyped DEF SendReliable
  <2>3. /\ next' = [next EXCEPT ![c] = @ + 1]
        /\ next' \in [Client -> 1 .. MaxReliables + 1]
        /\ next[c] + 1 \in Nat /\ next[c] < next[c] + 1
    BY <1>1, <2>1 DEF SendReliable, TypeOK, Number
  <2>4. outgoing_reliables_sent' = [outgoing_reliables_sent EXCEPT ![c] =
            @ \cup {[n |-> next[c], id |-> m_peer_id[c]]}]
    BY <1>1 DEF SendReliable
  <2>5. outgoing_reliables_sent' \in [Client -> SUBSET [n : Number, id : OwnId]]
    BY <2>1, <2>4 DEF TypeOK
  <2>6. ASSUME NEW d \in Client, NEW p \in outgoing_reliables_sent'[d]
        PROVE  p.n < next'[d]
    <3>1. CASE d # c
      BY <2>3, <2>4, <2>6, <3>1 DEF TypeOK
    <3>2. CASE d = c /\ p \in outgoing_reliables_sent[c]
      <4>1. p.n \in Number /\ p.n < next[c] /\ next'[d] = next[c] + 1
        BY <2>3, <3>2 DEF TypeOK
      <4> QED
        BY <2>1, <4>1 DEF Number
    <3>3. CASE d = c /\ p = [n |-> next[c], id |-> m_peer_id[c]]
      BY <2>3, <3>3 DEF TypeOK
    <3> QED
      BY <2>4, <2>6, <3>1, <3>2, <3>3 DEF TypeOK
  <2> QED
    BY <1>1, <2>2, <2>3, <2>5, <2>6 DEF SendReliable, TypeOK, serverVars
<1>2. ASSUME NEW c \in Client, NEW n \in Number, ResendReliable(c, n)
      PROVE  TypeOK'
  <2>1. PICK p \in outgoing_reliables_sent[c] : SendToServer(c, p.id, "reliable", n)
    BY <1>2 DEF ResendReliable
  <2>2. p.id \in OwnId
    BY DEF TypeOK
  <2>3. to_server' \subseteq ToServer
    BY <2>1, <2>2, SentTyped
  <2> QED
    BY <1>2, <2>3 DEF ResendReliable, TypeOK, clientVars, serverVars
<1>3. ASSUME NEW c \in Client, SendInit(c)
      PROVE  TypeOK'
  <2>1. to_server' \subseteq ToServer
    BY <1>3, SentTyped DEF SendInit, TypeOK
  <2> QED
    BY <1>3, <2>1 DEF SendInit, TypeOK, clientVars, serverVars
<1>4. ASSUME NEW c \in Client, NEW i \in Id, ReceiveSetPeerId(c, i)
      PROVE  TypeOK'
  <2>1. Append(commands[c], "ack") \in Seq({"ack", "peer_id_set"})
    BY AppendProperties DEF TypeOK
  <2>2. (IF m_peer_id[c] = None THEN i ELSE None) \in OwnId
    BY DEF OwnId
  <2>3. /\ commands' = [commands EXCEPT ![c] = Append(commands[c], "ack")]
        /\ setting' = [setting EXCEPT ![c] = IF m_peer_id[c] = None THEN i ELSE None]
    BY <1>4 DEF ReceiveSetPeerId, TypeOK
  <2> QED
    BY <1>4, <2>1, <2>2, <2>3 DEF ReceiveSetPeerId, TypeOK, serverVars
<1>5. ASSUME NEW c \in Client, SetPeerID(c)
      PROVE  TypeOK'
  <2>1. Append(commands[c], "peer_id_set") \in Seq({"ack", "peer_id_set"})
    BY AppendProperties DEF TypeOK
  <2>2. commands' = [commands EXCEPT ![c] = Append(commands[c], "peer_id_set")]
    BY <1>5 DEF SetPeerID, TypeOK
  <2> QED
    BY <1>5, <2>1, <2>2 DEF SetPeerID, TypeOK, OwnId, serverVars
<1>6. ASSUME NEW c \in Client, NEW n \in Number, ReceiveAck(c, n)
      PROVE  TypeOK'
  <2>1. \A d \in Client : outgoing_reliables_sent'[d] \subseteq outgoing_reliables_sent[d]
    BY <1>6 DEF ReceiveAck, TypeOK
  <2>2. outgoing_reliables_sent' \in [Client -> SUBSET [n : Number, id : OwnId]]
    BY <1>6 DEF ReceiveAck, TypeOK
  <2>3. UNCHANGED <<to_server, to_client, m_peer_id, setting, next, commands, serverVars>>
    BY <1>6 DEF ReceiveAck
  <2> QED
    BY <2>1, <2>2, <2>3 DEF TypeOK, serverVars
<1>7. ASSUME NEW c \in Client, ProcessClientCommand(c)
      PROVE  TypeOK'
  <2>1. Tail(commands[c]) \in Seq({"ack", "peer_id_set"})
    BY <1>7, HeadTailProperties DEF ProcessClientCommand, TypeOK
  <2>2. commands' = [commands EXCEPT ![c] = Tail(commands[c])]
    BY <1>7 DEF ProcessClientCommand, TypeOK
  <2>3. UNCHANGED <<to_client, m_peer_id, setting, next, serverVars>> /\ m_peer_id[c] \in OwnId
    BY <1>7 DEF ProcessClientCommand, TypeOK
  <2>4. CASE SendToServer(c, m_peer_id[c], "ack", 0) /\ UNCHANGED outgoing_reliables_sent
    <3>1. to_server' \subseteq ToServer
      BY <2>3, <2>4, SentTyped
    <3> QED
      BY <2>1, <2>2, <2>3, <2>4, <3>1 DEF TypeOK, serverVars
  <2>5. CASE /\ outgoing_reliables_sent' = [outgoing_reliables_sent EXCEPT ![c] =
                    fix_peer_id(@, m_peer_id[c])]
             /\ UNCHANGED to_server
    <3> DEFINE sent == outgoing_reliables_sent[c]
               fixed == fix_peer_id(sent, m_peer_id[c])
    <3>1. ASSUME NEW p \in sent
          PROVE  LET q == [p EXCEPT !.id = m_peer_id[c]]
                 IN  q \in [n : Number, id : OwnId] /\ q.n = p.n /\ p.n < next[c]
      <4>1. p \in [n : Number, id : OwnId] /\ p.n < next[c]
        BY <3>1 DEF TypeOK
      <4>2. p.n \in Number
        BY <4>1
      <4> QED
        BY <2>3, <4>1, <4>2
    <3>2. fixed \in SUBSET [n : Number, id : OwnId] /\ \A q \in fixed : q.n < next[c]
      BY <3>1 DEF fix_peer_id
    <3>3. outgoing_reliables_sent' = [outgoing_reliables_sent EXCEPT ![c] = fixed]
      BY <2>5 DEF TypeOK
    <3> HIDE DEF fixed
    <3>4. /\ outgoing_reliables_sent' \in [Client -> SUBSET [n : Number, id : OwnId]]
          /\ \A d \in Client : \A q \in outgoing_reliables_sent'[d] : q.n < next[d]
      BY <3>2, <3>3 DEF TypeOK
    <3> QED
      BY <2>1, <2>2, <2>3, <2>5, <3>4 DEF TypeOK, serverVars
  <2> QED
    BY <1>7, <2>4, <2>5 DEF ProcessClientCommand
<1>8. ASSUME NEW p \in to_server, Receive(p)
      PROVE  TypeOK'
  <2>1. p \in ToServer
    BY DEF TypeOK
  <2>2. m_peers' \in [Id -> UDPPeer \cup {None}]
    BY <1>8, <2>1, ReceiveChanges DEF TypeOK
  <2>3. \A i \in Id : Acknowledgement(i, p) \subseteq Command
    BY <2>1 DEF Acknowledgement, ToServer, Command
  <2>4. \A i \in Id : /\ [type |-> "create_peer", id |-> i, n |-> 0] \in Command
                      /\ [type |-> "resend_one", id |-> i, n |-> 0] \in Command
    BY DEF Command
  <2>5. p.id # None => p.id \in Id
    BY <2>1 DEF ToServer, OwnId
  <2>6. \A i \in LookupPeer(p.from) : i \in Id
    BY DEF LookupPeer
  <2>7. m_command_queue' \subseteq Command
    <3>1. CASE ReceiveWithId(p)
      BY <2>3, <2>5, <3>1 DEF ReceiveWithId, TypeOK
    <3>2. CASE ReceiveReminder(p)
      <4>1. PICK i \in LookupPeer(p.from) :
              m_command_queue' \in
                {m_command_queue \cup {[type |-> "resend_one", id |-> i, n |-> 0]}
                    \cup Acknowledgement(i, p),
                 m_command_queue \cup {[type |-> "resend_one", id |-> i, n |-> 0]}}
        BY <3>2 DEF ReceiveReminder
      <4>2. i \in Id /\ m_command_queue \subseteq Command
        BY <2>6 DEF TypeOK
      <4>3. /\ Acknowledgement(i, p) \subseteq Command
            /\ [type |-> "resend_one", id |-> i, n |-> 0] \in Command
        BY <2>3, <2>4, <4>2
      <4> QED
        BY <4>1, <4>2, <4>3
    <3>3. CASE ReceiveNew(p)
      BY <2>3, <2>4, <3>3 DEF ReceiveNew, TypeOK
    <3> QED
      BY <1>8, <3>1, <3>2, <3>3 DEF Receive
  <2> QED
    BY <1>8, <2>2, <2>7 DEF Receive, TypeOK, clientVars
<1>9. ASSUME NEW c \in m_command_queue, ProcessCommand(c)
      PROVE  TypeOK'
  <2>1. m_peers' \in [Id -> UDPPeer \cup {None}]
    BY <1>9, CommandChanges DEF TypeOK
  <2>2. c \in Command /\ c.id \in Id /\ (c.type = "ack" => c.n \in Number)
    BY DEF TypeOK, Command
  <2>3. Known(c.id) => m_peers[c.id].address \in Client
    BY <2>2 DEF Known, TypeOK, UDPPeer
  <2>4. to_client' \subseteq ToClient
    BY <1>9, <2>2, <2>3 DEF ProcessCommand, SendSetPeerId, ToClient, TypeOK
  <2> QED
    BY <1>9, <2>1, <2>4 DEF ProcessCommand, TypeOK, clientVars
<1>10. ASSUME NEW i \in Id, ResendSetPeerId(i)
       PROVE  TypeOK'
  <2>1. m_peers[i].address \in Client
    BY <1>10 DEF ResendSetPeerId, Known, TypeOK, UDPPeer
  <2>2. to_client' \subseteq ToClient
    BY <1>10, <2>1 DEF ResendSetPeerId, SendSetPeerId, ToClient, TypeOK
  <2> QED
    BY <1>10, <2>2 DEF ResendSetPeerId, TypeOK, clientVars, serverVars
<1>11. ASSUME NEW i \in Id, TimeOutHalfOpen(i)
       PROVE  TypeOK'
  <2>1. timeouts' \in 0 .. MaxTimeouts
    BY <1>11, HandshakeAssumption DEF TimeOutHalfOpen, TypeOK
  <2> QED
    BY <1>11, <2>1 DEF TimeOutHalfOpen, TypeOK, clientVars
<1>12. CASE Lose
  BY <1>12 DEF Lose, TypeOK, clientVars, serverVars
<1>13. CASE UNCHANGED vars
  BY <1>13 DEF vars, TypeOK, clientVars, serverVars
<1> QED
  BY <1>1, <1>2, <1>3, <1>4, <1>5, <1>6, <1>7, <1>8, <1>9, <1>10, <1>11, <1>12, <1>13
     DEF Next

-----------------------------------------------------------------------------
(* Ids *)

(* What a client sends has the id it has, or none.                         *)
LEMMA SentOwn ==
    ASSUME TypeOK, IdsOwn, NEW c \in Client, NEW id \in {None, m_peer_id[c]},
           NEW type, NEW n, SendToServer(c, id, type, n)
    PROVE  \A p \in to_server' : p.id \in {None, m_peer_id[p.from]}
BY DEF SendToServer, IdsOwn

(* The ids after a step of the server or the network: the packets in       *)
(* flight are no more than before.                                         *)
LEMMA IdsOwnKept ==
    ASSUME IdsOwn, to_server' \subseteq to_server,
           UNCHANGED <<m_peer_id, setting, outgoing_reliables_sent>>
    PROVE  IdsOwn'
BY DEF IdsOwn

LEMMA IdsOwnStep ==
    ASSUME TypeOK, IdsOwn, Next
    PROVE  IdsOwn'
<1>1. ASSUME NEW c \in Client, SendReliable(c)
      PROVE  IdsOwn'
  <2>1. \A p \in to_server' : p.id \in {None, m_peer_id[p.from]}
    BY <1>1, SentOwn DEF SendReliable
  <2>2. \A d \in Client : \A p \in outgoing_reliables_sent'[d] : p.id \in {None, m_peer_id[d]}
    BY <1>1 DEF SendReliable, TypeOK, IdsOwn
  <2> QED
    BY <1>1, <2>1, <2>2 DEF SendReliable, IdsOwn
<1>2. ASSUME NEW c \in Client, NEW n \in Number, ResendReliable(c, n)
      PROVE  IdsOwn'
  <2>1. \A p \in to_server' : p.id \in {None, m_peer_id[p.from]}
    <3>1. PICK p \in outgoing_reliables_sent[c] : SendToServer(c, p.id, "reliable", n)
      BY <1>2 DEF ResendReliable
    <3>2. p.id \in {None, m_peer_id[c]}
      BY DEF IdsOwn
    <3> QED
      BY <3>1, <3>2, SentOwn
  <2> QED
    BY <1>2, <2>1 DEF ResendReliable, IdsOwn, clientVars
<1>3. ASSUME NEW c \in Client, SendInit(c)
      PROVE  IdsOwn'
  <2>1. \A p \in to_server' : p.id \in {None, m_peer_id[p.from]}
    BY <1>3, SentOwn DEF SendInit
  <2> QED
    BY <1>3, <2>1 DEF SendInit, IdsOwn, clientVars
<1>4. ASSUME NEW c \in Client, NEW i \in Id, ReceiveSetPeerId(c, i)
      PROVE  IdsOwn'
  BY <1>4 DEF ReceiveSetPeerId, TypeOK, IdsOwn
<1>5. ASSUME NEW c \in Client, SetPeerID(c)
      PROVE  IdsOwn'
  <2>1. m_peer_id[c] = None
    BY <1>5 DEF SetPeerID, IdsOwn
  <2>2. \A d \in Client : m_peer_id'[d] # m_peer_id[d] => d = c
    BY <1>5 DEF SetPeerID, TypeOK
  <2>3. \A p \in to_server : p.from \in Client
    BY DEF TypeOK, ToServer
  <2>4. \A p \in to_server : p.id \in {None, m_peer_id'[p.from]}
    BY <2>1, <2>2, <2>3 DEF IdsOwn
  <2>5. \A d \in Client : \A p \in outgoing_reliables_sent[d] : p.id \in {None, m_peer_id'[d]}
    BY <2>1, <2>2 DEF IdsOwn
  <2>6. \A d \in Client : setting'[d] # None => m_peer_id'[d] = None
    BY <1>5, <2>2 DEF SetPeerID, TypeOK, IdsOwn
  <2> QED
    BY <1>5, <2>4, <2>5, <2>6 DEF SetPeerID, IdsOwn
<1>6. ASSUME NEW c \in Client, NEW n \in Number, ReceiveAck(c, n)
      PROVE  IdsOwn'
  <2>1. \A d \in Client : outgoing_reliables_sent'[d] \subseteq outgoing_reliables_sent[d]
    BY <1>6 DEF ReceiveAck, TypeOK
  <2> QED
    BY <1>6, <2>1 DEF ReceiveAck, IdsOwn
<1>7. ASSUME NEW c \in Client, ProcessClientCommand(c)
      PROVE  IdsOwn'
  <2>1. CASE SendToServer(c, m_peer_id[c], "ack", 0) /\ UNCHANGED outgoing_reliables_sent
    <3>1. \A p \in to_server' : p.id \in {None, m_peer_id[p.from]}
      BY <2>1, SentOwn
    <3> QED
      BY <1>7, <2>1, <3>1 DEF ProcessClientCommand, IdsOwn
  <2>2. CASE /\ outgoing_reliables_sent' = [outgoing_reliables_sent EXCEPT ![c] =
                    fix_peer_id(@, m_peer_id[c])]
             /\ UNCHANGED to_server
    <3>1. \A p \in outgoing_reliables_sent[c] : [p EXCEPT !.id = m_peer_id[c]].id = m_peer_id[c]
      BY DEF TypeOK
    <3>2. \A p \in fix_peer_id(outgoing_reliables_sent[c], m_peer_id[c]) : p.id = m_peer_id[c]
      <4> SUFFICES ASSUME NEW p \in fix_peer_id(outgoing_reliables_sent[c], m_peer_id[c])
                   PROVE  p.id = m_peer_id[c]
        OBVIOUS
      <4>1. PICK q \in outgoing_reliables_sent[c] : p = [q EXCEPT !.id = m_peer_id[c]]
        BY DEF fix_peer_id
      <4> QED
        BY <3>1, <4>1
    <3>3. \A d \in Client : \A p \in outgoing_reliables_sent'[d] : p.id \in {None, m_peer_id[d]}
      BY <2>2, <3>2 DEF TypeOK, IdsOwn
    <3> QED
      BY <1>7, <2>2, <3>3 DEF ProcessClientCommand, IdsOwn
  <2> QED
    BY <1>7, <2>1, <2>2 DEF ProcessClientCommand
<1>8. ASSUME \/ \E p \in to_server : Receive(p)
             \/ \E c \in m_command_queue : ProcessCommand(c)
             \/ \E i \in Id : ResendSetPeerId(i) \/ TimeOutHalfOpen(i)
             \/ Lose
      PROVE  IdsOwn'
  <2>1. /\ to_server' \subseteq to_server
        /\ UNCHANGED <<m_peer_id, setting, outgoing_reliables_sent>>
    BY <1>8
       DEF Receive, ProcessCommand, ResendSetPeerId, TimeOutHalfOpen, Lose, clientVars
  <2> QED
    BY <2>1, IdsOwnKept
<1> QED
  BY <1>1, <1>2, <1>3, <1>4, <1>5, <1>6, <1>7, <1>8 DEF Next

-----------------------------------------------------------------------------
(* Peers *)

(* Every step but the receipt of a packet leaves each peer at its address, *)
(* opens none and makes none.                                              *)
LEMMA PeersKept ==
    ASSUME TypeOK, Next
    PROVE  \/ \E p \in to_server : Receive(p) /\ m_peer_id' = m_peer_id
           \/ \A i \in Id : m_peers'[i] # None =>
                /\ m_peers[i] # None
                /\ m_peers'[i].address = m_peers[i].address
                /\ m_peers'[i].half_open = m_peers[i].half_open
<1>1. CASE m_peers' = m_peers
  BY <1>1
<1>2. CASE \E p \in to_server : Receive(p)
  BY <1>2 DEF Receive, clientVars
<1>3. CASE \E c \in m_command_queue : ProcessCommand(c)
  BY <1>3, CommandChanges DEF TypeOK
<1>4. CASE \E i \in Id : TimeOutHalfOpen(i)
  BY <1>4 DEF TimeOutHalfOpen, TypeOK
<1>5. CASE \/ \E c \in Client :
              \/ SendReliable(c) \/ SendInit(c) \/ SetPeerID(c) \/ ProcessClientCommand(c)
              \/ \E n \in Number : ResendReliable(c, n) \/ ReceiveAck(c, n)
              \/ \E i \in Id : ReceiveSetPeerId(c, i)
           \/ \E i \in Id : ResendSetPeerId(i)
           \/ Lose
  <2>1. m_peers' = m_peers
    BY <1>5 DEF SendReliable, SendInit, SetPeerID, ProcessClientCommand, ResendReliable,
                ReceiveAck, ReceiveSetPeerId, ResendSetPeerId, Lose, serverVars
  <2> QED
    BY <2>1
<1> QED
  BY <1>2, <1>3, <1>4, <1>5 DEF Next

(* A client that has an id keeps it.                                       *)
LEMMA IdKept ==
    ASSUME TypeOK, IdsOwn, Next, NEW c \in Client, m_peer_id[c] # None
    PROVE  m_peer_id'[c] = m_peer_id[c]
<1>1. ASSUME NEW d \in Client, SetPeerID(d)
      PROVE  m_peer_id'[c] = m_peer_id[c]
  BY <1>1 DEF SetPeerID, TypeOK, IdsOwn
<1>2. CASE ~\E d \in Client : SetPeerID(d)
  <2>1. m_peer_id' = m_peer_id
    BY <1>2 DEF Next, SendReliable, SendInit, ProcessClientCommand, ResendReliable,
                ReceiveAck, ReceiveSetPeerId, Receive, ProcessCommand, ResendSetPeerId,
                TimeOutHalfOpen, Lose, clientVars
  <2> QED
    BY <2>1
<1> QED
  BY <1>1, <1>2

LEMMA OpenMeansAgreedStep ==
    ASSUME TypeOK, IdsOwn, OpenMeansAgreed, Next
    PROVE  OpenMeansAgreed'
<1> SUFFICES ASSUME NEW i \in Id, m_peers'[i] # None, ~m_peers'[i].half_open
             PROVE  m_peer_id'[m_peers'[i].address] = i
  BY DEF OpenMeansAgreed, Known
<1>0. i # None
  BY HandshakeAssumption
<1>1. CASE /\ m_peers[i] # None
           /\ m_peers'[i].address = m_peers[i].address
           /\ ~m_peers[i].half_open
  <2>1. m_peer_id[m_peers[i].address] = i /\ m_peers[i].address \in Client
    BY <1>1 DEF OpenMeansAgreed, Known, TypeOK, UDPPeer
  <2> QED
    BY <1>0, <1>1, <2>1, IdKept
<1>2. ASSUME NEW p \in to_server, Receive(p), m_peer_id' = m_peer_id
      PROVE  m_peer_id'[m_peers'[i].address] = i
  <2>1. p \in ToServer
    BY DEF TypeOK
  <2>2. CASE m_peers'[i] = m_peers[i]
    BY <1>1, <2>2
  <2>3. CASE m_peers'[i] # m_peers[i]
    <3>1. PICK j \in Id, peer \in UDPPeer :
            /\ m_peers' = [m_peers EXCEPT ![j] = peer]
            /\ peer.address = p.from
            /\ \/ p.id = j /\ m_peers[j] # None /\ m_peers[j].address = p.from
               \/ peer.half_open
      BY <1>2, <2>1, <2>3, ReceiveChanges
    <3>2. j = i /\ m_peers'[i] = peer
      BY <2>3, <3>1 DEF TypeOK
    <3>3. p.id = i
      BY <3>1, <3>2
    <3>4. m_peer_id[p.from] = i
      BY <1>0, <3>3 DEF IdsOwn
    <3> QED
      BY <1>2, <3>1, <3>2, <3>4
  <2> QED
    BY <2>2, <2>3
<1> QED
  BY <1>1, <1>2, PeersKept

LEMMA OnePeerPerAddressStep ==
    ASSUME TypeOK, OnePeerPerAddress, Next
    PROVE  OnePeerPerAddress'
<1> SUFFICES ASSUME NEW i \in Id, NEW j \in Id, m_peers'[i] # None, m_peers'[j] # None,
                    m_peers'[i].address = m_peers'[j].address
             PROVE  i = j
  BY DEF OnePeerPerAddress, Known
<1>1. CASE \A k \in Id : m_peers'[k] # None =>
             m_peers[k] # None /\ m_peers'[k].address = m_peers[k].address
  BY <1>1 DEF OnePeerPerAddress, Known
<1>2. ASSUME NEW p \in to_server, Receive(p)
      PROVE  i = j
  <2>1. p \in ToServer
    BY DEF TypeOK
  <2>2. CASE m_peers' = m_peers
    BY <1>1, <2>2
  <2>3. CASE m_peers' # m_peers
    <3>1. PICK k \in Id, peer \in UDPPeer :
            /\ m_peers' = [m_peers EXCEPT ![k] = peer]
            /\ peer.address = p.from
            /\ \/ m_peers[k] # None /\ m_peers[k].address = p.from
               \/ LookupPeer(p.from) = {}
      BY <1>2, <2>1, <2>3, ReceiveChanges
    <3>2. CASE m_peers[k] # None /\ m_peers[k].address = p.from
      BY <1>1, <3>1, <3>2 DEF TypeOK
    <3>3. CASE LookupPeer(p.from) = {}
      <4>1. \A l \in Id \ {k} : m_peers'[l] # None => m_peers'[l].address # p.from
        BY <3>1, <3>3 DEF LookupPeer, Known, TypeOK
      <4>2. m_peers'[k].address = p.from
        BY <3>1 DEF TypeOK
      <4>3. CASE i # k /\ j # k
        BY <3>1, <4>3 DEF OnePeerPerAddress, Known, TypeOK
      <4> QED
        BY <4>1, <4>2, <4>3
    <3> QED
      BY <3>1, <3>2, <3>3
  <2> QED
    BY <2>2, <2>3
<1> QED
  BY <1>1, <1>2, PeersKept

-----------------------------------------------------------------------------
(* Headers *)

Fixing(c) == "peer_id_set" \in {commands[c][k] : k \in DOMAIN commands[c]}

LEMMA AppendFixing ==
    ASSUME NEW s \in Seq({"ack", "peer_id_set"}), NEW x \in {"ack", "peer_id_set"}
    PROVE  LET r == Append(s, x) IN
           {r[k] : k \in DOMAIN r} = {s[k] : k \in DOMAIN s} \cup {x}
<1> DEFINE r == Append(s, x)
<1>1. /\ r \in Seq({"ack", "peer_id_set"}) /\ Len(r) = Len(s) + 1
      /\ \A k \in 1 .. Len(s) : r[k] = s[k]
      /\ r[Len(s) + 1] = x
  BY AppendProperties
<1>2. DOMAIN r = 1 .. Len(s) + 1 /\ DOMAIN s = 1 .. Len(s) /\ Len(s) \in Nat
  BY <1>1, LenProperties
<1> HIDE DEF r
<1>3. \A k \in 1 .. Len(s) + 1 : k \in 1 .. Len(s) \/ k = Len(s) + 1
  BY <1>2
<1>4. Len(s) + 1 \in 1 .. Len(s) + 1 /\ \A k \in 1 .. Len(s) : k \in 1 .. Len(s) + 1
  BY <1>2
<1>5. {r[k] : k \in 1 .. Len(s) + 1} = {s[k] : k \in 1 .. Len(s)} \cup {x}
  BY <1>1, <1>3, <1>4
<1> QED
  BY <1>2, <1>5 DEF r

LEMMA TailFixing ==
    ASSUME NEW s \in Seq({"ack", "peer_id_set"}), s # <<>>
    PROVE  LET r == Tail(s) IN
           {s[k] : k \in DOMAIN s} = {r[k] : k \in DOMAIN r} \cup {Head(s)}
<1> DEFINE r == Tail(s)
<1>1. /\ r \in Seq({"ack", "peer_id_set"}) /\ Len(r) = Len(s) - 1
      /\ \A k \in 1 .. Len(r) : r[k] = s[k + 1]
      /\ Head(s) = s[1] /\ Len(s) \in Nat /\ Len(s) >= 1
  BY HeadTailProperties, EmptySeq, LenProperties
<1>2. DOMAIN r = 1 .. Len(s) - 1 /\ DOMAIN s = 1 .. Len(s)
  BY <1>1, LenProperties
<1> HIDE DEF r
<1>3. ASSUME NEW k \in 1 .. Len(s)
      PROVE  k = 1 \/ (k - 1 \in 1 .. Len(s) - 1 /\ s[k] = r[k - 1])
  BY <1>1
<1>4. ASSUME NEW k \in 1 .. Len(s) - 1
      PROVE  k + 1 \in 1 .. Len(s) /\ r[k] = s[k + 1]
  BY <1>1
<1>5. 1 \in 1 .. Len(s)
  BY <1>1
<1>6. {s[k] : k \in 1 .. Len(s)} \subseteq {r[k] : k \in 1 .. Len(s) - 1} \cup {Head(s)}
  <2> SUFFICES ASSUME NEW k \in 1 .. Len(s)
               PROVE  s[k] \in {r[j] : j \in 1 .. Len(s) - 1} \cup {Head(s)}
    OBVIOUS
  <2>1. CASE k = 1
    BY <1>1, <2>1
  <2>2. CASE k - 1 \in 1 .. Len(s) - 1 /\ s[k] = r[k - 1]
    BY <2>2
  <2> QED
    BY <1>3, <2>1, <2>2
<1>7. {r[k] : k \in 1 .. Len(s) - 1} \cup {Head(s)} \subseteq {s[k] : k \in 1 .. Len(s)}
  BY <1>1, <1>4, <1>5
<1> QED
  BY <1>2, <1>6, <1>7 DEF r

LEMMA HeadersFixedStep ==
    ASSUME TypeOK, IdsOwn, HeadersFixed, Next
    PROVE  HeadersFixed'
<1> DEFINE Fixed(c) == m_peer_id[c] # None /\ ~Fixing(c) =>
                \A p \in outgoing_reliables_sent[c] : p.id = m_peer_id[c]
<1>0. /\ \A c \in Client : Fixed(c)
      /\ (\A c \in Client : Fixed(c)') => HeadersFixed'
  BY DEF HeadersFixed, Fixing
<1> SUFFICES ASSUME NEW c \in Client
             PROVE  Fixed(c)'
  BY <1>0
<1>1. CASE UNCHANGED <<m_peer_id, commands>> /\ outgoing_reliables_sent'[c] \subseteq outgoing_reliables_sent[c]
  BY <1>0, <1>1 DEF Fixing
<1>2. ASSUME NEW d \in Client, SendReliable(d)
      PROVE  Fixed(c)'
  <2>1. outgoing_reliables_sent'[c] \subseteq
            outgoing_reliables_sent[c] \cup {[n |-> next[c], id |-> m_peer_id[c]]}
    BY <1>2 DEF SendReliable, TypeOK
  <2>2. UNCHANGED <<m_peer_id, commands>>
    BY <1>2 DEF SendReliable
  <2> QED
    BY <1>0, <2>1, <2>2 DEF Fixing
<1>3. ASSUME NEW d \in Client, NEW i \in Id, ReceiveSetPeerId(d, i)
      PROVE  Fixed(c)'
  <2>1. Fixing(c) => Fixing(c)'
    <3>1. CASE d = c
      <4>1. commands'[c] = Append(commands[c], "ack") /\ commands[c] \in Seq({"ack", "peer_id_set"})
        BY <1>3, <3>1 DEF ReceiveSetPeerId, TypeOK
      <4> QED
        BY <4>1, AppendFixing DEF Fixing
    <3>2. CASE d # c
      BY <1>3, <3>2 DEF ReceiveSetPeerId, TypeOK, Fixing
    <3> QED
      BY <3>1, <3>2
  <2>2. UNCHANGED <<m_peer_id, outgoing_reliables_sent>>
    BY <1>3 DEF ReceiveSetPeerId
  <2> QED
    BY <1>0, <2>1, <2>2
<1>4. ASSUME NEW d \in Client, SetPeerID(d)
      PROVE  Fixed(c)'
  <2>1. CASE d = c
    <3>1. commands'[c] = Append(commands[c], "peer_id_set") /\ commands[c] \in Seq({"ack", "peer_id_set"})
      BY <1>4, <2>1 DEF SetPeerID, TypeOK
    <3>2. Fixing(c)'
      BY <3>1, AppendFixing DEF Fixing
    <3> QED
      BY <3>2
  <2>2. CASE d # c
    <3>1. /\ commands'[c] = commands[c] /\ m_peer_id'[c] = m_peer_id[c]
          /\ outgoing_reliables_sent' = outgoing_reliables_sent
      BY <1>4, <2>2 DEF SetPeerID, TypeOK
    <3> QED
      BY <1>0, <3>1 DEF Fixing
  <2> QED
    BY <2>1, <2>2
<1>5. ASSUME NEW d \in Client, ProcessClientCommand(d)
      PROVE  Fixed(c)'
  <2>1. m_peer_id' = m_peer_id
    BY <1>5 DEF ProcessClientCommand
  <2>2. CASE d # c
    <3>1. commands'[c] = commands[c] /\ outgoing_reliables_sent'[c] = outgoing_reliables_sent[c]
      BY <1>5, <2>2 DEF ProcessClientCommand, TypeOK
    <3> QED
      BY <1>0, <2>1, <3>1 DEF Fixing
  <2>3. CASE d = c /\ Head(commands[c]) = "ack" /\ UNCHANGED outgoing_reliables_sent
    <3>1. commands'[c] = Tail(commands[c]) /\ commands[c] \in Seq({"ack", "peer_id_set"})
          /\ commands[c] # <<>>
      BY <1>5, <2>3 DEF ProcessClientCommand, TypeOK
    <3>2. Fixing(c) => Fixing(c)'
      <4> DEFINE s == commands[c]
                 r == commands'[c]
      <4>1. {s[k] : k \in DOMAIN s} = {r[k] : k \in DOMAIN r} \cup {Head(s)}
        <5>1. s \in Seq({"ack", "peer_id_set"}) /\ s # <<>> /\ r = Tail(s)
          BY <3>1
        <5> HIDE DEF s, r
        <5> QED
          BY <5>1, TailFixing
      <4>2. Head(s) # "peer_id_set"
        BY <2>3
      <4> HIDE DEF s, r
      <4>3. "peer_id_set" \in {s[k] : k \in DOMAIN s} => "peer_id_set" \in {r[k] : k \in DOMAIN r}
        BY <4>1, <4>2
      <4> QED
        BY <4>3 DEF s, r, Fixing
    <3> QED
      BY <1>0, <2>1, <2>3, <3>2
  <2>4. CASE /\ d = c
             /\ outgoing_reliables_sent' = [outgoing_reliables_sent EXCEPT ![d] =
                    fix_peer_id(@, m_peer_id[d])]
    <3>1. outgoing_reliables_sent'[c] = fix_peer_id(outgoing_reliables_sent[c], m_peer_id[c])
      BY <2>4 DEF TypeOK
    <3> SUFFICES ASSUME NEW p \in outgoing_reliables_sent'[c]
                 PROVE  p.id = m_peer_id[c]
      BY <2>1
    <3>2. PICK q \in outgoing_reliables_sent[c] : p = [q EXCEPT !.id = m_peer_id[c]]
      BY <3>1 DEF fix_peer_id
    <3>3. q \in [n : Number, id : OwnId]
      BY DEF TypeOK
    <3> QED
      BY <3>2, <3>3
  <2> QED
    BY <1>5, <2>2, <2>3, <2>4 DEF ProcessClientCommand
<1>6. ASSUME \/ \E d \in Client :
                \/ SendInit(d)
                \/ \E n \in Number : ResendReliable(d, n) \/ ReceiveAck(d, n)
             \/ \E p \in to_server : Receive(p)
             \/ \E x \in m_command_queue : ProcessCommand(x)
             \/ \E i \in Id : ResendSetPeerId(i) \/ TimeOutHalfOpen(i)
             \/ Lose
      PROVE  Fixed(c)'
  <2>1. UNCHANGED <<m_peer_id, commands>>
    BY <1>6 DEF SendInit, ResendReliable, ReceiveAck, Receive, ProcessCommand,
                ResendSetPeerId, TimeOutHalfOpen, Lose, clientVars
  <2>2. outgoing_reliables_sent'[c] \subseteq outgoing_reliables_sent[c]
    <3>1. CASE \E d \in Client, n \in Number : ReceiveAck(d, n)
      BY <3>1 DEF ReceiveAck, TypeOK
    <3>2. CASE ~\E d \in Client, n \in Number : ReceiveAck(d, n)
      BY <1>6, <3>2 DEF SendInit, ResendReliable, Receive, ProcessCommand,
                        ResendSetPeerId, TimeOutHalfOpen, Lose, clientVars
    <3> QED
      BY <3>1, <3>2
  <2> QED
    BY <1>1, <2>1, <2>2
<1> QED
  BY <1>2, <1>3, <1>4, <1>5, <1>6 DEF Next

-----------------------------------------------------------------------------
(* Delivery *)

(* A peer keeps what it has received, and the packet at hand.              *)
LEMMA ProcessedReceived ==
    ASSUME NEW peer \in UDPPeer, NEW p \in ToServer
    PROVE  /\ peer.received \subseteq Processed(peer, p).received
           /\ p.type = "reliable" => p.n \in Processed(peer, p).received
BY DEF Processed, Received, UDPPeer

(* Receive acknowledges only what the peer keeps.                          *)
LEMMA ReceiveKeeps ==
    ASSUME TypeOK, NEW p \in to_server, Receive(p)
    PROVE  /\ \A i \in Id : m_peers[i] # None =>
                /\ m_peers'[i] # None
                /\ m_peers'[i].address = m_peers[i].address
                /\ m_peers[i].received \subseteq m_peers'[i].received
           /\ \A x \in m_command_queue' : x.type = "ack" =>
                \/ x \in m_command_queue
                \/ x.id \in Id /\ m_peers'[x.id] # None /\ x.n \in m_peers'[x.id].received
<1>0. p \in ToServer
  BY DEF TypeOK
<1>1. ASSUME NEW i \in Id, NEW peer \in UDPPeer,
             m_peers' = [m_peers EXCEPT ![i] = Processed(peer, p)],
             m_peers[i] # None => /\ peer.address = m_peers[i].address
                                  /\ m_peers[i].received \subseteq peer.received
      PROVE  /\ \A j \in Id : m_peers[j] # None =>
                  /\ m_peers'[j] # None
                  /\ m_peers'[j].address = m_peers[j].address
                  /\ m_peers[j].received \subseteq m_peers'[j].received
             /\ \A x \in Acknowledgement(i, p) :
                  x.id \in Id /\ m_peers'[x.id] # None /\ x.n \in m_peers'[x.id].received
  <2>1. /\ Processed(peer, p) \in UDPPeer /\ Processed(peer, p) # None
        /\ Processed(peer, p).address = peer.address
    BY <1>0, ProcessedType, NoneAssumption
  <2>2. m_peers'[i] = Processed(peer, p) /\ \A j \in Id \ {i} : m_peers'[j] = m_peers[j]
    BY <1>1 DEF TypeOK
  <2>3. /\ peer.received \subseteq Processed(peer, p).received
        /\ p.type = "reliable" => p.n \in Processed(peer, p).received
    BY <1>0, ProcessedReceived
  <2>4. \A x \in Acknowledgement(i, p) : p.type = "reliable" /\ x.id = i /\ x.n = p.n
    BY DEF Acknowledgement
  <2> QED
    BY <1>1, <2>1, <2>2, <2>3, <2>4
<1>2. CASE ReceiveWithId(p)
  <2>1. p.id \in Id /\ m_peers[p.id] # None
    BY <1>0, <1>2 DEF ReceiveWithId, MayOpen, Known, ToServer, OwnId
  <2>2. m_peers[p.id] \in UDPPeer
    BY <2>1 DEF TypeOK
  <2> DEFINE open == [m_peers[p.id] EXCEPT !.half_open = FALSE]
  <2>3. /\ open \in UDPPeer /\ open.address = m_peers[p.id].address
        /\ open.received = m_peers[p.id].received
    BY <2>2 DEF UDPPeer
  <2>4. m_peers' = [m_peers EXCEPT ![p.id] = Processed(open, p)]
    BY <1>2, <2>1 DEF ReceiveWithId, TypeOK
  <2>5. m_command_queue' = m_command_queue \cup Acknowledgement(p.id, p)
    BY <1>2 DEF ReceiveWithId
  <2> HIDE DEF open
  <2> QED
    BY <1>1, <2>1, <2>3, <2>4, <2>5
<1>3. CASE ReceiveReminder(p)
  <2>1. PICK i \in LookupPeer(p.from) :
          LET resend_one == {[type |-> "resend_one", id |-> i, n |-> 0]}
          IN  \/ /\ m_peers' = [m_peers EXCEPT ![i] = Processed(@, p)]
                 /\ m_command_queue' = m_command_queue \cup resend_one \cup Acknowledgement(i, p)
              \/ /\ m_command_queue' = m_command_queue \cup resend_one
                 /\ UNCHANGED m_peers
    BY <1>3 DEF ReceiveReminder
  <2>2. i \in Id /\ m_peers[i] # None
    BY DEF LookupPeer, Known
  <2>3. m_peers[i] \in UDPPeer
    BY <2>2 DEF TypeOK
  <2>4. CASE /\ m_peers' = [m_peers EXCEPT ![i] = Processed(@, p)]
             /\ \A x \in m_command_queue' : x.type = "ack" =>
                  x \in m_command_queue \/ x \in Acknowledgement(i, p)
    <3>1. m_peers' = [m_peers EXCEPT ![i] = Processed(m_peers[i], p)]
      BY <2>2, <2>4 DEF TypeOK
    <3> QED
      BY <1>1, <2>2, <2>3, <2>4, <3>1
  <2>5. CASE UNCHANGED m_peers /\ \A x \in m_command_queue' : x.type = "ack" => x \in m_command_queue
    BY <2>5
  <2> QED
    BY <2>1, <2>4, <2>5
<1>4. CASE ReceiveNew(p)
  <2> DEFINE fresh == [address |-> p.from, half_open |-> TRUE,
                       set_peer_id |-> "queued", received |-> {}]
  <2>1. PICK i \in Id :
          /\ m_peers[i] = None
          /\ m_peers' = [m_peers EXCEPT ![i] = Processed(fresh, p)]
          /\ m_command_queue' = m_command_queue
                \cup {[type |-> "create_peer", id |-> i, n |-> 0]} \cup Acknowledgement(i, p)
    BY <1>4 DEF ReceiveNew, Known
  <2>2. fresh \in UDPPeer
    BY <1>0 DEF UDPPeer, ToServer
  <2> HIDE DEF fresh
  <2>3. \A x \in m_command_queue' : x.type = "ack" =>
          x \in m_command_queue \/ x \in Acknowledgement(i, p)
    BY <2>1
  <2> QED
    BY <1>1, <2>1, <2>2, <2>3
<1> QED
  BY <1>2, <1>3, <1>4 DEF Receive

(* As long as no half-open peer times out, no peer goes, and none forgets. *)
LEMMA ReceivedKept ==
    ASSUME TypeOK, Next, timeouts' = 0
    PROVE  /\ timeouts = 0
           /\ \A i \in Id : m_peers[i] # None =>
                /\ m_peers'[i] # None
                /\ m_peers'[i].address = m_peers[i].address
                /\ m_peers[i].received \subseteq m_peers'[i].received
<1>1. ASSUME NEW i \in Id, TimeOutHalfOpen(i)
      PROVE  FALSE
  BY <1>1, HandshakeAssumption DEF TimeOutHalfOpen, TypeOK
<1>2. CASE \E p \in to_server : Receive(p)
  BY <1>2, ReceiveKeeps DEF Receive
<1>3. ASSUME NEW x \in m_command_queue, ProcessCommand(x)
      PROVE  /\ timeouts = 0
             /\ \A i \in Id : m_peers[i] # None =>
                  /\ m_peers'[i] # None
                  /\ m_peers'[i].address = m_peers[i].address
                  /\ m_peers[i].received \subseteq m_peers'[i].received
  <2>1. timeouts = 0 /\ x.id \in Id
    BY <1>3 DEF ProcessCommand, TypeOK, Command
  <2>2. CASE m_peers' = m_peers
    BY <2>1, <2>2
  <2>3. CASE Known(x.id) /\ m_peers' = [m_peers EXCEPT ![x.id].set_peer_id = "sent"]
    <3>1. m_peers[x.id] \in UDPPeer /\ m_peers[x.id] # None
      BY <2>1, <2>3 DEF Known, TypeOK
    <3> DEFINE peer == [m_peers[x.id] EXCEPT !.set_peer_id = "sent"]
    <3>2. /\ peer \in UDPPeer /\ peer.address = m_peers[x.id].address
          /\ peer.received = m_peers[x.id].received
      BY <3>1 DEF UDPPeer
    <3>3. m_peers'[x.id] = peer /\ \A i \in Id \ {x.id} : m_peers'[i] = m_peers[i]
      BY <2>1, <2>3 DEF TypeOK
    <3> QED
      BY <2>1, <3>2, <3>3, NoneAssumption
  <2> QED
    BY <1>3, <2>2, <2>3 DEF ProcessCommand
<1>4. CASE /\ ~\E p \in to_server : Receive(p)
           /\ ~\E x \in m_command_queue : ProcessCommand(x)
           /\ ~\E i \in Id : TimeOutHalfOpen(i)
  <2>1. UNCHANGED <<m_peers, timeouts>>
    BY <1>4 DEF Next, SendReliable, SendInit, SetPeerID, ProcessClientCommand, ResendReliable,
                ReceiveAck, ReceiveSetPeerId, ResendSetPeerId, Lose, serverVars
  <2> QED
    BY <2>1
<1> QED
  BY <1>1, <1>2, <1>3, <1>4

(* An acknowledgement is of a packet that is kept, on its whole way: the  *)
(* command, the packet in flight, and what the client then holds no more.  *)
LEMMA AckedStep ==
    ASSUME TypeOK, AckedInv, Next
    PROVE  AckedInv'
<1> SUFFICES ASSUME timeouts' = 0
             PROVE  AckedInv'
  BY DEF AckedInv
<1>0. /\ timeouts = 0
      /\ \A i \in Id : m_peers[i] # None =>
           /\ m_peers'[i] # None
           /\ m_peers'[i].address = m_peers[i].address
           /\ m_peers[i].received \subseteq m_peers'[i].received
  BY ReceivedKept
<1>1. ASSUME NEW c, NEW n, Has(c, n)
      PROVE  Has(c, n)'
  BY <1>0, <1>1 DEF Has, Known
<1>2. /\ \A c \in Client, n \in Number :
           n < next[c] /\ (\A p \in outgoing_reliables_sent[c] : p.n # n) => Has(c, n)
      /\ \A m \in to_client : m.type = "ack" => Has(m.to, m.n)
      /\ \A x \in m_command_queue :
           x.type = "ack" => m_peers[x.id] # None /\ x.n \in m_peers[x.id].received
  BY <1>0 DEF AckedInv, Known
<1>3. \A c \in Client, n \in Number :
        n < next'[c] /\ (\A p \in outgoing_reliables_sent'[c] : p.n # n) => Has(c, n)'
  <2> SUFFICES ASSUME NEW c \in Client, NEW n \in Number, n < next'[c],
                      \A p \in outgoing_reliables_sent'[c] : p.n # n
               PROVE  Has(c, n)'
    OBVIOUS
  <2>1. CASE n < next[c] /\ \A p \in outgoing_reliables_sent[c] : p.n # n
    BY <1>1, <1>2, <2>1
  <2>2. ASSUME NEW d \in Client, SendReliable(d)
        PROVE  n < next[c] /\ \A p \in outgoing_reliables_sent[c] : p.n # n
    <3>1. outgoing_reliables_sent[c] \subseteq outgoing_reliables_sent'[c]
      BY <2>2 DEF SendReliable, TypeOK
    <3>2. CASE c # d
      BY <2>2, <3>1, <3>2 DEF SendReliable, TypeOK
    <3>3. CASE c = d
      <4>1. next'[c] = next[c] + 1 /\ next[c] \in Nat /\ n \in Nat
        BY <2>2, <3>3 DEF SendReliable, TypeOK, Number
      <4>2. [n |-> next[c], id |-> m_peer_id[c]] \in outgoing_reliables_sent'[c]
        BY <2>2, <3>3 DEF SendReliable, TypeOK
      <4>3. n # next[c]
        BY <4>2
      <4> QED
        BY <3>1, <4>1, <4>3
    <3> QED
      BY <3>2, <3>3
  <2>3. ASSUME NEW d \in Client, NEW k \in Number, ReceiveAck(d, k)
        PROVE  Has(c, n)'
    <3>1. next' = next /\ [to |-> d, type |-> "ack", n |-> k] \in to_client
      BY <2>3 DEF ReceiveAck
    <3>2. Has(d, k)
      BY <1>2, <3>1
    <3>3. CASE c = d /\ n = k
      BY <1>1, <3>2, <3>3
    <3>4. CASE ~(c = d /\ n = k)
      <4>1. \A p \in outgoing_reliables_sent[c] : p.n = n => p \in outgoing_reliables_sent'[c]
        BY <2>3, <3>4 DEF ReceiveAck, TypeOK
      <4> QED
        BY <2>1, <3>1, <4>1
    <3> QED
      BY <3>3, <3>4
  <2>4. ASSUME NEW d \in Client, ProcessClientCommand(d)
        PROVE  n < next[c] /\ \A p \in outgoing_reliables_sent[c] : p.n # n
    <3>1. next' = next
      BY <2>4 DEF ProcessClientCommand
    <3>2. CASE outgoing_reliables_sent'[c] = outgoing_reliables_sent[c]
      BY <3>1, <3>2
    <3>3. CASE outgoing_reliables_sent'[c] = fix_peer_id(outgoing_reliables_sent[c], m_peer_id[c])
      <4> SUFFICES ASSUME NEW p \in outgoing_reliables_sent[c]
                   PROVE  p.n # n
        BY <3>1
      <4>1. p \in [n : Number, id : OwnId]
        BY DEF TypeOK
      <4> DEFINE q == [p EXCEPT !.id = m_peer_id[c]]
      <4>2. q.n = p.n
        BY <4>1
      <4>3. q \in outgoing_reliables_sent'[c]
        BY <3>3 DEF fix_peer_id
      <4> HIDE DEF q
      <4> QED
        BY <4>2, <4>3
    <3> QED
      BY <2>4, <3>2, <3>3 DEF ProcessClientCommand, TypeOK
  <2>5. CASE /\ ~\E d \in Client : SendReliable(d) \/ ProcessClientCommand(d)
             /\ ~\E d \in Client, k \in Number : ReceiveAck(d, k)
    <3>1. UNCHANGED <<next, outgoing_reliables_sent>>
      BY <2>5 DEF Next, SendInit, SetPeerID, ResendReliable, ReceiveSetPeerId, ResendSetPeerId,
                  Receive, ProcessCommand, TimeOutHalfOpen, Lose, clientVars
    <3> QED
      BY <2>1, <3>1
  <2> QED
    BY <2>1, <2>2, <2>3, <2>4, <2>5
<1>4. \A m \in to_client' : m.type = "ack" => Has(m.to, m.n)'
  <2> SUFFICES ASSUME NEW m \in to_client', m.type = "ack", NEW c, NEW n, c = m.to, n = m.n
               PROVE  Has(c, n)'
    OBVIOUS
  <2>1. CASE m \in to_client
    BY <1>1, <1>2, <2>1
  <2>2. ASSUME NEW x \in m_command_queue, ProcessCommand(x), m \notin to_client
        PROVE  Has(c, n)'
    <3>1. x.type = "ack" /\ m = [to |-> m_peers[x.id].address, type |-> "ack", n |-> x.n]
      BY <2>2 DEF ProcessCommand, SendSetPeerId
    <3>2. x.id \in Id /\ m_peers[x.id] # None /\ x.n \in m_peers[x.id].received
      BY <1>2, <3>1 DEF TypeOK, Command
    <3>3. Has(c, n)
      BY <3>1, <3>2 DEF Has, Known
    <3> QED
      BY <1>1, <3>3
  <2>3. ASSUME NEW i \in Id, ResendSetPeerId(i)
        PROVE  m \in to_client
    BY <2>3 DEF ResendSetPeerId, SendSetPeerId
  <2>4. CASE /\ ~\E x \in m_command_queue : ProcessCommand(x)
             /\ ~\E i \in Id : ResendSetPeerId(i)
    <3>1. to_client' \subseteq to_client
      BY <2>4 DEF Next, SendReliable, SendInit, SetPeerID, ProcessClientCommand, ResendReliable,
                  ReceiveAck, ReceiveSetPeerId, Receive, TimeOutHalfOpen, Lose
    <3> QED
      BY <2>1, <3>1
  <2> QED
    BY <2>1, <2>2, <2>3, <2>4
<1>5. \A x \in m_command_queue' :
        x.type = "ack" => m_peers'[x.id] # None /\ x.n \in m_peers'[x.id].received
  <2> SUFFICES ASSUME NEW x \in m_command_queue', x.type = "ack"
               PROVE  m_peers'[x.id] # None /\ x.n \in m_peers'[x.id].received
    OBVIOUS
  <2>1. CASE x \in m_command_queue
    <3>1. x.id \in Id
      BY <2>1 DEF TypeOK, Command
    <3> QED
      BY <1>0, <1>2, <2>1, <3>1
  <2>2. CASE \E p \in to_server : Receive(p)
    BY <2>1, <2>2, ReceiveKeeps
  <2>3. CASE ~\E p \in to_server : Receive(p)
    <3>1. m_command_queue' \subseteq m_command_queue
      BY <2>3 DEF Next, SendReliable, SendInit, SetPeerID, ProcessClientCommand, ResendReliable,
                  ReceiveAck, ReceiveSetPeerId, ResendSetPeerId, ProcessCommand, TimeOutHalfOpen,
                  Lose, serverVars
    <3> QED
      BY <2>1, <3>1
  <2> QED
    BY <2>2, <2>3
<1> QED
  BY <1>3, <1>4, <1>5 DEF AckedInv, Known

-----------------------------------------------------------------------------
(* The inductive invariant.  Everything about peers rests on the ids in    *)
(* the packets: that a packet bears an id is proof that its sender has it. *)
THEOREM Invariance == Spec => []IInv
<1>1. Init => IInv
  <2> SUFFICES ASSUME Init
               PROVE  IdsOwn /\ OpenMeansAgreed /\ HeadersFixed /\ OnePeerPerAddress /\ AckedInv
    BY TypeInit DEF IInv
  <2> QED
    <3>1. IdsOwn /\ OpenMeansAgreed /\ HeadersFixed /\ OnePeerPerAddress
      BY DEF Init, IdsOwn, OpenMeansAgreed, HeadersFixed, OnePeerPerAddress, Known
    <3>2. AckedInv
      BY DEF Init, AckedInv, Number
    <3> QED
      BY <3>1, <3>2
<1>2. IInv /\ [Next]_vars => IInv'
  <2> SUFFICES ASSUME IInv, [Next]_vars
               PROVE  IInv'
    OBVIOUS
  <2>1. CASE Next
    BY <2>1, TypeStep, IdsOwnStep, OpenMeansAgreedStep, HeadersFixedStep,
       OnePeerPerAddressStep, AckedStep DEF IInv
  <2>2. CASE UNCHANGED vars
    <3>1. TypeOK'
      BY <2>2, TypeStep DEF IInv
    <3>2. IdsOwn' /\ OpenMeansAgreed' /\ OnePeerPerAddress'
      BY <2>2 DEF IInv, vars, clientVars, serverVars, IdsOwn, OpenMeansAgreed,
                  OnePeerPerAddress, Known
    <3>3. HeadersFixed'
      BY <2>2 DEF IInv, vars, clientVars, HeadersFixed
    <3>4. AckedInv'
      BY <2>2 DEF IInv, vars, clientVars, serverVars, AckedInv, Has, Known
    <3> QED
      BY <3>1, <3>2, <3>3, <3>4 DEF IInv
  <2> QED
    BY <2>1, <2>2
<1> QED
  BY <1>1, <1>2, PTL DEF Spec

(* Types; in particular only the client's channel counts reliable packets. *)
THEOREM TypeCorrect == Spec => []TypeOK
<1>1. IInv => TypeOK
  BY DEF IInv
<1> QED
  BY <1>1, Invariance, PTL

(* No late, repeated or stray packet opens a peer whose client does not    *)
(* have its id.                                                            *)
THEOREM OpenMeansAgreedHolds == Spec => []OpenMeansAgreed
<1>1. IInv => OpenMeansAgreed
  BY DEF IInv
<1> QED
  BY <1>1, Invariance, PTL

(* No address has two peers.                                               *)
THEOREM OnePeerPerAddressHolds == Spec => []OnePeerPerAddress
<1>1. IInv => OnePeerPerAddress
  BY DEF IInv
<1> QED
  BY <1>1, Invariance, PTL

(* No packet is resent for ever with an id the server does not take.       *)
THEOREM HeadersFixedHolds == Spec => []HeadersFixed
<1>1. IInv => HeadersFixed
  BY DEF IInv
<1> QED
  BY <1>1, Invariance, PTL

(* What the client will not send again, its session has received.  The     *)
(* peer that has kept the packet is at the client's address, and so is the *)
(* client's peer: they are the same.                                       *)
THEOREM AckedIsReceivedHolds == Spec => []AckedIsReceived
<1>1. IInv => AckedIsReceived
  <2> SUFFICES ASSUME IInv, timeouts = 0, NEW c \in Client, Agreed(c), NEW n \in Number,
                      n < next[c], \A p \in outgoing_reliables_sent[c] : p.n # n
               PROVE  n \in m_peers[m_peer_id[c]].received
    BY DEF AckedIsReceived, DeliveryForced
  <2>1. Has(c, n)
    BY DEF IInv, AckedInv
  <2>2. PICK i \in Id : Known(i) /\ m_peers[i].address = c /\ n \in m_peers[i].received
    BY <2>1 DEF Has
  <2>3. PICK j \in Id : m_peer_id[c] = j /\ Known(j) /\ m_peers[j].address = c
    BY DEF Agreed
  <2>4. i = j
    BY <2>2, <2>3 DEF IInv, OnePeerPerAddress
  <2> QED
    BY <2>2, <2>3, <2>4
<1> QED
  BY <1>1, Invariance, PTL
=============================================================================
