---------------------------- MODULE PeerLifecycle ----------------------------
(***************************************************************************)
(* Lifetime of the Peer objects of a Connection (src/src/network/mtp).     *)
(*                                                                         *)
(* The send thread, the receive thread and the threads of the user look a  *)
(* peer up by its id (getPeerNoEx) and hold it through a PeerHelper, which *)
(* counts the uses of the object.  deletePeer takes the peer out of the    *)
(* container and drops it; the object is deleted by Drop, or by the last   *)
(* PeerHelper to let go of it.  Two kinds of mutex guard all of this:      *)
(* m_peers_mutex of the container, m_exclusive_access_mutex of each peer.  *)
(* The user knows a peer by its id only, from the events it is told of.    *)
(*                                                                         *)
(* A step is what a thread does while it holds the mutex of a peer, or     *)
(* between two such sections.                                              *)
(***************************************************************************)
EXTENDS Naturals, Sequences, FiniteSets

CONSTANTS
    Thread,     \* threads that use the connection
    Level,      \* the nested scopes of a thread that may hold a PeerHelper
    Peer,       \* Peer objects, as many as are ever allocated
    id,         \* the session id an object is given; ids are used again
    None        \* no object, no thread

ASSUME NoneAssumption == None \notin Peer \cup Thread
ASSUME LevelAssumption == Level # {}
ASSUME SlotsFiniteAssumption == IsFiniteSet(Thread \X Level)

VARIABLES
    m_peers,            \* the objects in the container
    m_peers_mutex,      \* the thread that holds it
    allocation,         \* of each object: "unborn", "live" or "deleted"
    m_usage,            \* of each object: use count
    m_pending_deletion, \* of each object
    helper,             \* the object the PeerHelper of a scope holds
    pc,                 \* where a thread is in an operation on the container
    pointer,            \* the plain Peer* that operation has at hand
    slot,               \* the scope getPeerNoEx returns to
    m_event_queue,      \* events for the user: [type, peer_id]
    clients,            \* the ids the user (ClientInterface) has a client for
    early,              \* history: ids in use again before the user could be
                        \* told that their last owner is gone
    destroyed           \* has the Connection been destroyed?

userVars == <<m_event_queue, clients, early, destroyed>>
vars == <<m_peers, m_peers_mutex, allocation, m_usage, m_pending_deletion,
          helper, pc, pointer, slot, userVars>>

Slot == Thread \X Level
IdsOf(peers) == {id[p] : p \in peers}
Event == [type : {"added", "removed"}, peer_id : IdsOf(Peer)]

TypeOK ==
    /\ m_peers \subseteq Peer
    /\ m_peers_mutex \in Thread \cup {None}
    /\ allocation \in [Peer -> {"unborn", "live", "deleted"}]
    /\ m_usage \in [Peer -> Nat]
    /\ m_pending_deletion \in [Peer -> BOOLEAN]
    /\ helper \in [Slot -> Peer \cup {None}]
    /\ pc \in [Thread -> {"idle", "found", "erased", "dropping", "deleting"}]
    /\ pointer \in [Thread -> Peer \cup {None}]
    /\ slot \in [Thread -> Level]
    /\ m_event_queue \in Seq(Event)
    /\ clients \subseteq IdsOf(Peer)
    /\ early \subseteq IdsOf(Peer)
    /\ destroyed \in BOOLEAN

Init ==
    /\ m_peers = {}
    /\ m_peers_mutex = None
    /\ allocation = [p \in Peer |-> "unborn"]
    /\ m_usage = [p \in Peer |-> 0]
    /\ m_pending_deletion = [p \in Peer |-> FALSE]
    /\ helper = [s \in Slot |-> None]
    /\ pc = [t \in Thread |-> "idle"]
    /\ pointer = [t \in Thread |-> None]
    /\ slot = [t \in Thread |-> CHOOSE l \in Level : TRUE]
    /\ m_event_queue = <<>>
    /\ clients = {}
    /\ early = {}
    /\ destroyed = FALSE

-----------------------------------------------------------------------------
(* Thread t goes on to another step, with the object p at hand. *)
Goto(t, step, p) ==
    /\ pc' = [pc EXCEPT ![t] = step]
    /\ pointer' = [pointer EXCEPT ![t] = p]

(* Thread t may start an operation that takes m_peers_mutex. *)
MayLock(t) == ~destroyed /\ pc[t] = "idle" /\ m_peers_mutex = None

(* The object that had id i has left the container, and the thread that    *)
(* took it out has not put the PEER_REMOVED event yet.                     *)
Untold(i) == \E t \in Thread : pc[t] = "erased" /\ id[pointer[t]] = i

(* The history of id i, when a new peer is given it: the user will hear of *)
(* the new peer before it hears that the old one is gone, or all it is     *)
(* still to hear is of this peer, or it is as it was.                      *)
NoteEarly(i) ==
    early' = IF Untold(i) THEN early \cup {i}
             ELSE IF \E k \in DOMAIN m_event_queue : m_event_queue[k].peer_id = i
             THEN early
             ELSE early \ {i}

(* createPeer: all of it under m_peers_mutex, the PEER_ADDED event too.    *)
(* The id is any that is not in the container.                             *)
CreatePeer(t, p) ==
    /\ MayLock(t)
    /\ id[p] \notin IdsOf(m_peers)
    /\ allocation[p] = "unborn"
    /\ allocation' = [allocation EXCEPT ![p] = "live"]
    /\ m_peers' = m_peers \cup {p}
    /\ m_event_queue' = Append(m_event_queue, [type |-> "added", peer_id |-> id[p]])
    /\ NoteEarly(id[p])
    /\ UNCHANGED <<m_peers_mutex, m_usage, m_pending_deletion, helper, pc,
                   pointer, slot, clients, destroyed>>

(* getPeerNoEx, first half: the mutex is taken and the object found.       *)
GetPeerNoEx(t, l, p) ==
    /\ MayLock(t)
    /\ p \in m_peers
    /\ helper[<<t, l>>] = None
    /\ m_peers_mutex' = t
    /\ slot' = [slot EXCEPT ![t] = l]
    /\ Goto(t, "found", p)
    /\ UNCHANGED <<m_peers, allocation, m_usage, m_pending_deletion, helper, userVars>>

(* getPeerNoEx, second half: the PeerHelper is made, which counts the use  *)
(* unless the object is about to be deleted; then the mutex is released.   *)
IncUseCountUncounted(t) ==    \* mutant
    /\ pc[t] = "found"
    /\ helper' = [helper EXCEPT ![<<t, slot[t]>>] = pointer[t]]
    /\ m_peers_mutex' = None
    /\ Goto(t, "idle", None)
    /\ UNCHANGED <<m_peers, allocation, m_usage, m_pending_deletion, slot, userVars>>
IncUseCount(t) ==
    LET p == pointer[t]
    IN  /\ pc[t] = "found"
        /\ IF m_pending_deletion[p]
           THEN UNCHANGED <<m_usage, helper>>
           ELSE /\ m_usage' = [m_usage EXCEPT ![p] = @ + 1]
                /\ helper' = [helper EXCEPT ![<<t, slot[t]>>] = p]
        /\ m_peers_mutex' = None
        /\ Goto(t, "idle", None)
        /\ UNCHANGED <<m_peers, allocation, m_pending_deletion, slot, userVars>>

(* DecUseCount, at the end of the scope of a PeerHelper.  The peer's mutex *)
(* is released before the object is deleted.                               *)
DecUseCountForgets(t, l) ==    \* mutant: m_pending_deletion is not looked at
    LET p == helper[<<t, l>>]
    IN  /\ pc[t] = "idle"
        /\ p # None
        /\ helper' = [helper EXCEPT ![<<t, l>>] = None]
        /\ m_usage' = [m_usage EXCEPT ![p] = @ - 1]
        /\ UNCHANGED <<m_peers, m_peers_mutex, allocation, m_pending_deletion,
                       pc, pointer, slot, userVars>>
DecUseCount(t, l) ==
    LET p == helper[<<t, l>>]
    IN  /\ pc[t] = "idle"
        /\ p # None
        /\ helper' = [helper EXCEPT ![<<t, l>>] = None]
        /\ m_usage' = [m_usage EXCEPT ![p] = @ - 1]
        /\ IF m_pending_deletion[p] /\ m_usage[p] = 1
           THEN Goto(t, "deleting", p)
           ELSE UNCHANGED <<pc, pointer>>
        /\ UNCHANGED <<m_peers, m_peers_mutex, allocation, m_pending_deletion,
                       slot, userVars>>

(* deletePeer takes the peer out of the container under the mutex,         *)
DeletePeer(t, p) ==
    /\ MayLock(t)
    /\ p \in m_peers
    /\ m_peers' = m_peers \ {p}
    /\ Goto(t, "erased", p)
    /\ UNCHANGED <<m_peers_mutex, allocation, m_usage, m_pending_deletion,
                   helper, slot, userVars>>

(* tells the user of it, by its id and the address it reads from the       *)
(* object, with no mutex held,                                             *)
PutRemovedEvent(t) ==
    /\ pc[t] = "erased"
    /\ m_event_queue' =
          Append(m_event_queue, [type |-> "removed", peer_id |-> id[pointer[t]]])
    /\ Goto(t, "dropping", pointer[t])
    /\ UNCHANGED <<m_peers, m_peers_mutex, allocation, m_usage,
                   m_pending_deletion, helper, slot, clients, early, destroyed>>

(* and drops the object, which is deleted at once if it is not in use.     *)
DropInUse(t) ==    \* mutant: m_usage is not looked at
    /\ pc[t] = "dropping"
    /\ m_pending_deletion' = [m_pending_deletion EXCEPT ![pointer[t]] = TRUE]
    /\ Goto(t, "deleting", pointer[t])
    /\ UNCHANGED <<m_peers, m_peers_mutex, allocation, m_usage, helper,
                   slot, userVars>>
Drop(t) ==
    LET p == pointer[t]
    IN  /\ pc[t] = "dropping"
        /\ m_pending_deletion' = [m_pending_deletion EXCEPT ![p] = TRUE]
        /\ IF m_usage[p] # 0 THEN Goto(t, "idle", None) ELSE Goto(t, "deleting", p)
        /\ UNCHANGED <<m_peers, m_peers_mutex, allocation, m_usage, helper,
                       slot, userVars>>

(* delete this, with no mutex held *)
DeleteObject(t) ==
    /\ pc[t] = "deleting"
    /\ allocation' = [allocation EXCEPT ![pointer[t]] = "deleted"]
    /\ Goto(t, "idle", None)
    /\ UNCHANGED <<m_peers, m_peers_mutex, m_usage, m_pending_deletion, helper,
                   slot, userVars>>

(* What the user does when it is told of event e.  peerAdded: CreateClient *)
(* ignores an id that has a client; deletingPeer: DeleteClient ignores one *)
(* that has none.                                                          *)
HandleEvent(e) ==
    clients' = IF e.type = "added" THEN clients \cup {e.peer_id}
                                   ELSE clients \ {e.peer_id}

(* ReceiveTimeoutMs: the user takes an event and is called back with it.   *)
ReceiveNewest ==    \* mutant: the queue is a stack
    /\ ~destroyed
    /\ m_event_queue # <<>>
    /\ HandleEvent(m_event_queue[Len(m_event_queue)])
    /\ m_event_queue' = SubSeq(m_event_queue, 1, Len(m_event_queue) - 1)
    /\ UNCHANGED <<m_peers, m_peers_mutex, allocation, m_usage, m_pending_deletion,
                   helper, pc, pointer, slot, early, destroyed>>
Receive ==
    /\ ~destroyed
    /\ m_event_queue # <<>>
    /\ HandleEvent(Head(m_event_queue))
    /\ m_event_queue' = Tail(m_event_queue)
    /\ UNCHANGED <<m_peers, m_peers_mutex, allocation, m_usage, m_pending_deletion,
                   helper, pc, pointer, slot, early, destroyed>>

(* ~Connection, once the threads have ended: what is still in the          *)
(* container is deleted without a look at its use count.                   *)
Destroy ==
    /\ ~destroyed
    /\ \A t \in Thread : pc[t] = "idle"
    /\ \A s \in Slot : helper[s] = None
    /\ allocation' = [p \in Peer |-> IF p \in m_peers THEN "deleted" ELSE allocation[p]]
    /\ m_peers' = {}
    /\ destroyed' = TRUE
    /\ UNCHANGED <<m_peers_mutex, m_usage, m_pending_deletion, helper, pc,
                   pointer, slot, m_event_queue, clients, early>>

Step(t) ==
    \/ \E p \in Peer :
          CreatePeer(t, p) \/ DeletePeer(t, p) \/ \E l \in Level : GetPeerNoEx(t, l, p)
    \/ IncUseCount(t)
    \/ \E l \in Level : DecUseCount(t, l)
    \/ PutRemovedEvent(t)
    \/ Drop(t)
    \/ DeleteObject(t)

Next == (\E t \in Thread : Step(t)) \/ Receive \/ Destroy

Spec == Init /\ [][Next]_vars

(* A thread finishes the operation it is in, and leaves its scopes.        *)
Fairness ==
    \A t \in Thread :
        /\ WF_vars(IncUseCount(t))
        /\ \A l \in Level : SF_vars(DecUseCount(t, l))
        /\ WF_vars(PutRemovedEvent(t))
        /\ WF_vars(Drop(t))
        /\ WF_vars(DeleteObject(t))

FairSpec == Spec /\ Fairness

-----------------------------------------------------------------------------
(* An object that some thread still has at hand, by a PeerHelper or by a   *)
(* plain pointer between two critical sections, is not deleted under it,   *)
(* and nothing in the container has been deleted.                          *)
NoUseAfterDelete ==
    /\ \A s \in Slot : helper[s] # None => allocation[helper[s]] = "live"
    /\ \A t \in Thread : pc[t] # "idle" => allocation[pointer[t]] = "live"
    /\ \A p \in m_peers : allocation[p] = "live"

(* Whoever deletes an object is the only one to do so, and the last to     *)
(* know of it: ~Peer does not run into "Reference counting failure".       *)
DeletedByTheLast ==
    \A t \in Thread : pc[t] = "deleting" =>
        /\ m_usage[pointer[t]] = 0
        /\ pointer[t] \notin m_peers
        /\ \A s \in Slot : helper[s] # pointer[t]
        /\ \A u \in Thread \ {t} : pointer[u] # pointer[t]

(* An object that has left the container is not leaked: a thread is at     *)
(* work on dropping it, or it is marked so that its last user deletes it.  *)
NotLeaked ==
    \A p \in Peer : allocation[p] = "live" =>
        \/ p \in m_peers
        \/ \E t \in Thread : pointer[t] = p
        \/ m_pending_deletion[p] /\ \E s \in Slot : helper[s] = p

(* Between Drop and the end of the last PeerHelper, which see each other's *)
(* work only through m_usage and m_pending_deletion, an object that leaves *)
(* the container is deleted by one of them: not by both, not by neither.   *)
DeletedExactlyOnce == DeletedByTheLast /\ NotLeaked

(* A client never outlives its peer for good: the id is in the container,  *)
(* or the user is still to be told that its owner is gone.                 *)
NoClientForGood ==
    \A i \in clients :
        \/ i \in IdsOf(m_peers) \/ Untold(i)
        \/ \E k \in DOMAIN m_event_queue :
               m_event_queue[k] = [type |-> "removed", peer_id |-> i]

(* Of an id that was not used again early: the user is told of a new peer  *)
(* only when it has no client of that id, of a removal only when it has    *)
(* one; and a peer that no event is left of has a client.                  *)
ClientFitsPeer ==
    \A i \in IdsOf(Peer) \ early :
        IF \E k \in DOMAIN m_event_queue : m_event_queue[k].peer_id = i
        THEN Head(m_event_queue).peer_id = i =>
                (Head(m_event_queue).type = "added" <=> i \notin clients)
        ELSE i \in IdsOf(m_peers) => i \in clients

(* What the user knows by id follows the container, although different     *)
(* threads put the events, deletePeer puts its own after it has released   *)
(* the mutex, and an id is free for a new peer in between.                 *)
ToldInOrder == ~destroyed => NoClientForGood /\ ClientFitsPeer

(* A dropped peer is deleted in the end.                                   *)
DroppedIsDeleted ==
    \A p \in Peer : m_pending_deletion[p] ~> allocation[p] = "deleted"
=============================================================================
