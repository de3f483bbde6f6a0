------------------------- MODULE PeerLifecycleProofs -------------------------
(* Peer objects are deleted once, by their last user, and never leaked,    *)
(* for any number of threads, nested scopes, objects and session ids; and  *)
(* what the user knows by id follows the container.                        *)
EXTENDS PeerLifecycle, FiniteSetTheorems, TLAPS

Users(p) == {s \in Slot : helper[s] = p}

(* deletePeer or a deletion is under way for the object thread t has. *)
Owns(t) == pc[t] \in {"erased", "dropping", "deleting"}

(* m_peers_mutex is held exactly between the halves of getPeerNoEx, and    *)
(* then the object found is in the container and the scope is free.        *)
MutexHeld ==
    \A t \in Thread :
        /\ pc[t] = "found" <=> m_peers_mutex = t
        /\ pc[t] = "found" => pointer[t] \in m_peers /\ helper[<<t, slot[t]>>] = None

PointerInUse == \A t \in Thread : pc[t] = "idle" <=> pointer[t] = None

(* The use count is the number of PeerHelpers. *)
UsageCounted == \A p \in Peer : m_usage[p] = Cardinality(Users(p))

(* An object is in the container, or one thread owns it, or its users do.  *)
ContainerSound ==
    \A p \in m_peers :
        /\ ~m_pending_deletion[p]
        /\ \A t \in Thread : Owns(t) => pointer[t] # p

OwnersApart ==
    \A t, u \in Thread : t # u /\ Owns(t) /\ Owns(u) => pointer[t] # pointer[u]

PendingMarked ==
    /\ \A t \in Thread : pc[t] \in {"erased", "dropping"} => ~m_pending_deletion[pointer[t]]
    /\ \A t \in Thread : pc[t] = "deleting" =>
            m_pending_deletion[pointer[t]] /\ Users(pointer[t]) = {}
    /\ \A p \in Peer : m_pending_deletion[p] => allocation[p] # "unborn"

(* Every live object that has left the container is owned or still used.   *)
Accounted ==
    \A p \in Peer : allocation[p] = "live" =>
        \/ p \in m_peers
        \/ \E t \in Thread : Owns(t) /\ pointer[t] = p
        \/ m_pending_deletion[p] /\ Users(p) # {}

IInv ==
    /\ TypeOK
    /\ MutexHeld
    /\ PointerInUse
    /\ UsageCounted
    /\ ContainerSound
    /\ OwnersApart
    /\ PendingMarked
    /\ Accounted
    /\ NoUseAfterDelete

-----------------------------------------------------------------------------
(* Users(p) is finite and a new PeerHelper for p, in a scope that had      *)
(* none, is one more user of p and of no other object.                     *)
LEMMA UsersGrow ==
    ASSUME TypeOK, NEW s \in Slot, NEW p \in Peer, helper[s] = None,
           helper' = [helper EXCEPT ![s] = p]
    PROVE  /\ Cardinality(Users(p)') = Cardinality(Users(p)) + 1
           /\ \A q \in Peer \ {p} : Users(q)' = Users(q)
<1>1. IsFiniteSet(Users(p))
  BY SlotsFiniteAssumption, FS_Subset DEF Users, Slot
<1>2. s \notin Users(p) /\ Users(p)' = Users(p) \cup {s}
  BY NoneAssumption DEF Users, TypeOK
<1>3. Cardinality(Users(p)') = Cardinality(Users(p)) + 1
  BY <1>1, <1>2, FS_AddElement
<1>4. \A q \in Peer \ {p} : Users(q)' = Users(q)
  BY NoneAssumption DEF Users, TypeOK
<1> QED
  BY <1>3, <1>4

(* The end of a PeerHelper for p is one user of p less.                    *)
LEMMA UsersShrink ==
    ASSUME TypeOK, NEW s \in Slot, NEW p \in Peer, helper[s] = p,
           helper' = [helper EXCEPT ![s] = None]
    PROVE  /\ Cardinality(Users(p)') = Cardinality(Users(p)) - 1
           /\ Cardinality(Users(p)) \in Nat \ {0}
           /\ Cardinality(Users(p)) = 1 <=> Users(p)' = {}
           /\ \A q \in Peer \ {p} : Users(q)' = Users(q)
<1>1. IsFiniteSet(Users(p))
  BY SlotsFiniteAssumption, FS_Subset DEF Users, Slot
<1>2. s \in Users(p) /\ Users(p)' = Users(p) \ {s}
  BY NoneAssumption DEF Users, TypeOK
<1>3. IsFiniteSet(Users(p)') /\ Cardinality(Users(p)') = Cardinality(Users(p)) - 1
  BY <1>1, <1>2, FS_RemoveElement
<1>4. Cardinality(Users(p)) \in Nat \ {0}
  BY <1>1, <1>2, FS_CardinalityType, FS_EmptySet
<1>5. Cardinality(Users(p)) = 1 <=> Users(p)' = {}
  BY <1>3, <1>4, FS_EmptySet
<1>6. \A q \in Peer \ {p} : Users(q)' = Users(q)
  BY NoneAssumption DEF Users, TypeOK
<1> QED
  BY <1>3, <1>4, <1>5, <1>6

(* The use count is zero exactly when no PeerHelper holds the object.      *)
LEMMA UnusedMeansNoUsers ==
    ASSUME TypeOK, UsageCounted, NEW p \in Peer
    PROVE  m_usage[p] = 0 <=> Users(p) = {}
<1>1. IsFiniteSet(Users(p))
  BY SlotsFiniteAssumption, FS_Subset DEF Users, Slot
<1> QED
  BY <1>1, FS_EmptySet DEF UsageCounted

(* Types are kept by every step that starts in a state of IInv.            *)
LEMMA TypeStep == IInv /\ [Next]_vars => TypeOK'
<1> SUFFICES ASSUME IInv, [Next]_vars PROVE TypeOK'
  OBVIOUS
<1> USE NoneAssumption DEF IInv, TypeOK, Goto, userVars
<1>1. ASSUME NEW t \in Thread, NEW p \in Peer, CreatePeer(t, p) PROVE TypeOK'
  BY <1>1 DEF CreatePeer, NoteEarly, Event, IdsOf
<1>2. ASSUME NEW t \in Thread, NEW p \in Peer, DeletePeer(t, p) PROVE TypeOK'
  BY <1>2 DEF DeletePeer
<1>3. ASSUME NEW t \in Thread, NEW p \in Peer, NEW l \in Level, GetPeerNoEx(t, l, p)
      PROVE TypeOK'
  BY <1>3 DEF GetPeerNoEx
<1>4. ASSUME NEW t \in Thread, IncUseCount(t) PROVE TypeOK'
  <2>1. pointer[t] \in Peer /\ <<t, slot[t]>> \in Slot
    BY <1>4 DEF IncUseCount, PointerInUse, Slot
  <2>2. m_usage' \in [Peer -> Nat]
    <3> HIDE DEF Goto
    <3>1. CASE m_pending_deletion[pointer[t]]
      BY <1>4, <3>1 DEF IncUseCount
    <3>2. CASE ~m_pending_deletion[pointer[t]]
      <4>1. m_usage' = [m_usage EXCEPT ![pointer[t]] = @ + 1]
        BY <1>4, <3>2 DEF IncUseCount
      <4> QED
        BY <4>1, <2>1
    <3> QED
      BY <3>1, <3>2
  <2>3. helper' \in [Slot -> Peer \cup {None}]
    BY <1>4, <2>1 DEF IncUseCount
  <2> QED
    BY <1>4, <2>2, <2>3 DEF IncUseCount
<1>5. ASSUME NEW t \in Thread, NEW l \in Level, DecUseCount(t, l) PROVE TypeOK'
  <2> DEFINE p == helper[<<t, l>>]
  <2>1. <<t, l>> \in Slot /\ p \in Peer
    BY <1>5 DEF DecUseCount, Slot
  <2>2. m_usage[p] \in Nat \ {0}
    BY <1>5, <2>1, UsersShrink DEF DecUseCount, UsageCounted
  <2>3. m_usage' \in [Peer -> Nat]
    BY <1>5, <2>1, <2>2 DEF DecUseCount
  <2>4. helper' \in [Slot -> Peer \cup {None}]
    BY <1>5, <2>1 DEF DecUseCount
  <2>5. pc' \in [Thread -> {"idle", "found", "erased", "dropping", "deleting"}]
        /\ pointer' \in [Thread -> Peer \cup {None}]
    <3> HIDE DEF p
    <3>1. Goto(t, "deleting", p) \/ UNCHANGED <<pc, pointer>>
      BY <1>5 DEF DecUseCount, p
    <3>2. CASE Goto(t, "deleting", p)
      BY <2>1, <3>2
    <3>3. CASE UNCHANGED <<pc, pointer>>
      BY <3>3
    <3> QED
      BY <3>1, <3>2, <3>3
  <2> QED
    BY <1>5, <2>3, <2>4, <2>5 DEF DecUseCount
<1>6. ASSUME NEW t \in Thread, PutRemovedEvent(t) PROVE TypeOK'
  <2>1. pointer[t] \in Peer
    BY <1>6 DEF PutRemovedEvent, PointerInUse
  <2> QED
    BY <1>6, <2>1 DEF PutRemovedEvent, Event, IdsOf
<1>7. ASSUME NEW t \in Thread, Drop(t) PROVE TypeOK'
  <2>1. pointer[t] \in Peer
    BY <1>7 DEF Drop, PointerInUse
  <2>2. pc' \in [Thread -> {"idle", "found", "erased", "dropping", "deleting"}]
        /\ pointer' \in [Thread -> Peer \cup {None}]
    <3>1. Goto(t, "idle", None) \/ Goto(t, "deleting", pointer[t])
      BY <1>7 DEF Drop
    <3> QED
      BY <2>1, <3>1
  <2> QED
    BY <1>7, <2>2 DEF Drop
<1>8. ASSUME NEW t \in Thread, DeleteObject(t) PROVE TypeOK'
  BY <1>8 DEF DeleteObject
<1>9. CASE Receive
  <2>1. Head(m_event_queue) \in Event /\ Tail(m_event_queue) \in Seq(Event)
    BY <1>9 DEF Receive
  <2> QED
    BY <1>9, <2>1 DEF Receive, HandleEvent, Event
<1>10. CASE Destroy
  BY <1>10 DEF Destroy
<1>11. CASE UNCHANGED vars
  BY <1>11 DEF vars
<1> QED
  BY <1>1, <1>2, <1>3, <1>4, <1>5, <1>6, <1>7, <1>8, <1>9, <1>10, <1>11
     DEF Next, Step

(* Every step keeps the invariant.                                         *)
LEMMA InvStep == IInv /\ [Next]_vars => IInv'
<1> SUFFICES ASSUME IInv, [Next]_vars PROVE IInv'
  OBVIOUS
<1>0. TypeOK'
  BY TypeStep
<1> USE NoneAssumption, <1>0 DEF IInv, TypeOK, Goto, MayLock, userVars, Owns
<1>1. ASSUME NEW t \in Thread, NEW p \in Peer, CreatePeer(t, p)
      PROVE  IInv'
  <2>1. MutexHeld'
    BY <1>1 DEF CreatePeer, MutexHeld
  <2>2. PointerInUse'
    BY <1>1 DEF CreatePeer, PointerInUse
  <2>3. UsageCounted'
    BY <1>1 DEF CreatePeer, UsageCounted, Users
  <2>4. ContainerSound'
    BY <1>1 DEF CreatePeer, ContainerSound, PendingMarked, NoUseAfterDelete, PointerInUse
  <2>5. OwnersApart'
    BY <1>1 DEF CreatePeer, OwnersApart
  <2>6. PendingMarked'
    BY <1>1 DEF CreatePeer, PendingMarked, Users
  <2>7. Accounted'
    BY <1>1 DEF CreatePeer, Accounted, Users
  <2>8. NoUseAfterDelete'
    BY <1>1 DEF CreatePeer, NoUseAfterDelete
  <2> QED
    BY <2>1, <2>2, <2>3, <2>4, <2>5, <2>6, <2>7, <2>8
<1>2. ASSUME NEW t \in Thread, NEW p \in Peer, DeletePeer(t, p)
      PROVE  IInv'
  <2>1. MutexHeld'
    BY <1>2 DEF DeletePeer, MutexHeld
  <2>2. PointerInUse'
    BY <1>2 DEF DeletePeer, PointerInUse
  <2>3. UsageCounted'
    BY <1>2 DEF DeletePeer, UsageCounted, Users
  <2>4. ContainerSound'
    BY <1>2 DEF DeletePeer, ContainerSound
  <2>5. OwnersApart'
    BY <1>2 DEF DeletePeer, OwnersApart, ContainerSound
  <2>6. PendingMarked'
    BY <1>2 DEF DeletePeer, PendingMarked, ContainerSound, Users
  <2>7. Accounted'
    <3>1. Owns(t)' /\ pointer'[t] = p
      BY <1>2 DEF DeletePeer
    <3>2. \A u \in Thread : Owns(u) => Owns(u)' /\ pointer'[u] = pointer[u]
      BY <1>2 DEF DeletePeer
    <3>3. m_peers' = m_peers \ {p} /\ UNCHANGED <<allocation, m_pending_deletion, helper>>
      BY <1>2 DEF DeletePeer
    <3> HIDE DEF Owns
    <3> QED
      BY <3>1, <3>2, <3>3 DEF Accounted, Users
  <2>8. NoUseAfterDelete'
    BY <1>2 DEF DeletePeer, NoUseAfterDelete
  <2> QED
    BY <2>1, <2>2, <2>3, <2>4, <2>5, <2>6, <2>7, <2>8
<1>3. ASSUME NEW t \in Thread, NEW p \in Peer, NEW l \in Level, GetPeerNoEx(t, l, p)
      PROVE  IInv'
  <2>1. MutexHeld'
    <3>1. \A u \in Thread : pc[u] # "found"
      <4>1. m_peers_mutex = None
        BY <1>3 DEF GetPeerNoEx
      <4>2. \A u \in Thread : m_peers_mutex # u
        BY <4>1
      <4> HIDE DEF TypeOK
      <4> QED
        BY <4>2 DEF MutexHeld
    <3>2. /\ pc' = [pc EXCEPT ![t] = "found"] /\ pointer' = [pointer EXCEPT ![t] = p]
          /\ slot' = [slot EXCEPT ![t] = l] /\ m_peers_mutex' = t
          /\ p \in m_peers' /\ helper'[<<t, l>>] = None
      BY <1>3 DEF GetPeerNoEx
    <3>3. \A u \in Thread \ {t} : pc'[u] # "found" /\ m_peers_mutex' # u
      BY <3>1, <3>2
    <3>4. pc'[t] = "found" /\ pointer'[t] \in m_peers' /\ helper'[<<t, slot'[t]>>] = None
      BY <3>2
    <3>5. m_peers_mutex' = t
      BY <3>2
    <3> HIDE DEF TypeOK
    <3> QED
      BY <3>3, <3>4, <3>5 DEF MutexHeld
  <2>2. PointerInUse'
    BY <1>3 DEF GetPeerNoEx, PointerInUse
  <2>3. UsageCounted'
    BY <1>3 DEF GetPeerNoEx, UsageCounted, Users
  <2>4. ContainerSound'
    BY <1>3 DEF GetPeerNoEx, ContainerSound
  <2>5. OwnersApart'
    BY <1>3 DEF GetPeerNoEx, OwnersApart
  <2>6. PendingMarked'
    BY <1>3 DEF GetPeerNoEx, PendingMarked, Users
  <2>7. Accounted'
    <3>1. \A u \in Thread : Owns(u) => Owns(u)' /\ pointer'[u] = pointer[u]
      BY <1>3 DEF GetPeerNoEx
    <3>2. UNCHANGED <<m_peers, allocation, m_pending_deletion, helper>>
      BY <1>3 DEF GetPeerNoEx
    <3> HIDE DEF Owns
    <3> QED
      BY <3>1, <3>2 DEF Accounted, Users
  <2>8. NoUseAfterDelete'
    BY <1>3 DEF GetPeerNoEx, NoUseAfterDelete
  <2> QED
    BY <2>1, <2>2, <2>3, <2>4, <2>5, <2>6, <2>7, <2>8
<1>4. ASSUME NEW t \in Thread, IncUseCount(t)
      PROVE  IInv'
  <2>p. PICK p \in Peer : p = pointer[t]
    BY <1>4 DEF IncUseCount, MutexHeld
  <2>a. p \in m_peers /\ ~m_pending_deletion[p] /\ allocation[p] = "live"
    BY <1>4, <2>p DEF IncUseCount, MutexHeld, ContainerSound, NoUseAfterDelete
  <2>b. <<t, slot[t]>> \in Slot /\ helper[<<t, slot[t]>>] = None
    BY <1>4 DEF IncUseCount, MutexHeld, Slot
  <2>c. /\ helper' = [helper EXCEPT ![<<t, slot[t]>>] = p]
        /\ m_usage' = [m_usage EXCEPT ![p] = @ + 1]
    BY <1>4, <2>a, <2>p DEF IncUseCount
  <2>d. /\ Cardinality(Users(p)') = Cardinality(Users(p)) + 1
        /\ \A q \in Peer \ {p} : Users(q)' = Users(q)
    BY <2>b, <2>c, UsersGrow
  <2>e. \A u \in Thread : /\ Owns(u)' <=> Owns(u)
                          /\ pc[u] = "deleting" <=> pc'[u] = "deleting"
                          /\ pc[u] \in {"erased", "dropping"} <=> pc'[u] \in {"erased", "dropping"}
                          /\ Owns(u) => pointer'[u] = pointer[u] /\ pointer[u] # p
    BY <1>4, <2>a, <2>p DEF IncUseCount, ContainerSound
  <2>f. UNCHANGED <<m_peers, allocation, m_pending_deletion>>
    BY <1>4 DEF IncUseCount
  <2>1. MutexHeld'
    BY <1>4 DEF IncUseCount, MutexHeld
  <2>2. PointerInUse'
    BY <1>4 DEF IncUseCount, PointerInUse
  <2>3. UsageCounted'
    <3>1. m_usage'[p] = m_usage[p] + 1 /\ \A q \in Peer \ {p} : m_usage'[q] = m_usage[q]
      BY <2>c
    <3> QED
      BY <3>1, <2>d DEF UsageCounted
  <2>4. ContainerSound'
    BY <1>4 DEF IncUseCount, ContainerSound
  <2>5. OwnersApart'
    BY <1>4 DEF IncUseCount, OwnersApart
  <2>6. PendingMarked'
    <3>1. \A u \in Thread : pc[u] = "deleting" => \A sl \in Slot : helper'[sl] # pointer[u]
      BY <2>b, <2>c, <2>e DEF PendingMarked, PointerInUse, Users
    <3> QED
      BY <3>1, <2>e, <2>f DEF PendingMarked, Users
  <2>7. Accounted'
    <3> HIDE DEF Owns
    <3> QED
      BY <2>a, <2>d, <2>e, <2>f DEF Accounted
  <2>8. NoUseAfterDelete'
    BY <1>4, <2>a, <2>b, <2>c, <2>f DEF IncUseCount, NoUseAfterDelete
  <2> QED
    BY <2>1, <2>2, <2>3, <2>4, <2>5, <2>6, <2>7, <2>8
<1>5. ASSUME NEW t \in Thread, NEW l \in Level, DecUseCount(t, l)
      PROVE  IInv'
  <2> DEFINE s == <<t, l>>
  <2>p. PICK p \in Peer : p = helper[s]
    BY <1>5 DEF DecUseCount, Slot
  <2>a. s \in Slot /\ allocation[p] = "live" /\ helper[s] = p
    BY <1>5, <2>p DEF DecUseCount, Slot, NoUseAfterDelete
  <2>b. /\ helper' = [helper EXCEPT ![s] = None]
        /\ m_usage' = [m_usage EXCEPT ![p] = @ - 1]
    BY <1>5, <2>a DEF DecUseCount
  <2>c. /\ Cardinality(Users(p)') = Cardinality(Users(p)) - 1
        /\ m_usage[p] = 1 <=> Users(p)' = {}
        /\ \A q \in Peer \ {p} : Users(q)' = Users(q)
    <3> HIDE DEF s, TypeOK
    <3>1. TypeOK
      OBVIOUS
    <3>2. m_usage[p] = Cardinality(Users(p))
      BY DEF UsageCounted
    <3> QED
      BY <2>a, <2>b, <3>1, <3>2, UsersShrink
  <2>d. UNCHANGED <<m_peers, allocation, m_pending_deletion>>
    BY <1>5 DEF DecUseCount
  <2>e. \A u \in Thread : pc[u] = "deleting" => pointer[u] # p
    BY <2>a DEF PendingMarked, Users
  <2>f. \/ m_pending_deletion[p] /\ m_usage[p] = 1 /\ Goto(t, "deleting", p)
        \/ ~(m_pending_deletion[p] /\ m_usage[p] = 1) /\ UNCHANGED <<pc, pointer>>
    BY <1>5, <2>a DEF DecUseCount
  <2>g. pc[t] = "idle" /\ pointer[t] = None
    BY <1>5 DEF DecUseCount, PointerInUse
  <2>h. UNCHANGED <<m_peers_mutex, slot>>
    BY <1>5 DEF DecUseCount
  <2>1. MutexHeld'
    <3>1. \A u \in Thread : pc'[u] = "found" <=> pc[u] = "found"
      BY <2>f, <2>g
    <3>2. \A u \in Thread : pc[u] = "found" => pointer'[u] = pointer[u]
      BY <2>f, <2>g
    <3>3. \A u \in Thread : helper[<<u, slot[u]>>] = None => helper'[<<u, slot[u]>>] = None
      BY <2>a, <2>b DEF Slot
    <3> QED
      BY <3>1, <3>2, <3>3, <2>d, <2>h DEF MutexHeld
  <2>2. PointerInUse'
    BY <2>a, <2>f, <2>g DEF PointerInUse
  <2>3. UsageCounted'
    <3>1. m_usage'[p] = m_usage[p] - 1 /\ \A q \in Peer \ {p} : m_usage'[q] = m_usage[q]
      BY <2>a, <2>b
    <3>2. m_usage'[p] = Cardinality(Users(p)')
      BY <3>1, <2>c DEF UsageCounted
    <3>3. \A q \in Peer \ {p} : m_usage'[q] = Cardinality(Users(q)')
      BY <3>1, <2>c DEF UsageCounted
    <3> QED
      BY <3>2, <3>3 DEF UsageCounted
  <2>4. ContainerSound'
    BY <2>d, <2>f, <2>g DEF ContainerSound
  <2>5. OwnersApart'
    <3>1. m_pending_deletion[p] => \A u \in Thread : Owns(u) => pointer[u] # p
      BY <2>e DEF PendingMarked
    <3> QED
      BY <3>1, <2>f, <2>g DEF OwnersApart
  <2>6. PendingMarked'
    <3>1. \A u \in Thread : pc[u] = "deleting" => \A sl \in Slot : helper'[sl] # pointer[u]
      BY <2>a, <2>b, <2>e DEF PendingMarked, PointerInUse, Users
    <3>2. CASE m_pending_deletion[p] /\ m_usage[p] = 1 /\ Goto(t, "deleting", p)
      <4>1. Users(p)' = {}
        BY <3>2, <2>c
      <4>2. pointer'[t] = p /\ pc'[t] = "deleting"
        BY <3>2
      <4>3. \A u \in Thread \ {t} : pc'[u] = pc[u] /\ pointer'[u] = pointer[u]
        BY <3>2
      <4> QED
        BY <3>1, <3>2, <4>1, <4>2, <4>3, <2>d DEF PendingMarked, Users
    <3>3. CASE UNCHANGED <<pc, pointer>>
      BY <3>1, <3>3, <2>d DEF PendingMarked, Users
    <3> QED
      BY <3>2, <3>3, <2>f
  <2>7. Accounted'
    <3>1. \A u \in Thread : Owns(u) => Owns(u)' /\ pointer'[u] = pointer[u]
      BY <2>f, <2>g
    <3>2. m_pending_deletion[p] =>
            Users(p)' # {} \/ (Owns(t)' /\ pointer'[t] = p)
      BY <2>c, <2>f
    <3>3. Users(p) # {}
      BY <2>a DEF Users
    <3> HIDE DEF Owns
    <3> QED
      BY <3>1, <3>2, <3>3, <2>a, <2>c, <2>d DEF Accounted
  <2>8. NoUseAfterDelete'
    <3>1. \A u \in Thread : pc'[u] # "idle" =>
            pointer'[u] = p \/ (pc[u] # "idle" /\ pointer'[u] = pointer[u])
      BY <2>f, <2>g
    <3>2. \A sl \in Slot : helper'[sl] # None => helper'[sl] = helper[sl]
      BY <2>a, <2>b
    <3>3. UNCHANGED <<allocation, m_peers>>
      BY <2>d
    <3> HIDE DEF TypeOK
    <3> QED
      BY <3>1, <3>2, <3>3, <2>a DEF NoUseAfterDelete
  <2> QED
    BY <2>1, <2>2, <2>3, <2>4, <2>5, <2>6, <2>7, <2>8
<1>6. ASSUME NEW t \in Thread, PutRemovedEvent(t)
      PROVE  IInv'
  <2>1. MutexHeld'
    BY <1>6 DEF PutRemovedEvent, MutexHeld
  <2>2. PointerInUse'
    BY <1>6 DEF PutRemovedEvent, PointerInUse
  <2>3. UsageCounted'
    BY <1>6 DEF PutRemovedEvent, UsageCounted, Users
  <2>4. ContainerSound'
    BY <1>6 DEF PutRemovedEvent, ContainerSound
  <2>5. OwnersApart'
    BY <1>6 DEF PutRemovedEvent, OwnersApart
  <2>6. PendingMarked'
    BY <1>6 DEF PutRemovedEvent, PendingMarked, Users
  <2>7. Accounted'
    BY <1>6 DEF PutRemovedEvent, Accounted, Users
  <2>8. NoUseAfterDelete'
    BY <1>6 DEF PutRemovedEvent, NoUseAfterDelete
  <2> QED
    BY <2>1, <2>2, <2>3, <2>4, <2>5, <2>6, <2>7, <2>8
<1>7. ASSUME NEW t \in Thread, Drop(t)
      PROVE  IInv'
  <2>p. PICK p \in Peer : p = pointer[t]
    BY <1>7 DEF Drop, PointerInUse
  <2>a. p = pointer[t] /\ pc[t] = "dropping" /\ Owns(t) /\ allocation[p] = "live"
    BY <1>7, <2>p DEF Drop, NoUseAfterDelete
  <2>b. \A u \in Thread \ {t} : Owns(u) => pointer[u] # p
    BY <2>a DEF OwnersApart
  <2>c. \/ m_usage[p] # 0 /\ Goto(t, "idle", None)
        \/ m_usage[p] = 0 /\ Goto(t, "deleting", p)
    BY <1>7, <2>a DEF Drop
  <2>d. m_usage[p] = 0 <=> Users(p) = {}
    BY <2>a, UnusedMeansNoUsers
  <2>e. /\ UNCHANGED <<m_peers, allocation, helper>>
        /\ m_pending_deletion' = [m_pending_deletion EXCEPT ![p] = TRUE]
    BY <1>7, <2>a DEF Drop
  <2>f. \A u \in Thread \ {t} : pc'[u] = pc[u] /\ pointer'[u] = pointer[u]
    BY <2>c
  <2>g. \/ pc'[t] = "idle" /\ pointer'[t] = None /\ Users(p) # {}
        \/ pc'[t] = "deleting" /\ pointer'[t] = p /\ Users(p) = {}
    BY <2>c, <2>d
  <2>h. \A u \in Thread : pc'[u] # "idle" =>
            /\ pc[u] # "idle" /\ pointer'[u] = pointer[u]
            /\ Owns(u)' => Owns(u)
    BY <2>a, <2>f, <2>g
  <2>1. MutexHeld'
    BY <1>7 DEF Drop, MutexHeld
  <2>2. PointerInUse'
    BY <1>7 DEF Drop, PointerInUse
  <2>3. UsageCounted'
    BY <1>7 DEF Drop, UsageCounted, Users
  <2>4. ContainerSound'
    BY <1>7 DEF Drop, ContainerSound
  <2>5. OwnersApart'
    <3>1. \A u \in Thread : Owns(u)' => Owns(u) /\ pointer'[u] = pointer[u]
      BY <2>h
    <3> HIDE DEF Owns
    <3> QED
      BY <3>1 DEF OwnersApart
  <2>6. PendingMarked'
    <3>1. \A u \in Thread : pc'[u] \in {"erased", "dropping"} =>
            ~m_pending_deletion'[pointer'[u]]
      <4> SUFFICES ASSUME NEW u \in Thread, pc'[u] \in {"erased", "dropping"}
                   PROVE  ~m_pending_deletion'[pointer'[u]]
        OBVIOUS
      <4>1. u # t /\ pc[u] = pc'[u] /\ pointer'[u] = pointer[u]
        BY <2>f, <2>g
      <4>2. ~m_pending_deletion[pointer[u]] /\ pointer[u] \in Peer \ {p}
        BY <4>1, <2>b DEF PendingMarked, PointerInUse
      <4> QED
        BY <4>1, <4>2, <2>e
    <3>2. \A u \in Thread : pc'[u] = "deleting" =>
            m_pending_deletion'[pointer'[u]] /\ \A sl \in Slot : helper'[sl] # pointer'[u]
      BY <2>b, <2>e, <2>f, <2>g DEF PendingMarked, PointerInUse, Users
    <3>3. \A q \in Peer : m_pending_deletion'[q] => allocation'[q] # "unborn"
      BY <2>a, <2>e DEF PendingMarked
    <3> QED
      BY <3>1, <3>2, <3>3 DEF PendingMarked, Users
  <2>7. Accounted'
    <3>1. \A u \in Thread \ {t} : Owns(u) => Owns(u)' /\ pointer'[u] = pointer[u]
      BY <2>f
    <3>2. Users(p)' # {} \/ (Owns(t)' /\ pointer'[t] = p)
      BY <2>e, <2>g DEF Users
    <3>3. m_pending_deletion'[p] /\ \A q \in Peer : Users(q)' = Users(q)
      BY <2>a, <2>e DEF Users
    <3>4. \A q \in Peer \ {p} : m_pending_deletion'[q] = m_pending_deletion[q]
      BY <2>e
    <3>5. \A q \in Peer \ {p} : allocation'[q] = "live" =>
              \/ q \in m_peers'
              \/ \E u \in Thread : Owns(u)' /\ pointer'[u] = q
              \/ m_pending_deletion'[q] /\ Users(q)' # {}
      <4> SUFFICES ASSUME NEW q \in Peer \ {p}, allocation'[q] = "live"
                   PROVE  \/ q \in m_peers'
                          \/ \E u \in Thread : Owns(u)' /\ pointer'[u] = q
                          \/ m_pending_deletion'[q] /\ Users(q)' # {}
        OBVIOUS
      <4>1. CASE q \in m_peers
        BY <4>1, <2>e
      <4>2. CASE m_pending_deletion[q] /\ Users(q) # {}
        BY <4>2, <3>3, <3>4
      <4>3. ASSUME NEW u \in Thread, Owns(u), pointer[u] = q
            PROVE  Owns(u)' /\ pointer'[u] = q
        BY <4>3, <3>1, <2>a
      <4> HIDE DEF Owns
      <4> QED
        BY <4>1, <4>2, <4>3, <2>e DEF Accounted
    <3>6. (m_pending_deletion'[p] /\ Users(p)' # {}) \/ (Owns(t)' /\ pointer'[t] = p)
      BY <3>2, <3>3
    <3> HIDE DEF Owns, TypeOK
    <3> QED
      BY <3>5, <3>6 DEF Accounted
  <2>8. NoUseAfterDelete'
    BY <2>e, <2>h DEF NoUseAfterDelete
  <2> QED
    BY <2>1, <2>2, <2>3, <2>4, <2>5, <2>6, <2>7, <2>8
<1>8. ASSUME NEW t \in Thread, DeleteObject(t)
      PROVE  IInv'
  <2>1. MutexHeld'
    BY <1>8 DEF DeleteObject, MutexHeld
  <2>2. PointerInUse'
    BY <1>8 DEF DeleteObject, PointerInUse
  <2>3. UsageCounted'
    BY <1>8 DEF DeleteObject, UsageCounted, Users
  <2>4. ContainerSound'
    BY <1>8 DEF DeleteObject, ContainerSound
  <2>5. OwnersApart'
    BY <1>8 DEF DeleteObject, OwnersApart
  <2>6. PendingMarked'
    BY <1>8 DEF DeleteObject, PendingMarked, Users
  <2>7. Accounted'
    BY <1>8 DEF DeleteObject, Accounted, Users
  <2>8. NoUseAfterDelete'
    <3> DEFINE p == pointer[t]
    <3>1. /\ allocation' = [allocation EXCEPT ![p] = "deleted"]
          /\ UNCHANGED <<helper, m_peers>>
          /\ Goto(t, "idle", None)
      BY <1>8 DEF DeleteObject
    <3>2. p \notin m_peers /\ \A u \in Thread \ {t} : Owns(u) => pointer[u] # p
      BY <1>8 DEF DeleteObject, ContainerSound, OwnersApart
    <3>3. \A u \in Thread \ {t} : pc[u] = "found" => pointer[u] # p
      BY <3>2 DEF MutexHeld
    <3>4. \A sl \in Slot : helper[sl] # p
      BY <1>8 DEF DeleteObject, PendingMarked, Users
    <3> QED
      BY <3>1, <3>2, <3>3, <3>4 DEF NoUseAfterDelete
  <2> QED
    BY <2>1, <2>2, <2>3, <2>4, <2>5, <2>6, <2>7, <2>8
<1>9. CASE Receive
  <2>1. MutexHeld'
    BY <1>9 DEF Receive, MutexHeld
  <2>2. PointerInUse'
    BY <1>9 DEF Receive, PointerInUse
  <2>3. UsageCounted'
    BY <1>9 DEF Receive, UsageCounted, Users
  <2>4. ContainerSound'
    BY <1>9 DEF Receive, ContainerSound
  <2>5. OwnersApart'
    BY <1>9 DEF Receive, OwnersApart
  <2>6. PendingMarked'
    BY <1>9 DEF Receive, PendingMarked, Users
  <2>7. Accounted'
    BY <1>9 DEF Receive, Accounted, Users
  <2>8. NoUseAfterDelete'
    BY <1>9 DEF Receive, NoUseAfterDelete
  <2> QED
    BY <2>1, <2>2, <2>3, <2>4, <2>5, <2>6, <2>7, <2>8
<1>10. CASE Destroy
  <2>1. MutexHeld'
    BY <1>10 DEF Destroy, MutexHeld
  <2>2. PointerInUse'
    BY <1>10 DEF Destroy, PointerInUse
  <2>3. UsageCounted'
    BY <1>10 DEF Destroy, UsageCounted, Users
  <2>4. ContainerSound'
    BY <1>10 DEF Destroy, ContainerSound
  <2>5. OwnersApart'
    BY <1>10 DEF Destroy, OwnersApart
  <2>6. PendingMarked'
    BY <1>10 DEF Destroy, PendingMarked, Users
  <2>7. Accounted'
    BY <1>10 DEF Destroy, Accounted, Users
  <2>8. NoUseAfterDelete'
    BY <1>10 DEF Destroy, NoUseAfterDelete
  <2> QED
    BY <2>1, <2>2, <2>3, <2>4, <2>5, <2>6, <2>7, <2>8
<1>11. CASE UNCHANGED vars
  BY <1>11 DEF vars, MutexHeld, PointerInUse, UsageCounted, ContainerSound, OwnersApart,
     PendingMarked, Accounted, NoUseAfterDelete, Users
<1> QED
  BY <1>1, <1>2, <1>3, <1>4, <1>5, <1>6, <1>7, <1>8, <1>9, <1>10, <1>11
     DEF Next, Step

(* The empty connection satisfies the invariant.                           *)
LEMMA InvInit == Init => IInv
<1> SUFFICES ASSUME Init PROVE IInv
  OBVIOUS
<1> USE NoneAssumption DEF Init, Owns
<1>1. TypeOK
  <2>1. (CHOOSE l \in Level : TRUE) \in Level
    BY LevelAssumption
  <2>2. slot \in [Thread -> Level]
    BY <2>1
  <2>3. m_event_queue \in Seq(Event)
    OBVIOUS
  <2> QED
    BY <2>2, <2>3 DEF TypeOK
<1>2. MutexHeld /\ PointerInUse
  BY DEF MutexHeld, PointerInUse
<1>3. UsageCounted
  <2>1. \A p \in Peer : Users(p) = {}
    BY DEF Users
  <2> QED
    BY <2>1, FS_EmptySet DEF UsageCounted
<1>4. ContainerSound /\ OwnersApart /\ PendingMarked /\ Accounted
  BY DEF ContainerSound, OwnersApart, PendingMarked, Accounted
<1>5. NoUseAfterDelete
  BY DEF NoUseAfterDelete
<1> QED
  BY <1>1, <1>2, <1>3, <1>4, <1>5 DEF IInv

-----------------------------------------------------------------------------
(* The inductive invariant holds in every reachable state: use counts are  *)
(* exact, and each object is the business of the container, of one thread  *)
(* or of its users (PeerHelper, deletePeer, Drop).                         *)
THEOREM Invariance == Spec => []IInv
<1>1. Init => IInv
  BY InvInit
<1>2. IInv /\ [Next]_vars => IInv'
  BY InvStep
<1> QED
  BY <1>1, <1>2, PTL DEF Spec

(* The variables of the container, the peers and the threads keep their    *)
(* types; in particular a use count never falls below zero (DecUseCount).  *)
THEOREM TypeCorrect == Spec => []TypeOK
<1>1. IInv => TypeOK
  BY DEF IInv
<1> QED
  BY <1>1, Invariance, PTL

(* No thread is left with an object that was deleted: neither through a    *)
(* PeerHelper nor through the Peer* of getPeerNoEx and deletePeer.         *)
THEOREM NoUseAfterDeleteHolds == Spec => []NoUseAfterDelete
<1>1. IInv => NoUseAfterDelete
  BY DEF IInv
<1> QED
  BY <1>1, Invariance, PTL

(* A Peer is deleted by the last that knows of it, whether Drop or the end *)
(* of a PeerHelper does it.                                                *)
THEOREM DeletedByTheLastHolds == Spec => []DeletedByTheLast
<1>1. ASSUME IInv, NEW t \in Thread, pc[t] = "deleting"
      PROVE  /\ m_usage[pointer[t]] = 0
             /\ pointer[t] \notin m_peers
             /\ \A s \in Slot : helper[s] # pointer[t]
             /\ \A u \in Thread \ {t} : pointer[u] # pointer[t]
  <2> USE <1>1, NoneAssumption DEF IInv
  <2>p. PICK p \in Peer : p = pointer[t]
    BY DEF TypeOK, PointerInUse
  <2>1. Users(p) = {}
    BY <2>p DEF PendingMarked
  <2>2. m_usage[p] = 0
    BY <2>1, UnusedMeansNoUsers
  <2>3. p \notin m_peers
    BY <2>p DEF ContainerSound, Owns
  <2>4. ASSUME NEW u \in Thread \ {t} PROVE pointer[u] # p
    <3>1. CASE pc[u] = "idle"
      BY <3>1 DEF PointerInUse
    <3>2. CASE pc[u] = "found"
      BY <3>2, <2>3 DEF MutexHeld
    <3>3. CASE Owns(u)
      BY <3>3, <2>p DEF OwnersApart, Owns
    <3> QED
      BY <3>1, <3>2, <3>3 DEF TypeOK, Owns
  <2> QED
    BY <2>p, <2>1, <2>2, <2>3, <2>4 DEF Users
<1>2. IInv => DeletedByTheLast
  BY <1>1 DEF DeletedByTheLast
<1> QED
  BY <1>2, Invariance, PTL

(* A live object that has left the container is still going to be deleted, *)
(* by the thread that dropped it or by its last PeerHelper.                *)
THEOREM NotLeakedHolds == Spec => []NotLeaked
<1>1. IInv => NotLeaked
  BY DEF IInv, Accounted, NotLeaked, Users
<1> QED
  BY <1>1, Invariance, PTL

(* Both together: of the two threads that may let go of an object last,    *)
(* exactly one deletes it, for any number of threads and nested scopes.    *)
THEOREM DeletedExactlyOnceHolds == Spec => []DeletedExactlyOnce
BY DeletedByTheLastHolds, NotLeakedHolds, PTL DEF DeletedExactlyOnce

-----------------------------------------------------------------------------
(* What the user knows of an id.                                           *)
Added(i) == [type |-> "added", peer_id |-> i]
Removed(i) == [type |-> "removed", peer_id |-> i]

(* A user with the clients c has one of id i after the events of q that    *)
(* come before the k-th.                                                   *)
Knows(q, c, i, k) ==
    \/ \E j \in DOMAIN q :
          /\ j < k /\ q[j] = Added(i)
          /\ \A m \in DOMAIN q : j < m /\ m < k => q[m] # Removed(i)
    \/ i \in c /\ \A m \in DOMAIN q : m < k => q[m] # Removed(i)

(* p is in the container, or is taken out and nobody is told of it yet; so *)
(* of an object of id i.                                                   *)
Around(p) == p \in m_peers \/ \E t \in Thread : pc[t] = "erased" /\ pointer[t] = p
AroundId(i) == i \in IdsOf(m_peers) \/ Untold(i)

(* The client that the user will have in the end is that of an object      *)
(* still around.                                                           *)
KnownIsAround ==
    ~destroyed => \A i \in IdsOf(Peer) :
        Knows(m_event_queue, clients, i, Len(m_event_queue) + 1) => AroundId(i)

(* Of an id not used again early: there is one object around at a time,    *)
(* the user will have its client, and each event is news to the user.      *)
OneAround ==
    \A p, r \in Peer : id[p] \notin early /\ id[p] = id[r] /\ Around(p) /\ Around(r) => p = r
AroundIsKnown ==
    \A i \in IdsOf(Peer) \ early :
        AroundId(i) => Knows(m_event_queue, clients, i, Len(m_event_queue) + 1)
EventsAreNews ==
    \A k \in DOMAIN m_event_queue : \A i \in IdsOf(Peer) \ early :
        m_event_queue[k].peer_id = i =>
            (m_event_queue[k].type = "added" <=> ~Knows(m_event_queue, clients, i, k))
ToldInv == KnownIsAround /\ OneAround /\ AroundIsKnown /\ EventsAreNews

LEMMA AroundIds == \A i : AroundId(i) <=> \E p : Around(p) /\ id[p] = i
  BY DEF AroundId, Around, IdsOf, Untold

(* An event put at the end is the last the user hears.                     *)
LEMMA KnowsAppend ==
    ASSUME NEW q \in Seq(Event), NEW e \in Event, NEW c
    PROVE  LET r == Append(q, e)
               n == Len(q)
           IN  /\ n \in Nat /\ Len(r) = n + 1
               /\ DOMAIN q = 1 .. n /\ DOMAIN r = DOMAIN q \cup {n + 1}
               /\ r[n + 1] = e
               /\ \A k \in DOMAIN q : r[k] = q[k]
               /\ \A i : \A k \in 1 .. n + 1 : Knows(r, c, i, k) <=> Knows(q, c, i, k)
               /\ \A i : Knows(r, c, i, n + 2) <=>
                            \/ e = Added(i)
                            \/ e # Removed(i) /\ Knows(q, c, i, n + 1)
<1> DEFINE r == Append(q, e)
           n == Len(q)
<1>1. /\ n \in Nat /\ Len(r) = n + 1
      /\ DOMAIN q = 1 .. n /\ DOMAIN r = DOMAIN q \cup {n + 1}
      /\ r[n + 1] = e
      /\ \A k \in DOMAIN q : r[k] = q[k]
  OBVIOUS
<1> HIDE DEF r, n
<1>2. ASSUME NEW i, NEW k \in 1 .. n + 1 PROVE Knows(r, c, i, k) <=> Knows(q, c, i, k)
  <2>1. \A m \in DOMAIN r : m < k => m \in DOMAIN q /\ r[m] = q[m]
    BY <1>1
  <2>2. \A m \in DOMAIN q : m \in DOMAIN r
    BY <1>1
  <2> QED
    BY <2>1, <2>2 DEF Knows
<1>3. ASSUME NEW i PROVE Knows(r, c, i, n + 2) <=>
                            \/ e = Added(i)
                            \/ e # Removed(i) /\ Knows(q, c, i, n + 1)
  <2>1. Added(i) # Removed(i)
    BY DEF Added, Removed
  <2>2. n + 1 \in DOMAIN r /\ r[n + 1] = e /\ \A m \in DOMAIN r : m < n + 2 /\ ~(n + 1 < m) /\ m \in Nat
    BY <1>1
  <2>3. CASE e = Added(i)
    BY <2>2, <2>3 DEF Knows
  <2>4. CASE e = Removed(i)
    BY <2>1, <2>2, <2>4, <1>1 DEF Knows
  <2>5. CASE e # Added(i) /\ e # Removed(i)
    <3>1. \A m \in DOMAIN r : (m \in DOMAIN q /\ r[m] = q[m]) \/ r[m] = e
      BY <1>1
    <3>2. \A m \in DOMAIN q : m < n + 1 /\ m < n + 2 /\ m \in DOMAIN r /\ r[m] = q[m]
      BY <1>1
    <3> QED
      BY <3>1, <3>2, <2>5 DEF Knows
  <2> QED
    BY <2>3, <2>4, <2>5
<1> QED
  BY <1>1, <1>2, <1>3 DEF r, n

(* The first event taken: what comes after it is heard as before.          *)
LEMMA KnowsTail ==
    ASSUME NEW q \in Seq(Event), q # <<>>, NEW c, NEW d,
           d = IF Head(q).type = "added" THEN c \cup {Head(q).peer_id}
                                         ELSE c \ {Head(q).peer_id}
    PROVE  LET r == Tail(q)
               n == Len(q)
           IN  /\ n \in Nat \ {0} /\ Len(r) = n - 1
               /\ DOMAIN q = 1 .. n /\ DOMAIN r = 1 .. n - 1
               /\ \A k \in DOMAIN r : k \in Nat /\ r[k] = q[k + 1] /\ k + 1 \in DOMAIN q
               /\ \A i : \A k \in 1 .. n : Knows(r, d, i, k) <=> Knows(q, c, i, k + 1)
<1> DEFINE r == Tail(q)
           n == Len(q)
           e == Head(q)
<1>1. /\ n \in Nat \ {0} /\ Len(r) = n - 1
      /\ DOMAIN q = 1 .. n /\ DOMAIN r = 1 .. n - 1
      /\ \A k \in DOMAIN r : k \in Nat /\ r[k] = q[k + 1] /\ k + 1 \in DOMAIN q
      /\ \A k \in DOMAIN q : k # 1 => k - 1 \in DOMAIN r /\ r[k - 1] = q[k] /\ k \in Nat
      /\ 1 \in DOMAIN q /\ e = q[1] /\ e \in Event
  OBVIOUS
<1> HIDE DEF r, n, e
<1>2. /\ e.type \in {"added", "removed"}
      /\ e = [type |-> e.type, peer_id |-> e.peer_id]
      /\ d = IF e.type = "added" THEN c \cup {e.peer_id} ELSE c \ {e.peer_id}
  BY <1>1 DEF Event, e
<1>3. ASSUME NEW i, NEW k \in 1 .. n PROVE Knows(r, d, i, k) <=> Knows(q, c, i, k + 1)
  <2> k \in Nat
    BY <1>1
  <2>0. /\ e = Added(i) => i \in d
        /\ e = Removed(i) => i \notin d
        /\ e # Added(i) /\ e # Removed(i) => (i \in d <=> i \in c)
        /\ Added(i) # Removed(i)
    BY <1>2 DEF Added, Removed
  <2>1. ASSUME Knows(r, d, i, k) PROVE Knows(q, c, i, k + 1)
    <3>1. ASSUME NEW j \in DOMAIN r, j < k, r[j] = Added(i),
                 \A m \in DOMAIN r : j < m /\ m < k => r[m] # Removed(i)
          PROVE  Knows(q, c, i, k + 1)
      <4>1. j + 1 \in DOMAIN q /\ j + 1 < k + 1 /\ q[j + 1] = Added(i)
        BY <3>1, <1>1
      <4>2. ASSUME NEW m \in DOMAIN q, j + 1 < m, m < k + 1 PROVE q[m] # Removed(i)
        <5>1. m # 1 /\ m \in Nat /\ j < m - 1 /\ m - 1 < k
          BY <4>2, <1>1
        <5> QED
          BY <5>1, <3>1, <1>1
      <4> QED
        BY <4>1, <4>2 DEF Knows
    <3>2. ASSUME i \in d, \A m \in DOMAIN r : m < k => r[m] # Removed(i)
          PROVE  Knows(q, c, i, k + 1)
      <4>1. ASSUME NEW m \in DOMAIN q, m # 1, m < k + 1 PROVE q[m] # Removed(i)
        <5>1. m \in Nat /\ m - 1 < k
          BY <4>1, <1>1
        <5> QED
          BY <5>1, <4>1, <3>2, <1>1
      <4>2. CASE e = Added(i)
        <5>1. 1 \in DOMAIN q /\ 1 < k + 1 /\ q[1] = Added(i)
          BY <4>2, <1>1
        <5>2. \A m \in DOMAIN q : 1 < m /\ m < k + 1 => q[m] # Removed(i)
          BY <4>1
        <5> QED
          BY <5>1, <5>2 DEF Knows
      <4>3. CASE e # Added(i)
        <5>1. i \in c /\ q[1] # Removed(i)
          BY <4>3, <2>0, <3>2, <1>1
        <5>2. \A m \in DOMAIN q : m < k + 1 => q[m] # Removed(i)
          BY <4>1, <5>1
        <5> QED
          BY <5>1, <5>2 DEF Knows
      <4> QED
        BY <4>2, <4>3
    <3> QED
      BY <2>1, <3>1, <3>2 DEF Knows
  <2>2. ASSUME Knows(q, c, i, k + 1) PROVE Knows(r, d, i, k)
    <3>1. ASSUME NEW j \in DOMAIN q, j < k + 1, q[j] = Added(i),
                 \A m \in DOMAIN q : j < m /\ m < k + 1 => q[m] # Removed(i)
          PROVE  Knows(r, d, i, k)
      <4>0. ASSUME NEW m \in DOMAIN r, j - 1 < m, m < k PROVE r[m] # Removed(i)
        <5>1. m + 1 \in DOMAIN q /\ j < m + 1 /\ m + 1 < k + 1 /\ q[m + 1] = r[m]
          BY <4>0, <1>1
        <5> QED
          BY <5>1, <3>1
      <4>1. CASE j = 1
        <5>1. \A m \in DOMAIN r : m < k => r[m] # Removed(i)
          BY <4>0, <4>1, <1>1
        <5> QED
          BY <5>1, <4>1, <3>1, <1>1, <2>0 DEF Knows
      <4>2. CASE j # 1
        <5>1. j - 1 \in DOMAIN r /\ r[j - 1] = Added(i) /\ j - 1 < k
          BY <4>2, <3>1, <1>1
        <5> QED
          BY <5>1, <4>0 DEF Knows
      <4> QED
        BY <4>1, <4>2
    <3>2. ASSUME i \in c, \A m \in DOMAIN q : m < k + 1 => q[m] # Removed(i)
          PROVE  Knows(r, d, i, k)
      <4>1. e # Removed(i)
        BY <3>2, <1>1
      <4>2. i \in d
        BY <3>2, <4>1, <2>0
      <4>3. ASSUME NEW m \in DOMAIN r, m < k PROVE r[m] # Removed(i)
        <5>1. m + 1 \in DOMAIN q /\ m + 1 < k + 1 /\ q[m + 1] = r[m]
          BY <4>3, <1>1
        <5> QED
          BY <5>1, <3>2
      <4> QED
        BY <4>2, <4>3 DEF Knows
    <3> QED
      BY <2>2, <3>1, <3>2 DEF Knows
  <2> QED
    BY <2>1, <2>2
<1> QED
  BY <1>1, <1>3 DEF r, n

LEMMA ToldInitially ==
    ASSUME Init
    PROVE  ToldInv
<1>1. DOMAIN m_event_queue = {} /\ clients = {} /\ (\A p : ~Around(p))
  BY DEF Init, Around
<1>2. \A i, k : ~Knows(m_event_queue, clients, i, k) /\ ~AroundId(i)
  BY <1>1, AroundIds DEF Knows
<1> QED
  BY <1>1, <1>2 DEF ToldInv, KnownIsAround, OneAround, AroundIsKnown, EventsAreNews

(* Steps that tell nothing and put no event.                               *)
LEMMA SilentStep ==
    ASSUME ToldInv, UNCHANGED <<m_event_queue, clients, early>>,
           \A p \in Peer : Around(p)' => Around(p),
           \A i \in IdsOf(Peer) : AroundId(i)' => AroundId(i),
           destroyed' = destroyed => \A i \in IdsOf(Peer) : AroundId(i) => AroundId(i)',
           destroyed' = destroyed \/ destroyed'
    PROVE  ToldInv'
<1>1. KnownIsAround'
  BY DEF ToldInv, KnownIsAround
<1>2. OneAround'
  BY DEF ToldInv, OneAround
<1>3. AroundIsKnown'
  BY DEF ToldInv, AroundIsKnown
<1>4. EventsAreNews'
  BY DEF ToldInv, EventsAreNews
<1> QED
  BY <1>1, <1>2, <1>3, <1>4 DEF ToldInv

(* createPeer puts its event at the end of the queue.                      *)
LEMMA CreateTold ==
    ASSUME IInv, ToldInv, NEW t \in Thread, NEW p \in Peer, CreatePeer(t, p)
    PROVE  ToldInv'
<1> DEFINE q == m_event_queue
           n == Len(m_event_queue)
           e == Added(id[p])
<1>1. /\ q' = Append(q, e) /\ UNCHANGED <<clients, destroyed, pc, pointer>>
      /\ m_peers' = m_peers \cup {p} /\ id[p] \notin IdsOf(m_peers)
      /\ ~destroyed /\ NoteEarly(id[p])
  BY DEF CreatePeer, MayLock, Added
<1>2. e \in Event /\ q \in Seq(Event) /\ id[p] \in IdsOf(Peer) /\ e.peer_id = id[p] /\ e.type = "added"
  BY DEF Event, IdsOf, Added, IInv, TypeOK
<1>3. /\ n \in Nat /\ n' = n + 1
      /\ DOMAIN q = 1 .. n /\ DOMAIN q' = DOMAIN q \cup {n + 1}
      /\ q'[n + 1] = e
      /\ \A k \in DOMAIN q : q'[k] = q[k]
      /\ \A i : \A k \in 1 .. n + 1 : Knows(q', clients, i, k) <=> Knows(q, clients, i, k)
      /\ \A i : Knows(q', clients, i, n + 2) <=>
                   \/ e = Added(i)
                   \/ e # Removed(i) /\ Knows(q, clients, i, n + 1)
  BY <1>1, <1>2, KnowsAppend
<1>4. \A i : AroundId(i)' <=> AroundId(i) \/ i = id[p]
  BY <1>1 DEF AroundId, IdsOf, Untold
<1>5. \A r : Around(r)' => Around(r) \/ r = p
  BY <1>1 DEF Around
<1>6. \A i : i # id[p] => e # Added(i) /\ e # Removed(i)
  BY DEF Added, Removed
<1>7. n' + 1 = n + 2
  BY <1>3
<1>8. \A i : i # id[p] => (i \in early' <=> i \in early)
  BY <1>1 DEF NoteEarly
<1>9. id[p] \notin early' =>
         /\ ~AroundId(id[p]) /\ ~Knows(q, clients, id[p], n + 1)
         /\ id[p] \in early => \A k \in DOMAIN q : q[k].peer_id # id[p]
  <2>1. ASSUME id[p] \notin early' PROVE ~Untold(id[p])
    BY <2>1, <1>1 DEF NoteEarly
  <2>2. ASSUME id[p] \notin early', id[p] \in early PROVE \A k \in DOMAIN q : q[k].peer_id # id[p]
    BY <2>2, <1>1 DEF NoteEarly
  <2>3. ASSUME id[p] \notin early' PROVE ~AroundId(id[p])
    BY <2>1, <2>3, <1>1 DEF AroundId
  <2> QED
    BY <2>2, <2>3, <1>1, <1>2 DEF ToldInv, KnownIsAround
<1> HIDE DEF q, n, e
<1>11. KnownIsAround'
  BY <1>1, <1>3, <1>4, <1>6, <1>7 DEF ToldInv, KnownIsAround, q, n
<1>12. OneAround'
  <2>1. ASSUME NEW x \in Peer, NEW r \in Peer, id[x] \notin early', id[x] = id[r], Around(x)', Around(r)'
        PROVE  x = r
    <3>1. CASE id[x] = id[p]
      <4>1. ~Around(x) /\ ~Around(r)
        BY <2>1, <3>1, <1>9, AroundIds
      <4> QED
        BY <4>1, <2>1, <1>5
    <3>2. CASE id[x] # id[p]
      BY <2>1, <3>2, <1>5, <1>8 DEF ToldInv, OneAround
    <3> QED
      BY <3>1, <3>2
  <2> QED
    BY <2>1 DEF OneAround
<1>13. AroundIsKnown'
  <2>1. ASSUME NEW i \in IdsOf(Peer) \ early', AroundId(i)' PROVE Knows(q', clients, i, n + 2)
    <3>1. CASE i = id[p]
      BY <3>1, <1>3 DEF e
    <3>2. CASE i # id[p]
      BY <2>1, <3>2, <1>3, <1>4, <1>6, <1>8 DEF ToldInv, AroundIsKnown, q, n
    <3> QED
      BY <3>1, <3>2
  <2> QED
    BY <2>1, <1>1, <1>7 DEF AroundIsKnown, q, n
<1>14. EventsAreNews'
  <2>1. ASSUME NEW k \in DOMAIN q', NEW i \in IdsOf(Peer) \ early', q'[k].peer_id = i
        PROVE  q'[k].type = "added" <=> ~Knows(q', clients, i, k)
    <3>0. k \in 1 .. n + 1
      BY <1>3
    <3>1. CASE k = n + 1
      <4>1. i = id[p]
        BY <2>1, <3>1, <1>2, <1>3
      <4> QED
        BY <4>1, <3>0, <3>1, <2>1, <1>2, <1>3, <1>9
    <3>2. CASE k \in DOMAIN q
      <4>1. i \notin early
        BY <2>1, <3>2, <1>3, <1>8, <1>9
      <4> QED
        BY <4>1, <3>0, <3>2, <2>1, <1>3 DEF ToldInv, EventsAreNews, q
    <3> QED
      BY <3>1, <3>2, <1>3
  <2> QED
    BY <2>1, <1>1 DEF EventsAreNews, q
<1> QED
  BY <1>11, <1>12, <1>13, <1>14 DEF ToldInv

(* deletePeer puts its event, for an object it alone has at hand.          *)
LEMMA RemovedTold ==
    ASSUME IInv, ToldInv, NEW t \in Thread, PutRemovedEvent(t)
    PROVE  ToldInv'
<1>p. PICK p \in Peer : p = pointer[t]
  BY NoneAssumption DEF PutRemovedEvent, IInv, PointerInUse, TypeOK
<1> DEFINE q == m_event_queue
           n == Len(m_event_queue)
           e == Removed(id[p])
<1>1. /\ q' = Append(q, e) /\ UNCHANGED <<clients, destroyed, m_peers, early>>
      /\ pc[t] = "erased" /\ pc' = [pc EXCEPT ![t] = "dropping"]
      /\ pointer' = [pointer EXCEPT ![t] = p]
  BY <1>p DEF PutRemovedEvent, Goto, Removed
<1>2. e \in Event /\ q \in Seq(Event) /\ id[p] \in IdsOf(Peer) /\ e.peer_id = id[p] /\ e.type = "removed"
  BY DEF Event, IdsOf, Removed, IInv, TypeOK
<1>3. /\ n \in Nat /\ n' = n + 1
      /\ DOMAIN q = 1 .. n /\ DOMAIN q' = DOMAIN q \cup {n + 1}
      /\ q'[n + 1] = e
      /\ \A k \in DOMAIN q : q'[k] = q[k]
      /\ \A i : \A k \in 1 .. n + 1 : Knows(q', clients, i, k) <=> Knows(q, clients, i, k)
      /\ \A i : Knows(q', clients, i, n + 2) <=>
                   \/ e = Added(i)
                   \/ e # Removed(i) /\ Knows(q, clients, i, n + 1)
  BY <1>1, <1>2, KnowsAppend
<1>4. Around(p)
  BY <1>p, <1>1 DEF Around
<1>5. \A r \in Peer : Around(r)' => Around(r) /\ r # p
  BY <1>p, <1>1 DEF Around, IInv, ContainerSound, OwnersApart, Owns, TypeOK
<1>6. \A r \in Peer : r # p => (Around(r)' <=> Around(r))
  BY <1>p, <1>1 DEF Around, IInv, TypeOK
<1>7. \A i : i # id[p] => e # Added(i) /\ e # Removed(i)
  BY DEF Added, Removed
<1>8. n' + 1 = n + 2 /\ e # Added(id[p])
  BY <1>3 DEF Added, Removed
<1>9. \A r : Around(r) \/ Around(r)' => r \in Peer
  BY <1>1, NoneAssumption DEF Around, IInv, TypeOK, PointerInUse
<1>10. \A i : AroundId(i)' <=> \E r : Around(r)' /\ id[r] = i
  BY DEF AroundId, Around, IdsOf, Untold
<1>11. \A i : i # id[p] => (AroundId(i)' <=> AroundId(i))
  BY <1>6, <1>9, <1>10, AroundIds
<1>12. id[p] \notin early => ~AroundId(id[p])' /\ Knows(q, clients, id[p], n + 1)
  <2>1. ASSUME id[p] \notin early PROVE ~AroundId(id[p])'
    BY <2>1, <1>4, <1>5, <1>9, <1>10 DEF ToldInv, OneAround
  <2>2. AroundId(id[p])
    BY <1>4, AroundIds
  <2> QED
    BY <2>1, <2>2, <1>2 DEF ToldInv, AroundIsKnown
<1> HIDE DEF q, n, e
<1>21. KnownIsAround'
  <2>1. ASSUME ~destroyed, NEW i \in IdsOf(Peer), Knows(q', clients, i, n + 2) PROVE AroundId(i)'
    <3>1. i # id[p] /\ Knows(q, clients, i, n + 1)
      BY <2>1, <1>3, <1>7, <1>8 DEF e
    <3> QED
      BY <3>1, <2>1, <1>11 DEF ToldInv, KnownIsAround, q, n
  <2> QED
    BY <2>1, <1>1, <1>8 DEF KnownIsAround, q, n
<1>22. OneAround'
  BY <1>1, <1>5 DEF ToldInv, OneAround
<1>23. AroundIsKnown'
  <2>1. ASSUME NEW i \in IdsOf(Peer) \ early, AroundId(i)' PROVE Knows(q', clients, i, n + 2)
    <3>1. i # id[p]
      BY <2>1, <1>12
    <3> QED
      BY <2>1, <3>1, <1>3, <1>7, <1>11 DEF ToldInv, AroundIsKnown, q, n
  <2> QED
    BY <2>1, <1>1, <1>8 DEF AroundIsKnown, q, n
<1>24. EventsAreNews'
  <2>1. ASSUME NEW k \in DOMAIN q', NEW i \in IdsOf(Peer) \ early, q'[k].peer_id = i
        PROVE  q'[k].type = "added" <=> ~Knows(q', clients, i, k)
    <3>0. k \in 1 .. n + 1
      BY <1>3
    <3>1. CASE k = n + 1
      BY <3>0, <3>1, <2>1, <1>2, <1>3, <1>12
    <3>2. CASE k \in DOMAIN q
      BY <3>0, <3>2, <2>1, <1>3 DEF ToldInv, EventsAreNews, q
    <3> QED
      BY <3>1, <3>2, <1>3
  <2> QED
    BY <2>1, <1>1 DEF EventsAreNews, q
<1> QED
  BY <1>21, <1>22, <1>23, <1>24 DEF ToldInv

(* The user takes the first event.                                         *)
LEMMA ReceiveTold ==
    ASSUME IInv, ToldInv, Receive
    PROVE  ToldInv'
<1> DEFINE q == m_event_queue
           n == Len(m_event_queue)
<1>1. /\ q \in Seq(Event) /\ q # <<>> /\ q' = Tail(q)
      /\ clients' = IF Head(q).type = "added" THEN clients \cup {Head(q).peer_id}
                                              ELSE clients \ {Head(q).peer_id}
      /\ UNCHANGED <<m_peers, pc, pointer, early, destroyed>>
  BY DEF Receive, HandleEvent, IInv, TypeOK
<1>2. /\ n \in Nat \ {0} /\ n' = n - 1
      /\ DOMAIN q = 1 .. n /\ DOMAIN q' = 1 .. n - 1
      /\ \A k \in DOMAIN q' : k \in Nat /\ q'[k] = q[k + 1] /\ k + 1 \in DOMAIN q
      /\ \A i : \A k \in 1 .. n : Knows(q', clients', i, k) <=> Knows(q, clients, i, k + 1)
  BY <1>1, KnowsTail
<1>3. n' + 1 = n /\ n \in 1 .. n
  BY <1>2
<1>4. (\A r : Around(r)' <=> Around(r)) /\ (\A i : AroundId(i)' <=> AroundId(i))
  BY <1>1 DEF Around, AroundId, Untold
<1> HIDE DEF q, n
<1>5. KnownIsAround'
  BY <1>1, <1>2, <1>3, <1>4 DEF ToldInv, KnownIsAround, q, n
<1>6. OneAround'
  BY <1>1, <1>4 DEF ToldInv, OneAround
<1>7. AroundIsKnown'
  BY <1>1, <1>2, <1>3, <1>4 DEF ToldInv, AroundIsKnown, q, n
<1>8. EventsAreNews'
  <2>1. ASSUME NEW k \in DOMAIN q', NEW i \in IdsOf(Peer) \ early, q'[k].peer_id = i
        PROVE  q'[k].type = "added" <=> ~Knows(q', clients', i, k)
    <3>1. k \in 1 .. n /\ q'[k] = q[k + 1] /\ k + 1 \in DOMAIN q
      BY <1>2
    <3> QED
      BY <3>1, <2>1, <1>2 DEF ToldInv, EventsAreNews, q
  <2> QED
    BY <2>1, <1>1 DEF EventsAreNews, q
<1> QED
  BY <1>5, <1>6, <1>7, <1>8 DEF ToldInv

(* Each step keeps what the user hears in order. *)
LEMMA ToldStays ==
    ASSUME IInv, ToldInv, [Next]_vars
    PROVE  ToldInv'
<1>0. /\ pc \in [Thread -> {"idle", "found", "erased", "dropping", "deleting"}]
      /\ pointer \in [Thread -> Peer \cup {None}]
  BY DEF IInv, TypeOK
<1> DEFINE Silent ==
        /\ UNCHANGED <<m_event_queue, clients, early, destroyed>>
        /\ \A p \in Peer : Around(p)' => Around(p)
        /\ \A i \in IdsOf(Peer) : AroundId(i)' <=> AroundId(i)
<1>1. ASSUME NEW t \in Thread, NEW p \in Peer, CreatePeer(t, p) PROVE ToldInv'
  BY <1>1, CreateTold
<1>2. ASSUME NEW t \in Thread, PutRemovedEvent(t) PROVE ToldInv'
  BY <1>2, RemovedTold
<1>u. ASSUME UNCHANGED <<m_peers, userVars>>,
             NEW t \in Thread, NEW s, NEW x, pc[t] # "erased", s # "erased",
             UNCHANGED <<pc, pointer>> \/ Goto(t, s, x)
      PROVE  Silent
  <2>1. \A u \in Thread : pc'[u] = "erased" <=> pc[u] = "erased"
    BY <1>0, <1>u DEF Goto
  <2>2. \A u \in Thread : pc[u] = "erased" => pointer'[u] = pointer[u]
    BY <1>0, <1>u DEF Goto
  <2>3. UNCHANGED <<m_peers, m_event_queue, clients, early, destroyed>>
    BY <1>u DEF userVars
  <2> QED
    BY <2>1, <2>2, <2>3 DEF Around, AroundId, Untold
<1>s. Silent => ToldInv'
  BY SilentStep
<1> HIDE DEF Silent
<1>3. ASSUME NEW t \in Thread, NEW p \in Peer, NEW l \in Level, GetPeerNoEx(t, l, p) PROVE ToldInv'
  BY <1>3, <1>u, <1>s DEF GetPeerNoEx, MayLock
<1>4. ASSUME NEW t \in Thread, IncUseCount(t) PROVE ToldInv'
  BY <1>4, <1>u, <1>s DEF IncUseCount
<1>5. ASSUME NEW t \in Thread, NEW l \in Level, DecUseCount(t, l) PROVE ToldInv'
  <2>1. /\ pc[t] # "erased" /\ UNCHANGED <<m_peers, userVars>>
        /\ UNCHANGED <<pc, pointer>> \/ Goto(t, "deleting", helper[<<t, l>>])
    BY <1>5 DEF DecUseCount
  <2> QED
    BY <2>1, <1>u, <1>s
<1>6. ASSUME NEW t \in Thread, NEW p \in Peer, DeletePeer(t, p) PROVE ToldInv'
  <2>1. /\ pc[t] = "idle" /\ pc' = [pc EXCEPT ![t] = "erased"]
        /\ pointer' = [pointer EXCEPT ![t] = p]
        /\ p \in m_peers /\ m_peers' = m_peers \ {p}
        /\ UNCHANGED <<m_event_queue, clients, early, destroyed>>
    BY <1>6 DEF DeletePeer, MayLock, Goto, userVars
  <2>2. \A r : Around(r)' <=> Around(r)
    BY <1>0, <2>1 DEF Around
  <2>3. \A i : AroundId(i)' <=> \E r : Around(r)' /\ id[r] = i
    BY DEF AroundId, Around, IdsOf, Untold
  <2>4. \A i : AroundId(i)' <=> AroundId(i)
    BY <2>2, <2>3, AroundIds
  <2> QED
    BY <2>1, <2>2, <2>4, <1>s DEF Silent
<1>7. ASSUME NEW t \in Thread, Drop(t) PROVE ToldInv'
  <2>1. /\ pc[t] # "erased" /\ UNCHANGED <<m_peers, userVars>>
        /\ Goto(t, "idle", None) \/ Goto(t, "deleting", pointer[t])
    BY <1>7 DEF Drop
  <2> QED
    BY <2>1, <1>u, <1>s
<1>8. ASSUME NEW t \in Thread, DeleteObject(t) PROVE ToldInv'
  BY <1>8, <1>u, <1>s DEF DeleteObject
<1>9. CASE Receive
  BY <1>9, ReceiveTold
<1>10. CASE Destroy
  <2>1. UNCHANGED <<m_event_queue, clients, early, pc, pointer>> /\ m_peers' = {}
        /\ destroyed' = TRUE /\ destroyed = FALSE
    BY <1>10 DEF Destroy, IInv, TypeOK
  <2>2. (\A r : Around(r)' => Around(r)) /\ (\A i : AroundId(i)' => AroundId(i))
    BY <2>1 DEF Around, AroundId, Untold, IdsOf
  <2> QED
    BY <2>1, <2>2, SilentStep
<1>11. CASE UNCHANGED vars
  <2>1. UNCHANGED <<m_event_queue, clients, early, destroyed, m_peers, pc, pointer>>
    BY <1>11 DEF vars, userVars
  <2> QED
    BY <2>1, <1>s DEF Silent, Around, AroundId, Untold
<1> QED
  BY <1>1, <1>2, <1>3, <1>4, <1>5, <1>6, <1>7, <1>8, <1>9, <1>10, <1>11
  DEF Next, Step

LEMMA ToldInvariance == Spec => []ToldInv
<1>1. Init => ToldInv
  BY ToldInitially
<1>2. IInv /\ ToldInv /\ [Next]_vars => ToldInv'
  BY ToldStays
<1> QED
  BY <1>1, <1>2, Invariance, PTL DEF Spec

(* Whichever threads create and delete peers, and in whatever order they   *)
(* put their events (createPeer, deletePeer, ReceiveTimeoutMs): the user   *)
(* keeps no client of a peer that it is told the removal of; and of an id  *)
(* that is given anew only when the removal of its last owner is put,      *)
(* every event is news, and every peer has its client.                     *)
THEOREM ToldInOrderHolds == Spec => []ToldInOrder
<1>1. IInv /\ ToldInv => ToldInOrder
  <2> SUFFICES ASSUME IInv, ToldInv, ~destroyed PROVE NoClientForGood /\ ClientFitsPeer
    BY DEF ToldInOrder
  <2> DEFINE q == m_event_queue
             n == Len(m_event_queue)
  <2>1. /\ n \in Nat /\ DOMAIN q = 1 .. n /\ clients \subseteq IdsOf(Peer)
        /\ \A k \in DOMAIN q : q[k] \in Event
        /\ q # <<>> => Head(q) = q[1] /\ 1 \in DOMAIN q
        /\ DOMAIN q # {} => q # <<>>
    BY DEF IInv, TypeOK
  <2> HIDE DEF q, n
  <2>2. NoClientForGood
    <3>1. ASSUME NEW i \in clients, \A k \in DOMAIN q : q[k] # Removed(i) PROVE AroundId(i)
      <4>1. Knows(q, clients, i, n + 1)
        BY <3>1 DEF Knows
      <4> QED
        BY <4>1, <2>1 DEF ToldInv, KnownIsAround, q, n
    <3> QED
      BY <3>1 DEF NoClientForGood, AroundId, Removed, q
  <2>3. ClientFitsPeer
    <3>1. ASSUME NEW i \in IdsOf(Peer) \ early, NEW k \in DOMAIN q, q[k].peer_id = i,
                 Head(q).peer_id = i
          PROVE  Head(q).type = "added" <=> i \notin clients
      <4>1. 1 \in DOMAIN q /\ Head(q) = q[1] /\ \A m \in DOMAIN q : ~(m < 1)
        BY <2>1
      <4>2. Knows(q, clients, i, 1) <=> i \in clients
        BY <4>1 DEF Knows
      <4> QED
        BY <3>1, <4>1, <4>2 DEF ToldInv, EventsAreNews, q
    <3>2. ASSUME NEW i \in IdsOf(Peer) \ early, \A k \in DOMAIN q : q[k].peer_id # i,
                 i \in IdsOf(m_peers)
          PROVE  i \in clients
      <4>1. Knows(q, clients, i, n + 1)
        BY <3>2 DEF ToldInv, AroundIsKnown, AroundId, q, n
      <4>2. \A k \in DOMAIN q : q[k] # Added(i)
        BY <3>2 DEF Added
      <4> QED
        BY <4>1, <4>2 DEF Knows
    <3> QED
      BY <3>1, <3>2 DEF ClientFitsPeer, q
  <2> QED
    BY <2>2, <2>3
<1> QED
  BY <1>1, Invariance, ToldInvariance, PTL
=============================================================================
