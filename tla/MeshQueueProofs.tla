-------------------------- MODULE MeshQueueProofs --------------------------
(* Every mesh update holds its blocks exactly once, a held block is not    *)
(* unloaded, the results that come out of one queue are in order, and what *)
(* is drawn at last is what is there; and every block that is received is  *)
(* acknowledged exactly once: for any blocks, neighbours and number of     *)
(* worker threads, and any changes.                                        *)
EXTENDS MeshQueue, FiniteSetTheorems, TLAPS

(* A worker that makes a mesh, or has made one and has not said so. *)
Busy(w) == worker[w].pc \in {"work", "done"}

(* The updates that hold blocks: those queued, those under way, those made. *)
Results == ToSet(m_queue_out) \cup ToSet(m_queue_out_urgent)

(* What was read of a block is no newer than what is there: a block that   *)
(* is held does not go away, one that is not held was not read.            *)
NoNewer(data, holds) ==
    \A b \in DOMAIN data : data[b] <= IF b \in holds THEN world[b] ELSE Absent

ResultsSound ==
    \A r \in Results :
        /\ r.mesh \in [Reads(r.p) -> Version] /\ r.holds \subseteq Reads(r.p)
        /\ NoNewer(r.mesh, r.holds)

JobSound(w) ==
    /\ DOMAIN worker[w].data \subseteq Reads(worker[w].job.p)
    /\ worker[w].job.holds \subseteq Reads(worker[w].job.p)
    /\ NoNewer(worker[w].data, worker[w].job.holds)

JobsSound == \A w \in Jobs : JobSound(w)

QueueSound ==
    /\ \A i \in DOMAIN m_queue : m_queue[i].holds \subseteq Reads(m_queue[i].p)
    /\ \A i, j \in DOMAIN m_queue : m_queue[i].p = m_queue[j].p => i = j

(* No block is at two workers. *)
WorkersApart ==
    /\ \A w \in Worker : Busy(w) => worker[w].job.p \in m_inflight_blocks
    /\ \A v, w \in Worker : v # w /\ Busy(v) /\ Busy(w) => worker[v].job.p # worker[w].job.p

(* A later update of a block holds what the earlier ones do ... *)
HoldsGrow ==
    /\ \A i \in DOMAIN m_queue :
        /\ \A w \in Jobs : worker[w].job.p = m_queue[i].p =>
            worker[w].job.holds \subseteq m_queue[i].holds
        /\ \A r \in Results : r.p = m_queue[i].p => r.holds \subseteq m_queue[i].holds
    /\ \A w \in Jobs, r \in Results : worker[w].job.p = r.p => r.holds \subseteq worker[w].job.holds

(* ... and has read nothing older. *)
JobsNewer ==
    \A w \in Jobs, r \in Results :
        worker[w].job.p = r.p =>
            \A b \in DOMAIN worker[w].data : r.mesh[b] <= worker[w].data[b]

WorldBound == \A b \in Block : world[b] <= changes

IInv ==
    /\ TypeOK /\ WorldBound
    /\ QueueSound /\ JobsSound /\ ResultsSound
    /\ RefsExact
    /\ WorkersApart
    /\ HoldsGrow
    /\ JobsNewer
    /\ ResultsInOrder

-----------------------------------------------------------------------------
(* The elements of a sequence that hold a block, counted as it changes.    *)
LEMMA HoldersFinite ==
    ASSUME NEW S, NEW s \in Seq(S), NEW b
    PROVE  IsFiniteSet(Holders(s, b)) /\ Cardinality(Holders(s, b)) \in Nat
<1>1. Holders(s, b) \subseteq 1 .. Len(s) /\ Len(s) \in Nat
  BY DEF Holders
<1>2. IsFiniteSet(1 .. Len(s))
  BY <1>1, FS_Interval
<1>3. IsFiniteSet(Holders(s, b))
  BY <1>1, <1>2, FS_Subset
<1> QED
  BY <1>3, FS_CardinalityType

LEMMA HoldersAppend ==
    ASSUME NEW S, NEW s \in Seq(S), NEW e \in S, NEW b
    PROVE  Cardinality(Holders(Append(s, e), b)) =
                Cardinality(Holders(s, b)) + IF b \in e.holds THEN 1 ELSE 0
<1>1. IsFiniteSet(Holders(s, b)) /\ Cardinality(Holders(s, b)) \in Nat
  BY HoldersFinite
<1> DEFINE n == Len(s) + 1
<1>2. DOMAIN s = 1 .. Len(s) /\ DOMAIN Append(s, e) = 1 .. n /\ Len(s) \in Nat
  OBVIOUS
<1>3. Append(s, e)[n] = e /\ \A i \in DOMAIN s : Append(s, e)[i] = s[i]
  OBVIOUS
<1>4. n \notin Holders(s, b)
  BY <1>2 DEF Holders
<1>5. CASE b \in e.holds
  <2>1. Holders(Append(s, e), b) = Holders(s, b) \cup {n}
    BY <1>2, <1>3, <1>5 DEF Holders
  <2> QED
    BY <2>1, <1>1, <1>4, <1>5, FS_AddElement
<1>6. CASE b \notin e.holds
  <2>1. Holders(Append(s, e), b) = Holders(s, b)
    BY <1>2, <1>3, <1>6 DEF Holders
  <2> QED
    BY <2>1, <1>1, <1>6
<1> QED
  BY <1>5, <1>6

(* The positions after i move down by one. *)
LEMMA HoldersWithout ==
    ASSUME NEW S, NEW s \in Seq(S), NEW b
    PROVE  \A t \in Seq(S), i \in DOMAIN s :
             Len(t) = Len(s) - 1 /\ (\A j \in DOMAIN t : t[j] = s[IF j < i THEN j ELSE j + 1]) =>
               Cardinality(Holders(t, b)) = Cardinality(Holders(s, b)) - IF b \in s[i].holds THEN 1 ELSE 0
<1> SUFFICES ASSUME NEW t \in Seq(S), NEW i \in DOMAIN s, Len(t) = Len(s) - 1,
                    \A j \in DOMAIN t : t[j] = s[IF j < i THEN j ELSE j + 1]
             PROVE  Cardinality(Holders(t, b)) =
                        Cardinality(Holders(s, b)) - IF b \in s[i].holds THEN 1 ELSE 0
  OBVIOUS
<1>1. /\ IsFiniteSet(Holders(s, b)) /\ Cardinality(Holders(s, b)) \in Nat
      /\ IsFiniteSet(Holders(t, b))
  BY HoldersFinite
<1> DEFINE T == Holders(t, b)
           R == Holders(s, b) \ {i}
           f == [j \in T |-> IF j < i THEN j ELSE j + 1]
<1>2. DOMAIN s = 1 .. Len(s) /\ DOMAIN t = 1 .. Len(s) - 1 /\ Len(s) \in Nat /\ i \in Nat
  OBVIOUS
<1>3. f \in [T -> R]
  BY <1>2 DEF Holders
<1>4. \A j, k \in T : f[j] = f[k] => j = k
  BY <1>2 DEF Holders
<1>5. \A k \in R : \E j \in T : f[j] = k
  <2> SUFFICES ASSUME NEW k \in R PROVE \E j \in T : f[j] = k
    OBVIOUS
  <2>1. k \in 1 .. Len(s) /\ k # i /\ b \in s[k].holds
    BY <1>2 DEF Holders
  <2>2. CASE k < i
    <3>1. k \in DOMAIN t /\ t[k] = s[k]
      BY <2>1, <2>2, <1>2
    <3>2. k \in T /\ f[k] = k
      BY <3>1, <2>1, <2>2 DEF Holders
    <3> QED
      BY <3>2
  <2>3. CASE k > i
    <3>1. k - 1 \in DOMAIN t /\ ~(k - 1 < i) /\ (k - 1) + 1 = k
      BY <2>1, <2>3, <1>2
    <3>2. t[k - 1] = s[k]
      BY <3>1
    <3>3. k - 1 \in T
      BY <3>1, <3>2, <2>1 DEF Holders
    <3>4. f[k - 1] = k
      BY <3>1, <3>3
    <3> QED
      BY <3>3, <3>4
  <2> QED
    BY <2>1, <2>2, <2>3, <1>2
<1>6. f \in Bijection(T, R)
  BY <1>3, <1>4, <1>5 DEF Bijection, Injection, Surjection, IsInjective
<1>7. Cardinality(R) = Cardinality(T)
  BY <1>6, <1>1, FS_Bijection DEF ExistsBijection
<1>8. i \in Holders(s, b) <=> b \in s[i].holds
  BY DEF Holders
<1> DEFINE H == Holders(s, b)
<1> HIDE DEF H
<1>9. Cardinality(H \ {i}) = IF i \in H THEN Cardinality(H) - 1 ELSE Cardinality(H)
  BY <1>1, FS_RemoveElement DEF H
<1> QED
  BY <1>1, <1>7, <1>8, <1>9 DEF H

LEMMA TailIs ==
    ASSUME NEW S, NEW s \in Seq(S), s # <<>>
    PROVE  /\ 1 \in DOMAIN s /\ Head(s) = s[1]
           /\ Tail(s) \in Seq(S) /\ Len(Tail(s)) = Len(s) - 1
           /\ \A j \in DOMAIN Tail(s) : Tail(s)[j] = s[IF j < 1 THEN j ELSE j + 1]
OBVIOUS

LEMMA HoldersBehind ==
    ASSUME NEW S, NEW s \in Seq(S), 1 \in DOMAIN s, NEW b
    PROVE  Cardinality(Holders(Tail(s), b)) =
                Cardinality(Holders(s, b)) - IF b \in s[1].holds THEN 1 ELSE 0
<1>1. \A t \in Seq(S), i \in DOMAIN s :
        Len(t) = Len(s) - 1 /\ (\A j \in DOMAIN t : t[j] = s[IF j < i THEN j ELSE j + 1]) =>
          Cardinality(Holders(t, b)) = Cardinality(Holders(s, b)) - IF b \in s[i].holds THEN 1 ELSE 0
  BY HoldersWithout
<1>2. s # <<>>
  OBVIOUS
<1> QED
  BY <1>1, <1>2, TailIs

LEMMA HoldersTail ==
    ASSUME NEW S, NEW s \in Seq(S), s # <<>>, NEW b
    PROVE  Cardinality(Holders(Tail(s), b)) =
                Cardinality(Holders(s, b)) - IF b \in Head(s).holds THEN 1 ELSE 0
BY TailIs, HoldersBehind

(* A sequence after another. *)
LEMMA ConcatIs ==
    ASSUME NEW S, NEW s \in Seq(S), NEW t \in Seq(S)
    PROVE  /\ s \o t \in Seq(S) /\ Len(s \o t) = Len(s) + Len(t)
           /\ \A i \in 1 .. Len(s) : (s \o t)[i] = s[i]
           /\ \A i \in 1 .. Len(t) : (s \o t)[Len(s) + i] = t[i]
<1>1. s \o t \in Seq(S) /\ Len(s \o t) = Len(s) + Len(t)
  OBVIOUS
<1>2. /\ Len(s) \in Nat /\ Len(t) \in Nat
      /\ \A j \in 1 .. Len(s) + Len(t) :
           (s \o t)[j] = IF j <= Len(s) THEN s[j] ELSE t[j - Len(s)]
  OBVIOUS
<1>3. ASSUME NEW i \in 1 .. Len(s)
      PROVE  (s \o t)[i] = s[i]
  BY <1>2
<1>4. ASSUME NEW i \in 1 .. Len(t)
      PROVE  (s \o t)[Len(s) + i] = t[i]
  <2>1. /\ Len(s) + i \in 1 .. Len(s) + Len(t) /\ ~(Len(s) + i <= Len(s))
        /\ (Len(s) + i) - Len(s) = i
    BY <1>2
  <2> QED
    BY <1>2, <2>1
<1> QED
  BY <1>1, <1>3, <1>4

(* A position behind the i-th one, counted from there. *)
LEMMA SecondPart ==
    ASSUME NEW n \in Nat, NEW i \in 1 .. n, NEW j \in 1 .. n - 1, ~(j < i)
    PROVE  j - (i - 1) \in 1 .. n - i /\ (i - 1) + (j - (i - 1)) = j
OBVIOUS

(* RemoveAt(s, i) is s without its i-th element. *)
LEMMA RemoveAtIs ==
    ASSUME NEW S, NEW s \in Seq(S), NEW i \in DOMAIN s
    PROVE  /\ RemoveAt(s, i) \in Seq(S) /\ Len(RemoveAt(s, i)) = Len(s) - 1
           /\ \A j \in DOMAIN RemoveAt(s, i) :
                RemoveAt(s, i)[j] = s[IF j < i THEN j ELSE j + 1]
<1> DEFINE u == SubSeq(s, 1, i - 1)
           v == SubSeq(s, i + 1, Len(s))
<1>1. i \in 1 .. Len(s) /\ Len(s) \in Nat
  OBVIOUS
<1>2. u \in Seq(S) /\ Len(u) = i - 1 /\ \A j \in 1 .. i - 1 : u[j] = s[j]
  BY <1>1
<1>3. v \in Seq(S) /\ Len(v) = Len(s) - i /\ \A j \in 1 .. Len(s) - i : v[j] = s[i + j]
  BY <1>1
<1> HIDE DEF u, v
<1>4. u \o v \in Seq(S) /\ Len(u \o v) = Len(s) - 1
  BY <1>1, <1>2, <1>3
<1>7. u \in Seq(S) /\ v \in Seq(S)
  BY <1>2, <1>3
<1>8. Len(u) = i - 1 /\ Len(v) = Len(s) - i
  BY <1>2, <1>3
<1>5. \A j \in 1 .. Len(s) - 1 : (u \o v)[j] = IF j < i THEN u[j] ELSE v[j - (i - 1)]
  <2>1. /\ \A k \in 1 .. Len(u) : (u \o v)[k] = u[k]
        /\ \A k \in 1 .. Len(v) : (u \o v)[Len(u) + k] = v[k]
    BY <1>7, ConcatIs
  <2> TAKE j \in 1 .. Len(s) - 1
  <2>2. CASE j < i
    BY <2>1, <2>2, <1>1, <1>2
  <2>3. CASE ~(j < i)
    <3>1. j - (i - 1) \in 1 .. Len(s) - i /\ (i - 1) + (j - (i - 1)) = j
      BY <2>3, <1>1, SecondPart
    <3>2. j - (i - 1) \in 1 .. Len(v) /\ Len(u) + (j - (i - 1)) = j
      BY <3>1, <1>8
    <3> QED
      BY <2>1, <2>3, <3>2
  <2> QED
    BY <2>2, <2>3
<1>6. \A j \in 1 .. Len(s) - 1 : (u \o v)[j] = s[IF j < i THEN j ELSE j + 1]
  <2> TAKE j \in 1 .. Len(s) - 1
  <2>1. CASE j < i
    BY <2>1, <1>1, <1>2, <1>5
  <2>2. CASE ~(j < i)
    <3>1. j - (i - 1) \in 1 .. Len(s) - i /\ i + (j - (i - 1)) = j + 1
      BY <2>2, <1>1
    <3>2. v[j - (i - 1)] = s[j + 1]
      BY <3>1, <1>3
    <3> QED
      BY <3>2, <2>2, <1>5
  <2> QED
    BY <2>1, <2>2
<1>9. DOMAIN (u \o v) = 1 .. Len(s) - 1
  BY <1>4, <1>1
<1> QED
  BY <1>4, <1>6, <1>9 DEF RemoveAt, u, v

LEMMA HoldersRemoveAt ==
    ASSUME NEW S, NEW s \in Seq(S), NEW i \in DOMAIN s, NEW b
    PROVE  Cardinality(Holders(RemoveAt(s, i), b)) =
                Cardinality(Holders(s, b)) - IF b \in s[i].holds THEN 1 ELSE 0
<1> DEFINE t == RemoveAt(s, i)
<1>1. /\ t \in Seq(S) /\ Len(t) = Len(s) - 1
      /\ \A j \in DOMAIN t : t[j] = s[IF j < i THEN j ELSE j + 1]
  BY RemoveAtIs
<1> HIDE DEF t
<1>2. \A r \in Seq(S), k \in DOMAIN s :
        Len(r) = Len(s) - 1 /\ (\A j \in DOMAIN r : r[j] = s[IF j < k THEN j ELSE j + 1]) =>
          Cardinality(Holders(r, b)) = Cardinality(Holders(s, b)) - IF b \in s[k].holds THEN 1 ELSE 0
  BY HoldersWithout
<1>3. Cardinality(Holders(t, b)) = Cardinality(Holders(s, b)) - IF b \in s[i].holds THEN 1 ELSE 0
  BY <1>1, <1>2
<1> QED
  BY <1>3 DEF t

LEMMA HoldersReplace ==
    ASSUME NEW S, NEW s \in Seq(S), NEW i \in DOMAIN s, NEW e \in S, NEW b,
           s[i].holds \subseteq e.holds
    PROVE  Cardinality(Holders([s EXCEPT ![i] = e], b)) =
                Cardinality(Holders(s, b)) + IF b \in e.holds \ s[i].holds THEN 1 ELSE 0
<1>1. IsFiniteSet(Holders(s, b)) /\ Cardinality(Holders(s, b)) \in Nat
  BY HoldersFinite
<1>2. CASE b \in e.holds
  <2>1. Holders([s EXCEPT ![i] = e], b) = Holders(s, b) \cup {i}
    BY <1>2 DEF Holders
  <2>2. i \in Holders(s, b) <=> b \in s[i].holds
    BY DEF Holders
  <2> DEFINE H == Holders(s, b)
  <2>3. Cardinality(H \cup {i}) = IF i \in H THEN Cardinality(H) ELSE Cardinality(H) + 1
    <3> HIDE DEF H
    <3> QED
      BY <1>1, FS_AddElement DEF H
  <2> HIDE DEF H
  <2>4. Cardinality(H \cup {i}) = Cardinality(H) + IF b \in s[i].holds THEN 0 ELSE 1
    BY <2>2, <2>3, <1>1 DEF H
  <2> QED
    BY <2>1, <2>4, <1>2 DEF H
<1>3. CASE b \notin e.holds
  <2>1. Holders([s EXCEPT ![i] = e], b) = Holders(s, b)
    BY <1>3 DEF Holders
  <2> QED
    BY <2>1, <1>1, <1>3
<1> QED
  BY <1>2, <1>3

(* What is in a sequence after Append, Tail and RemoveAt. *)
LEMMA ToSetChanges ==
    ASSUME NEW S, NEW s \in Seq(S)
    PROVE  /\ \A e \in S : ToSet(Append(s, e)) = ToSet(s) \cup {e}
           /\ s # <<>> => ToSet(Tail(s)) \subseteq ToSet(s) /\ Head(s) \in ToSet(s)
           /\ ToSet(s) \subseteq S
<1>1. ASSUME NEW e \in S PROVE ToSet(Append(s, e)) = ToSet(s) \cup {e}
  <2>1. /\ DOMAIN Append(s, e) = DOMAIN s \cup {Len(s) + 1}
        /\ Append(s, e)[Len(s) + 1] = e /\ \A i \in DOMAIN s : Append(s, e)[i] = s[i]
    OBVIOUS
  <2> QED
    BY <2>1 DEF ToSet
<1>2. ASSUME s # <<>> PROVE ToSet(Tail(s)) \subseteq ToSet(s) /\ Head(s) \in ToSet(s)
  <2>1. \A i \in DOMAIN Tail(s) : i + 1 \in DOMAIN s /\ Tail(s)[i] = s[i + 1]
    BY <1>2
  <2>2. 1 \in DOMAIN s /\ Head(s) = s[1]
    BY <1>2
  <2> QED
    BY <2>1, <2>2 DEF ToSet
<1>3. ToSet(s) \subseteq S
  BY DEF ToSet
<1> QED
  BY <1>1, <1>2, <1>3

-----------------------------------------------------------------------------
(* Type correctness *)

LEMMA ReadsAreBlocks ==
    \A p \in Block : Reads(p) \subseteq Block /\ p \in Reads(p)
<1> SUFFICES ASSUME NEW p \in Block PROVE Reads(p) \subseteq Block /\ p \in Reads(p)
  OBVIOUS
<1>1. Neighbors[p] \in Seq(Block)
  BY NeighborsAssumption
<1>2. ToSet(Neighbors[p]) \subseteq Block
  BY <1>1, ToSetChanges
<1> QED
  BY <1>2 DEF Reads

LEMMA FunctionsAreData ==
    \A S \in SUBSET Block : \A f \in [S -> Version] : f \in Data
BY DEF Data

LEMMA NothingIsData == <<>> \in Data
<1>1. <<>> \in [{} -> Version]
  OBVIOUS
<1> QED
  BY <1>1, FunctionsAreData

(* A worker's record, and a result, made of well-typed parts. *)
LEMMA WorkerTypes ==
    ASSUME TypeOK, NEW w \in Worker
    PROVE  /\ worker[w].pc \in {"asleep", "pop", "work", "done"}
           /\ worker[w].job \in Update \cup {None}
           /\ Busy(w) => worker[w].job \in Update
           /\ worker[w].data \in Data
           /\ worker[w] = [pc |-> worker[w].pc, job |-> worker[w].job, data |-> worker[w].data]
BY DEF TypeOK, WorkerState, Busy

LEMMA ResultType ==
    ASSUME TypeOK
    PROVE  Results \subseteq Result
BY ToSetChanges DEF TypeOK, Results

LEMMA GrabType ==
    ASSUME TypeOK, NEW held, Grab(held) PROVE refs' \in [Block -> Nat]
BY DEF TypeOK, Grab

LEMMA RequestsType ==
    ASSUME NEW p \in Block, NEW ack \in BOOLEAN, NEW urgent \in BOOLEAN
    PROVE  WithEdge(p, ack, urgent) \in Adding
<1>1. Neighbors[p] \in Seq(Block)
  BY NeighborsAssumption
<1> DEFINE s == <<[p |-> p, ack |-> ack, urgent |-> urgent]>>
           t == [i \in DOMAIN Neighbors[p] |->
                    [p |-> Neighbors[p][i], ack |-> FALSE, urgent |-> urgent]]
<1>2. s \in Seq(Request)
  BY DEF Request
<1>3. t \in Seq(Request)
  <2>1. DOMAIN Neighbors[p] = 1 .. Len(Neighbors[p]) /\ Len(Neighbors[p]) \in Nat
    BY <1>1
  <2>2. t \in [1 .. Len(Neighbors[p]) -> Request]
    BY <1>1, <2>1 DEF Request
  <2> QED
    BY <2>1, <2>2
<1>4. s \o t \in Seq(Request)
  BY <1>2, <1>3
<1> QED
  BY <1>4 DEF WithEdge, Adding

LEMMA ChangeBlockType ==
    ASSUME TypeOK, NEW p \in Block, NEW ack \in BOOLEAN, NEW urgent \in BOOLEAN,
           ChangeBlock(p, ack, urgent)
    PROVE  TypeOK'
<1>1. changes + 1 \in Version
  BY BoundAssumption DEF ChangeBlock, TypeOK, Version
<1>2. world' \in [Block -> Version] /\ changes' \in Version
  BY <1>1 DEF ChangeBlock, TypeOK
<1>3. to_add' \in Adding
  BY RequestsType DEF ChangeBlock
<1> QED
  BY <1>2, <1>3 DEF ChangeBlock, TypeOK, queueVars, outVars

LEMMA UpdateTypes ==
    ASSUME NEW r \in Request
    PROVE  /\ NewUpdate(r) \in Update
           /\ \A q \in Update : q.p = r.p => Merged(q, r) \in Update
<1>1. Loaded \subseteq Block
  BY DEF Loaded
<1>2. NewUpdate(r) \in Update
  BY <1>1 DEF NewUpdate, Update, Request
<1>3. ASSUME NEW q \in Update, q.p = r.p PROVE Merged(q, r) \in Update
  <2> DEFINE acks == q.acks + (IF r.ack THEN 1 ELSE 0)
             urgent == q.urgent \/ r.urgent
             holds == q.holds \cup (Reads(r.p) \cap Loaded)
  <2>1. acks \in Nat /\ urgent \in BOOLEAN /\ holds \subseteq Block
    BY <1>1 DEF Update, Request
  <2>2. Merged(q, r) = [q EXCEPT !.acks = acks, !.urgent = urgent, !.holds = holds]
    BY DEF Merged
  <2> HIDE DEF acks, urgent, holds
  <2> QED
    BY <2>1, <2>2 DEF Update
<1> QED
  BY <1>2, <1>3

LEMMA AddBlockType ==
    ASSUME TypeOK, AddBlock
    PROVE  TypeOK'
<1> DEFINE r == Head(to_add.requests)
           queued == {i \in DOMAIN m_queue : m_queue[i].p = r.p}
<1>1. r \in Request /\ Tail(to_add.requests) \in Seq(Request)
  BY DEF AddBlock, TypeOK, Adding
<1>2. to_add' \in Adding
  <2>1. to_add' = [to_add EXCEPT !.requests = Tail(to_add.requests)]
    BY DEF AddBlock
  <2> QED
    BY <2>1, <1>1 DEF TypeOK, Adding
<1>3. m_urgents' = m_urgents \cup {p \in {r.p} \cap Loaded : r.urgent}
  BY DEF AddBlock, MarkUrgent
<1>4. /\ m_queue' \in Seq(Update) /\ refs' \in [Block -> Nat]
      /\ m_urgents' \subseteq {m_queue'[i].p : i \in DOMAIN m_queue'}
  <2>1. CASE world[r.p] = Absent /\ UNCHANGED <<m_queue, refs>>
    BY <1>3, <2>1 DEF TypeOK, Loaded
  <2>2. CASE /\ world[r.p] # Absent /\ queued = {}
             /\ m_queue' = Append(m_queue, NewUpdate(r))
             /\ Grab(Reads(r.p) \cap Loaded)
    <3>1. NewUpdate(r) \in Update /\ NewUpdate(r).p = r.p
      BY <1>1, UpdateTypes DEF NewUpdate
    <3>2. /\ DOMAIN m_queue' = DOMAIN m_queue \cup {Len(m_queue) + 1}
          /\ m_queue'[Len(m_queue) + 1] = NewUpdate(r)
          /\ \A i \in DOMAIN m_queue : m_queue'[i] = m_queue[i]
      BY <2>2, <3>1 DEF TypeOK
    <3> QED
      BY <1>3, <2>2, <3>1, <3>2, GrabType DEF TypeOK
  <2>3. ASSUME NEW i \in queued, m_queue' = [m_queue EXCEPT ![i] = Merged(@, r)],
               Grab((Reads(r.p) \cap Loaded) \ m_queue[i].holds)
        PROVE  <1>4!:
    <3>1. Merged(m_queue[i], r) \in Update /\ Merged(m_queue[i], r).p = r.p
      <4>1. m_queue[i] \in Update /\ m_queue[i].p = r.p
        BY DEF TypeOK
      <4> QED
        BY <4>1, <1>1, UpdateTypes DEF Merged, Update
    <3>2. DOMAIN m_queue' = DOMAIN m_queue /\ \A j \in DOMAIN m_queue : m_queue'[j].p = m_queue[j].p
      BY <2>3, <3>1 DEF TypeOK
    <3>3. m_queue' \in Seq(Update)
      BY <2>3, <3>1 DEF TypeOK
    <3>4. refs' \in [Block -> Nat]
      BY <2>3, GrabType
    <3>5. \A p \in m_urgents' : \E j \in DOMAIN m_queue' : m_queue'[j].p = p
      <4>1. \A p \in m_urgents : \E j \in DOMAIN m_queue : m_queue[j].p = p
        BY DEF TypeOK
      <4>2. i \in DOMAIN m_queue /\ m_queue[i].p = r.p
        OBVIOUS
      <4> QED
        BY <4>1, <4>2, <1>3, <3>2
    <3> QED
      BY <3>3, <3>4, <3>5
  <2> QED
    BY <2>1, <2>2, <2>3 DEF AddBlock
<1> QED
  BY <1>2, <1>4 DEF AddBlock, TypeOK, outVars


-----------------------------------------------------------------------------
(* What an update holds is counted, so it is loaded. *)
LEMMA CountsFinite ==
    ASSUME TypeOK, NEW b
    PROVE  /\ IsFiniteSet(Holders(m_queue, b)) /\ IsFiniteSet(HoldingJobs(b))
           /\ IsFiniteSet(Holders(m_queue_out, b)) /\ IsFiniteSet(Holders(m_queue_out_urgent, b))
           /\ Cardinality(Holders(m_queue, b)) \in Nat /\ Cardinality(HoldingJobs(b)) \in Nat
           /\ Cardinality(Holders(m_queue_out, b)) \in Nat
           /\ Cardinality(Holders(m_queue_out_urgent, b)) \in Nat
<1>1. m_queue \in Seq(Update) /\ m_queue_out \in Seq(Result) /\ m_queue_out_urgent \in Seq(Result)
  BY DEF TypeOK
<1>2. HoldingJobs(b) \subseteq Worker
  BY DEF HoldingJobs, Jobs
<1>3. IsFiniteSet(HoldingJobs(b)) /\ Cardinality(HoldingJobs(b)) \in Nat
  BY <1>2, WorkerAssumption, FS_Subset, FS_CardinalityType
<1> QED
  BY <1>1, <1>3, HoldersFinite

LEMMA HeldIsLoaded ==
    ASSUME TypeOK, RefsExact
    PROVE  /\ \A i \in DOMAIN m_queue : \A b \in m_queue[i].holds : b \in Loaded /\ refs[b] > 0
           /\ \A w \in Jobs : \A b \in worker[w].job.holds : b \in Loaded /\ refs[b] > 0
           /\ \A r \in Results : \A b \in r.holds : b \in Loaded /\ refs[b] > 0
<1>1. ASSUME NEW b \in Block,
             \/ Holders(m_queue, b) # {} \/ HoldingJobs(b) # {}
             \/ Holders(m_queue_out, b) # {} \/ Holders(m_queue_out_urgent, b) # {}
      PROVE  b \in Loaded /\ refs[b] > 0
  <2>1. Holding(b) # 0
    BY <1>1, CountsFinite, FS_EmptySet DEF Holding
  <2>2. refs[b] = Holding(b) /\ refs[b] \in Nat /\ (refs[b] > 0 => world[b] # Absent)
    BY DEF RefsExact, TypeOK
  <2> QED
    BY <2>1, <2>2 DEF Loaded
<1>2. ASSUME NEW i \in DOMAIN m_queue, NEW b \in m_queue[i].holds PROVE b \in Loaded /\ refs[b] > 0
  <2>1. m_queue[i] \in Update
    BY DEF TypeOK
  <2>2. b \in Block /\ i \in Holders(m_queue, b)
    BY <2>1 DEF Update, Holders
  <2> QED
    BY <2>2, <1>1
<1>3. ASSUME NEW w \in Jobs, NEW b \in worker[w].job.holds PROVE b \in Loaded /\ refs[b] > 0
  <2>1. b \in Block /\ w \in HoldingJobs(b)
    BY DEF TypeOK, Update, HoldingJobs, Jobs
  <2> QED
    BY <2>1, <1>1
<1>4. ASSUME NEW r \in Results, NEW b \in r.holds PROVE b \in Loaded /\ refs[b] > 0
  <2>1. b \in Block
    BY ResultType DEF Result
  <2>2. Holders(m_queue_out, b) # {} \/ Holders(m_queue_out_urgent, b) # {}
    BY DEF Results, ToSet, Holders
  <2> QED
    BY <2>1, <2>2, <1>1
<1> QED
  BY <1>2, <1>3, <1>4

-----------------------------------------------------------------------------
LEMMA ShowType ==
    ASSUME TypeOK, ResultsSound, RefsExact, NEW r \in Results, Show(r)
    PROVE  /\ refs' \in [Block -> Nat]
           /\ shown' \in [Block -> Data \cup {None}]
           /\ \A p \in Block : shown'[p] \in [Reads(p) -> Version] \cup {None}
           /\ blocks_to_ack' \in [Block -> Nat]
           /\ draining' = "urgent"
<1>1. r \in Result /\ r.mesh \in [Reads(r.p) -> Version]
  BY ResultType DEF ResultsSound
<1>2. \A b \in r.holds : refs[b] > 0
  BY HeldIsLoaded
<1>3. refs' \in [Block -> Nat]
  BY <1>2 DEF Show, TypeOK
<1>4. \A p \in Block : shown'[p] \in [Reads(p) -> Version] \cup {None}
  BY <1>1 DEF Show, TypeOK
<1>5. shown' \in [Block -> Data \cup {None}]
  BY <1>1 DEF Show, TypeOK, Result
<1> QED
  BY <1>1, <1>3, <1>4, <1>5 DEF Show, TypeOK, Result

LEMMA TakeType ==
    ASSUME TypeOK, ResultsSound, RefsExact, TakeUrgent \/ TakeNormal
    PROVE  TypeOK'
<1>1. CASE TakeUrgent
  <2> DEFINE r == Head(m_queue_out_urgent)
  <2>1. r \in Results /\ Tail(m_queue_out_urgent) \in Seq(Result)
    BY <1>1, ToSetChanges DEF TakeUrgent, Results, TypeOK
  <2>2. Show(r) /\ overtaken' \subseteq overtaken \cup {r.p} /\ r.p \in Block
    BY <1>1, <2>1, ResultType DEF TakeUrgent, Overtake, Result
  <2> QED
    BY <1>1, <2>1, <2>2, ShowType DEF TakeUrgent, TypeOK, queueVars
<1>2. CASE TakeNormal
  <2> DEFINE r == Head(m_queue_out)
  <2>1. r \in Results /\ Tail(m_queue_out) \in Seq(Result)
    BY <1>2, ToSetChanges DEF TakeNormal, Results, TypeOK
  <2>2. Show(r) /\ overtaken' \subseteq overtaken \cup {r.p} /\ r.p \in Block
    BY <1>2, <2>1, ResultType DEF TakeNormal, Overtake, Result
  <2> QED
    BY <1>2, <2>1, <2>2, ShowType DEF TakeNormal, TypeOK, queueVars
<1> QED
  BY <1>1, <1>2

LEMMA PopType ==
    ASSUME TypeOK, NEW w \in Worker, Pop(w)
    PROVE  TypeOK'
<1>1. PICK i \in DOMAIN m_queue :
        /\ m_queue' = RemoveAt(m_queue, i)
        /\ m_urgents' = m_urgents \ {m_queue[i].p}
        /\ m_inflight_blocks' = m_inflight_blocks \cup {m_queue[i].p}
        /\ worker' = [worker EXCEPT ![w] = [pc |-> "work", job |-> m_queue[i], data |-> <<>>]]
  BY DEF Pop, Poppable
<1>2. /\ m_queue' \in Seq(Update) /\ Len(m_queue') = Len(m_queue) - 1
      /\ \A j \in DOMAIN m_queue' : m_queue'[j] = m_queue[IF j < i THEN j ELSE j + 1]
  BY <1>1, RemoveAtIs DEF TypeOK
<1>3. m_queue[i] \in Update
  BY DEF TypeOK
<1>4. \A p \in m_urgents' : \E j \in DOMAIN m_queue' : m_queue'[j].p = p
  <2> SUFFICES ASSUME NEW p \in m_urgents' PROVE \E j \in DOMAIN m_queue' : m_queue'[j].p = p
    OBVIOUS
  <2>1. PICK k \in DOMAIN m_queue : m_queue[k].p = p /\ k # i
    BY <1>1 DEF TypeOK
  <2>2. /\ DOMAIN m_queue = 1 .. Len(m_queue) /\ DOMAIN m_queue' = 1 .. Len(m_queue) - 1
        /\ Len(m_queue) \in Nat
    BY <1>2 DEF TypeOK
  <2>3. CASE k < i
    BY <2>1, <2>2, <2>3, <1>2
  <2>4. CASE k > i
    <3>1. k - 1 \in DOMAIN m_queue' /\ ~(k - 1 < i) /\ (k - 1) + 1 = k
      BY <2>2, <2>4
    <3> QED
      BY <2>1, <3>1, <1>2
  <2> QED
    BY <2>1, <2>2, <2>3, <2>4
<1>5. [pc |-> "work", job |-> m_queue[i], data |-> <<>>] \in WorkerState
  BY <1>3, NothingIsData DEF WorkerState
<1>6. worker' \in [Worker -> WorkerState] /\ \A v \in Worker : Busy(v)' => worker'[v].job \in Update
  BY <1>1, <1>3, <1>5 DEF TypeOK, Busy
<1>7. \A v \in Worker : worker'[v].pc \in {"work", "done"} => worker'[v].job \in Update
  BY <1>6 DEF Busy
<1>8. m_urgents' \subseteq {m_queue'[j].p : j \in DOMAIN m_queue'}
  BY <1>4
<1>9. m_inflight_blocks' \subseteq Block
  BY <1>1, <1>3 DEF TypeOK, Update
<1> QED
  BY <1>2, <1>6, <1>7, <1>8, <1>9 DEF Pop, TypeOK, mainVars, outVars

LEMMA FillType ==
    ASSUME TypeOK, NEW w \in Worker, FillBlockData(w)
    PROVE  /\ TypeOK'
           /\ \E b \in Unread(w) :
                worker' = [worker EXCEPT ![w] = [worker[w] EXCEPT !.data = ReadBlock(w, b)]]
<1>1. PICK b \in Unread(w) :
        worker' = [worker EXCEPT ![w] = [worker[w] EXCEPT !.data = ReadBlock(w, b)]]
  BY DEF FillBlockData
<1>2. worker[w].job \in Update /\ worker[w].data \in Data
  BY WorkerTypes DEF FillBlockData, Busy
<1>3. b \in Block
  BY <1>2, ReadsAreBlocks DEF Unread, Update
<1>4. PICK S \in SUBSET Block : worker[w].data \in [S -> Version]
  BY <1>2 DEF Data
<1>5. ReadBlock(w, b) \in [S \cup {b} -> Version]
  BY <1>3, <1>4, BoundAssumption DEF ReadBlock, TypeOK, Version, Absent
<1>6. ReadBlock(w, b) \in Data
  <2>1. S \cup {b} \in SUBSET Block
    BY <1>3
  <2> QED
    BY <1>5, <2>1, FunctionsAreData
<1>7. [worker[w] EXCEPT !.data = ReadBlock(w, b)] \in WorkerState
  BY <1>6 DEF TypeOK, WorkerState
<1>8. worker' \in [Worker -> WorkerState] /\ \A v \in Worker : Busy(v)' => worker'[v].job \in Update
  BY <1>1, <1>2, <1>7 DEF TypeOK, WorkerState, Busy
<1>9. TypeOK'
  BY <1>8 DEF FillBlockData, TypeOK, Busy, mainVars, queueVars, outVars
<1> QED
  BY <1>1, <1>9

LEMMA PutType ==
    ASSUME TypeOK, JobsSound, NEW w \in Worker, PutResult(w)
    PROVE  /\ TypeOK' /\ ResultOf(w) \in Result
           /\ worker[w].data \in [Reads(worker[w].job.p) -> Version]
<1>1. worker[w].job \in Update /\ worker[w].data \in Data
  BY WorkerTypes DEF PutResult, Busy
<1>2. DOMAIN worker[w].data = Reads(worker[w].job.p)
  BY DEF PutResult, Unread, JobsSound, JobSound, Jobs
<1>3. worker[w].data \in [Reads(worker[w].job.p) -> Version]
  BY <1>1, <1>2 DEF Data
<1>4. ResultOf(w) \in Result
  BY <1>1 DEF ResultOf, Update, Result
<1>5. m_queue_out' \in Seq(Result) /\ m_queue_out_urgent' \in Seq(Result)
  <2>1. Append(m_queue_out, ResultOf(w)) \in Seq(Result)
        /\ Append(m_queue_out_urgent, ResultOf(w)) \in Seq(Result)
    BY <1>4 DEF TypeOK
  <2> QED
    BY <2>1 DEF PutResult, TypeOK
<1>6. [worker[w] EXCEPT !.pc = "done", !.data = <<>>] \in WorkerState
  BY NothingIsData DEF TypeOK, WorkerState
<1>7. worker' \in [Worker -> WorkerState] /\ \A v \in Worker : Busy(v)' => worker'[v].job \in Update
  BY <1>1, <1>6 DEF PutResult, TypeOK, WorkerState, Busy
<1>8. TypeOK'
  BY <1>5, <1>7 DEF PutResult, TypeOK, Busy, mainVars, queueVars
<1> QED
  BY <1>3, <1>4, <1>8

LEMMA QuietType ==
    ASSUME TypeOK,
           \/ DeferUpdate \/ StartDraining \/ NoUrgent \/ SendGotBlocks \/ UNCHANGED vars
           \/ \E p \in Block : Unload(p)
           \/ \E w \in Worker : WakeUp(w) \/ FindNothing(w) \/ Done(w)
    PROVE  TypeOK'
<1>1. CASE DeferUpdate
  <2>1. to_add' \in Adding /\ m_update_sem' = Worker
    BY <1>1 DEF DeferUpdate, TypeOK, Adding
  <2>2. /\ UNCHANGED <<world, refs, shown, draining, blocks_to_ack, changes, overtaken>>
        /\ UNCHANGED <<acknowledged, m_queue, m_urgents, m_inflight_blocks, worker>>
        /\ UNCHANGED <<m_queue_out, m_queue_out_urgent>>
    BY <1>1 DEF DeferUpdate, queueVars, outVars
  <2> QED
    BY <2>1, <2>2 DEF TypeOK
<1>2. CASE StartDraining
  BY <1>2 DEF StartDraining, TypeOK, queueVars, outVars
<1>3. CASE NoUrgent
  BY <1>3 DEF NoUrgent, TypeOK, queueVars, outVars
<1>4. CASE SendGotBlocks
  BY <1>4 DEF SendGotBlocks, TypeOK, queueVars, outVars
<1>5. CASE UNCHANGED vars
  BY <1>5 DEF vars, TypeOK, mainVars, queueVars, outVars
<1>6. ASSUME NEW p \in Block, Unload(p) PROVE TypeOK'
  <2>1. Absent \in Version
    BY BoundAssumption DEF Absent, Version
  <2> QED
    BY <1>6, <2>1 DEF Unload, TypeOK, queueVars, outVars
<1>7. ASSUME NEW w \in Worker, WakeUp(w) \/ FindNothing(w) PROVE TypeOK'
  <2>1. PICK pc \in {"pop", "asleep"} :
            worker' = [worker EXCEPT ![w] = [worker[w] EXCEPT !.pc = pc]]
    BY <1>7 DEF WakeUp, FindNothing, SetPc
  <2>2. [worker[w] EXCEPT !.pc = pc] \in WorkerState /\ [worker[w] EXCEPT !.pc = pc].pc = pc
    BY DEF TypeOK, WorkerState
  <2>3. worker' \in [Worker -> WorkerState]
        /\ \A v \in Worker : worker'[v].pc \in {"work", "done"} => worker'[v].job \in Update
    BY <2>1, <2>2 DEF TypeOK
  <2>4. /\ UNCHANGED <<world, refs, shown, to_add, draining, blocks_to_ack, changes>>
        /\ UNCHANGED <<overtaken, acknowledged, m_queue, m_urgents, m_inflight_blocks>>
        /\ UNCHANGED <<m_queue_out, m_queue_out_urgent>> /\ m_update_sem' \subseteq m_update_sem
    BY <1>7 DEF WakeUp, FindNothing, mainVars, queueVars, outVars
  <2> QED
    BY <2>3, <2>4 DEF TypeOK
<1>8. ASSUME NEW w \in Worker, Done(w) PROVE TypeOK'
  <2>1. worker' = [worker EXCEPT ![w] = [worker[w] EXCEPT !.pc = "pop", !.job = None]]
    BY <1>8 DEF Done
  <2>2. [worker[w] EXCEPT !.pc = "pop", !.job = None] \in WorkerState
        /\ [worker[w] EXCEPT !.pc = "pop", !.job = None].pc = "pop"
    BY DEF TypeOK, WorkerState
  <2>3. worker' \in [Worker -> WorkerState]
        /\ \A v \in Worker : worker'[v].pc \in {"work", "done"} => worker'[v].job \in Update
    BY <2>1, <2>2 DEF TypeOK
  <2>4. m_inflight_blocks' \subseteq Block
    BY <1>8 DEF Done, TypeOK
  <2>5. /\ UNCHANGED <<world, refs, shown, to_add, draining, blocks_to_ack, changes>>
        /\ UNCHANGED <<overtaken, acknowledged, m_queue, m_urgents, m_queue_out>>
        /\ UNCHANGED <<m_queue_out_urgent, m_update_sem>>
    BY <1>8 DEF Done, mainVars, outVars
  <2> QED
    BY <2>3, <2>4, <2>5 DEF TypeOK
<1> QED
  BY <1>1, <1>2, <1>3, <1>4, <1>5, <1>6, <1>7, <1>8

-----------------------------------------------------------------------------
(* Steps that leave the updates and the blocks alone *)
LEMMA QuietStep ==
    ASSUME IInv, TypeOK',
           UNCHANGED <<world, refs, changes, m_queue, m_inflight_blocks, outVars>>,
           \A w \in Worker : /\ Busy(w)' <=> Busy(w)
                             /\ Busy(w) => worker'[w] = worker[w]
    PROVE  IInv'
<1>1. Jobs' = Jobs /\ \A w \in Jobs : worker'[w] = worker[w]
  BY DEF Jobs, Busy
<1>2. Results' = Results
  BY DEF Results, outVars
<1>3. WorldBound' /\ QueueSound'
  BY DEF IInv, WorldBound, QueueSound
<1>4. JobsSound'
  BY <1>1 DEF IInv, JobsSound, JobSound, NoNewer
<1>5. ResultsSound'
  BY <1>2 DEF IInv, ResultsSound, NoNewer
<1>6. RefsExact'
  <2> SUFFICES ASSUME NEW b \in Block PROVE HoldingJobs(b)' = HoldingJobs(b)
    BY DEF IInv, RefsExact, Holding, Holders, outVars
  <2> QED
    BY <1>1 DEF HoldingJobs
<1>7. WorkersApart'
  BY DEF IInv, WorkersApart
<1>8. HoldsGrow'
  BY <1>1, <1>2 DEF IInv, HoldsGrow
<1>9. JobsNewer'
  BY <1>1, <1>2 DEF IInv, JobsNewer
<1>10. ResultsInOrder'
  BY DEF IInv, ResultsInOrder, outVars
<1> QED
  BY <1>3, <1>4, <1>5, <1>6, <1>7, <1>8, <1>9, <1>10 DEF IInv

(* ... and steps that change blocks, of which none is held and unloaded. *)
LEMMA WorldStep ==
    ASSUME IInv, TypeOK', WorldBound',
           UNCHANGED <<refs, queueVars, outVars, worker>>,
           \A b \in Block : refs[b] > 0 => world[b] <= world'[b] /\ world'[b] # Absent
    PROVE  IInv'
<1> USE DEF IInv
<1>1. Jobs' = Jobs /\ Results' = Results /\ \A w \in Worker : Busy(w)' <=> Busy(w)
  BY DEF Jobs, Results, outVars, Busy
<1>2. \A b \in Block : world[b] \in Nat /\ world'[b] \in Nat
  BY BoundAssumption DEF TypeOK, Version
<1>3. ASSUME NEW data \in Data, NEW holds \in SUBSET Block, NoNewer(data, holds),
             \A b \in holds : refs[b] > 0
      PROVE  \A b \in DOMAIN data : data[b] <= IF b \in holds THEN world'[b] ELSE Absent
  <2> SUFFICES ASSUME NEW b \in DOMAIN data
               PROVE  data[b] <= IF b \in holds THEN world'[b] ELSE Absent
    OBVIOUS
  <2>1. data[b] \in Nat /\ b \in Block
    BY BoundAssumption DEF Data, Version
  <2>2. data[b] <= IF b \in holds THEN world[b] ELSE Absent
    BY <1>3 DEF NoNewer
  <2>3. b \in holds => world[b] <= world'[b]
    BY <1>3, <2>1
  <2> QED
    BY <2>1, <2>2, <2>3, <1>2
<1>4. QueueSound' /\ WorkersApart' /\ HoldsGrow' /\ JobsNewer' /\ ResultsInOrder'
  BY <1>1 DEF QueueSound, WorkersApart, HoldsGrow, JobsNewer, ResultsInOrder, queueVars, outVars
<1>5. JobsSound'
  <2> SUFFICES ASSUME NEW w \in Jobs PROVE NoNewer(worker[w].data, worker[w].job.holds)'
    BY <1>1 DEF JobsSound, JobSound
  <2>1. worker[w].data \in Data /\ worker[w].job.holds \in SUBSET Block
    BY WorkerTypes DEF Jobs, Busy, Update
  <2>2. \A b \in worker[w].job.holds : refs[b] > 0
    BY HeldIsLoaded
  <2>3. NoNewer(worker[w].data, worker[w].job.holds)
    BY DEF JobsSound, JobSound
  <2>4. \A b \in DOMAIN worker[w].data :
            worker[w].data[b] <= IF b \in worker[w].job.holds THEN world'[b] ELSE Absent
    BY <2>1, <2>2, <2>3, <1>3
  <2> QED
    BY <2>4 DEF NoNewer
<1>6. ResultsSound'
  <2> SUFFICES ASSUME NEW r \in Results PROVE NoNewer(r.mesh, r.holds)'
    BY <1>1 DEF ResultsSound
  <2>1. r.mesh \in Data /\ r.holds \in SUBSET Block
    BY ResultType DEF Result
  <2>2. \A b \in r.holds : refs[b] > 0
    BY HeldIsLoaded
  <2>3. NoNewer(r.mesh, r.holds)
    BY DEF ResultsSound
  <2> QED
    BY <2>1, <2>2, <2>3, <1>3 DEF NoNewer
<1>7. RefsExact'
  BY <1>1 DEF RefsExact, Holding, Holders, HoldingJobs, queueVars, outVars
<1> QED
  BY <1>4, <1>5, <1>6, <1>7

LEMMA ChangeBlockStep ==
    ASSUME IInv, NEW p \in Block, NEW ack \in BOOLEAN, NEW urgent \in BOOLEAN,
           ChangeBlock(p, ack, urgent)
    PROVE  IInv'
<1>1. TypeOK'
  BY ChangeBlockType DEF IInv
<1>2. changes \in Nat /\ \A b \in Block : world[b] \in Nat /\ world[b] <= changes
  BY BoundAssumption DEF IInv, TypeOK, Version, WorldBound
<1>3. /\ changes' = changes + 1
      /\ \A b \in Block : world'[b] = IF b = p THEN changes + 1 ELSE world[b]
  BY DEF ChangeBlock, IInv, TypeOK
<1>4. WorldBound'
  BY <1>2, <1>3 DEF WorldBound
<1>5. \A b \in Block : refs[b] > 0 => world[b] <= world'[b] /\ world'[b] # Absent
  BY <1>2, <1>3 DEF IInv, RefsExact, Absent
<1> QED
  BY <1>1, <1>4, <1>5, WorldStep DEF ChangeBlock

LEMMA UnloadStep ==
    ASSUME IInv, NEW p \in Block, Unload(p)
    PROVE  IInv'
<1>1. TypeOK'
  BY QuietType DEF IInv
<1>2. changes \in Nat /\ \A b \in Block : world[b] \in Nat /\ world[b] <= changes
  BY BoundAssumption DEF IInv, TypeOK, Version, WorldBound
<1>3. /\ changes' = changes /\ refs[p] = 0
      /\ \A b \in Block : world'[b] = IF b = p THEN Absent ELSE world[b]
  BY DEF Unload, IInv, TypeOK
<1>4. WorldBound'
  BY <1>2, <1>3 DEF WorldBound, Absent
<1>5. \A b \in Block : refs[b] > 0 => world[b] <= world'[b] /\ world'[b] # Absent
  BY <1>2, <1>3 DEF IInv, RefsExact
<1> QED
  BY <1>1, <1>4, <1>5, WorldStep DEF Unload

-----------------------------------------------------------------------------
(* addBlock *)

(* An update in the queue may hold more than before; a new one holds all   *)
(* that its mesh reads and is there.                                       *)
LEMMA QueueStep ==
    ASSUME IInv, TypeOK', QueueSound', RefsExact',
           UNCHANGED <<world, changes, m_inflight_blocks, outVars, worker>>,
           \A i \in DOMAIN m_queue' :
                \/ \E j \in DOMAIN m_queue : /\ m_queue[j].p = m_queue'[i].p
                                             /\ m_queue[j].holds \subseteq m_queue'[i].holds
                \/ Reads(m_queue'[i].p) \cap Loaded \subseteq m_queue'[i].holds
    PROVE  IInv'
<1>1. Jobs' = Jobs /\ Results' = Results /\ \A w \in Worker : Busy(w)' <=> Busy(w)
  BY DEF Jobs, Results, outVars, Busy
<1>2. WorldBound' /\ WorkersApart' /\ JobsNewer' /\ ResultsInOrder'
  BY <1>1 DEF IInv, WorldBound, WorkersApart, JobsNewer, ResultsInOrder, outVars
<1>3. JobsSound' /\ ResultsSound'
  BY <1>1 DEF IInv, JobsSound, JobSound, ResultsSound, NoNewer
<1>4. /\ \A w \in Jobs : worker[w].job.holds \subseteq Reads(worker[w].job.p) \cap Loaded
      /\ \A r \in Results : r.holds \subseteq Reads(r.p) \cap Loaded
  BY HeldIsLoaded DEF IInv, JobsSound, JobSound, ResultsSound
<1>5. ASSUME NEW i \in DOMAIN m_queue', NEW w \in Jobs, worker[w].job.p = m_queue'[i].p
      PROVE  worker[w].job.holds \subseteq m_queue'[i].holds
  BY <1>4, <1>5 DEF IInv, HoldsGrow
<1>6. ASSUME NEW i \in DOMAIN m_queue', NEW r \in Results, r.p = m_queue'[i].p
      PROVE  r.holds \subseteq m_queue'[i].holds
  BY <1>4, <1>6 DEF IInv, HoldsGrow
<1>7. HoldsGrow'
  BY <1>1, <1>5, <1>6 DEF IInv, HoldsGrow
<1> QED
  BY <1>2, <1>3, <1>7 DEF IInv

LEMMA AddBlockStep ==
    ASSUME IInv, AddBlock
    PROVE  IInv'
<1> DEFINE r == Head(to_add.requests)
           queued == {i \in DOMAIN m_queue : m_queue[i].p = r.p}
           there == Reads(r.p) \cap Loaded
<1>1. TypeOK' /\ TypeOK
  BY AddBlockType DEF IInv
<1>2. r \in Request /\ UNCHANGED <<world, changes, m_inflight_blocks, outVars, worker>>
  BY <1>1 DEF AddBlock, TypeOK, Adding
<1>3. \A b \in Block : HoldingJobs(b)' = HoldingJobs(b)
  BY <1>2 DEF HoldingJobs, Jobs
<1>7. \A b \in Block : /\ Holders(m_queue_out', b) = Holders(m_queue_out, b)
                       /\ Holders(m_queue_out_urgent', b) = Holders(m_queue_out_urgent, b)
  BY <1>2 DEF outVars
<1>4. CASE UNCHANGED <<m_queue, refs>>
  <2>1. QueueSound' /\ RefsExact'
    BY <1>2, <1>3, <1>4 DEF IInv, QueueSound, RefsExact, Holding, Holders, outVars
  <2> QED
    BY <1>1, <1>2, <1>4, <2>1, QueueStep
<1>5. CASE queued = {} /\ m_queue' = Append(m_queue, NewUpdate(r)) /\ Grab(there)
  <2> DEFINE e == NewUpdate(r)
             n == Len(m_queue) + 1
  <2>1. e \in Update /\ e.p = r.p /\ e.holds = there
    BY <1>2, UpdateTypes DEF NewUpdate
  <2>2. /\ DOMAIN m_queue' = DOMAIN m_queue \cup {n} /\ m_queue'[n] = e
        /\ \A i \in DOMAIN m_queue : m_queue'[i] = m_queue[i]
    BY <1>1, <1>5, <2>1 DEF TypeOK
  <2> HIDE DEF e, n
  <2>3. QueueSound'
    BY <1>5, <2>1, <2>2 DEF IInv, QueueSound
  <2>4. ASSUME NEW b \in Block
        PROVE  refs'[b] = Holding(b)' /\ (refs'[b] > 0 => world'[b] # Absent)
    <3>1. refs'[b] = refs[b] + IF b \in there THEN 1 ELSE 0
      BY <1>5 DEF Grab
    <3>2. Cardinality(Holders(m_queue', b)) =
              Cardinality(Holders(m_queue, b)) + IF b \in e.holds THEN 1 ELSE 0
      BY <1>1, <1>5, <2>1, HoldersAppend DEF TypeOK, e
    <3>3. refs[b] \in Nat /\ refs[b] = Holding(b) /\ (refs[b] > 0 => world[b] # Absent)
      BY <1>1 DEF IInv, RefsExact, TypeOK
    <3>4. Holding(b)' = Holding(b) + IF b \in there THEN 1 ELSE 0
      BY <1>1, <1>3, <1>7, <2>1, <3>2, CountsFinite DEF Holding
    <3> QED
      BY <1>2, <3>1, <3>3, <3>4 DEF Loaded
  <2>5. RefsExact'
    BY <2>4 DEF RefsExact
  <2> QED
    BY <1>1, <1>2, <2>1, <2>2, <2>3, <2>5, QueueStep
<1>6. ASSUME NEW i \in queued, m_queue' = [m_queue EXCEPT ![i] = Merged(@, r)],
             Grab(there \ m_queue[i].holds)
      PROVE  IInv'
  <2> DEFINE q == m_queue[i]
             e == Merged(q, r)
  <2>1. i \in DOMAIN m_queue /\ q \in Update /\ q.p = r.p
    BY <1>1 DEF TypeOK
  <2>2. e \in Update /\ e.p = r.p /\ e.holds = q.holds \cup there
    BY <1>2, <2>1, UpdateTypes DEF Merged, Update
  <2>3. /\ DOMAIN m_queue' = DOMAIN m_queue /\ m_queue'[i] = e
        /\ \A j \in DOMAIN m_queue : j # i => m_queue'[j] = m_queue[j]
    BY <1>1, <1>6, <2>1 DEF TypeOK
  <2>4. QueueSound'
    <3>1. q.holds \subseteq Reads(r.p)
      BY <2>1 DEF IInv, QueueSound
    <3>2. \A j \in DOMAIN m_queue : m_queue'[j].p = m_queue[j].p
      BY <2>1, <2>2, <2>3
    <3>3. \A j \in DOMAIN m_queue : m_queue'[j].holds \subseteq Reads(m_queue'[j].p)
      BY <2>2, <2>3, <3>1 DEF IInv, QueueSound
    <3> QED
      BY <2>3, <3>2, <3>3 DEF IInv, QueueSound
  <2>5. ASSUME NEW b \in Block
        PROVE  refs'[b] = Holding(b)' /\ (refs'[b] > 0 => world'[b] # Absent)
    <3>1. refs'[b] = refs[b] + IF b \in there \ q.holds THEN 1 ELSE 0
      BY <1>6 DEF Grab
    <3>2. m_queue' = [m_queue EXCEPT ![i] = e]
      BY <1>6
    <3>3. m_queue \in Seq(Update) /\ m_queue[i].holds \subseteq e.holds
      BY <1>1, <2>2 DEF TypeOK
    <3>8. e \in Update
      BY <2>2
    <3> HIDE DEF e
    <3>9. Cardinality(Holders([m_queue EXCEPT ![i] = e], b)) =
              Cardinality(Holders(m_queue, b)) + IF b \in e.holds \ m_queue[i].holds THEN 1 ELSE 0
      BY <2>1, <3>3, <3>8, HoldersReplace
    <3>4. Cardinality(Holders(m_queue', b)) =
              Cardinality(Holders(m_queue, b)) + IF b \in e.holds \ m_queue[i].holds THEN 1 ELSE 0
      BY <3>2, <3>9
    <3>5. refs[b] \in Nat /\ refs[b] = Holding(b) /\ (refs[b] > 0 => world[b] # Absent)
      BY <1>1 DEF IInv, RefsExact, TypeOK
    <3>6. b \in e.holds \ m_queue[i].holds <=> b \in there \ q.holds
      BY <2>2
    <3>7. Holding(b)' = Holding(b) + IF b \in there \ q.holds THEN 1 ELSE 0
      BY <1>1, <1>3, <1>7, <3>4, <3>6, CountsFinite DEF Holding
    <3> QED
      BY <1>2, <3>1, <3>5, <3>7 DEF Loaded
  <2>6. RefsExact'
    BY <2>5 DEF RefsExact
  <2>7. ASSUME NEW j \in DOMAIN m_queue'
        PROVE  \E k \in DOMAIN m_queue : /\ m_queue[k].p = m_queue'[j].p
                                         /\ m_queue[k].holds \subseteq m_queue'[j].holds
    BY <2>1, <2>2, <2>3
  <2> QED
    BY <1>1, <1>2, <2>4, <2>6, <2>7, QueueStep
<1> QED
  BY <1>4, <1>5, <1>6 DEF AddBlock

-----------------------------------------------------------------------------
(* The results *)
LEMMA TailInOrder ==
    ASSUME NEW s \in Seq(Result), s # <<>>, InOrder(s) PROVE InOrder(Tail(s))
<1>1. \A i \in DOMAIN Tail(s) : i + 1 \in DOMAIN s /\ Tail(s)[i] = s[i + 1] /\ i \in Nat
  OBVIOUS
<1>2. \A i, j \in DOMAIN Tail(s) : i < j => i + 1 < j + 1
  BY <1>1
<1> QED
  BY <1>1, <1>2 DEF InOrder

LEMMA AppendInOrder ==
    ASSUME NEW s \in Seq(Result), NEW e \in Result, InOrder(s),
           \A x \in ToSet(s) : x.p = e.p => NotNewer(x.mesh, e.mesh)
    PROVE  InOrder(Append(s, e))
<1> DEFINE t == Append(s, e)
           n == Len(s) + 1
<1>1. /\ DOMAIN t = 1 .. n /\ DOMAIN s = 1 .. Len(s) /\ Len(s) \in Nat
      /\ t[n] = e /\ \A i \in DOMAIN s : t[i] = s[i]
  OBVIOUS
<1> HIDE DEF t
<1> SUFFICES ASSUME NEW i \in DOMAIN t, NEW j \in DOMAIN t, i < j, t[i].p = t[j].p
             PROVE  NotNewer(t[i].mesh, t[j].mesh)
  BY DEF InOrder, t
<1>2. i \in DOMAIN s /\ t[i] = s[i] /\ s[i] \in ToSet(s)
  BY <1>1 DEF ToSet
<1>3. CASE j = n
  BY <1>1, <1>2, <1>3
<1>4. CASE j \in DOMAIN s
  BY <1>1, <1>2, <1>4 DEF InOrder
<1> QED
  BY <1>1, <1>3, <1>4

LEMMA TakeStep ==
    ASSUME IInv, TakeUrgent \/ TakeNormal
    PROVE  IInv'
<1>1. TypeOK' /\ TypeOK
  BY TakeType DEF IInv
<1>2. UNCHANGED <<world, changes, queueVars, worker>>
  BY DEF TakeUrgent, TakeNormal
<1>3. \/ /\ m_queue_out_urgent # <<>> /\ Show(Head(m_queue_out_urgent))
         /\ m_queue_out_urgent' = Tail(m_queue_out_urgent) /\ m_queue_out' = m_queue_out
      \/ /\ m_queue_out # <<>> /\ Show(Head(m_queue_out))
         /\ m_queue_out' = Tail(m_queue_out) /\ m_queue_out_urgent' = m_queue_out_urgent
  BY DEF TakeUrgent, TakeNormal
<1>4. m_queue_out \in Seq(Result) /\ m_queue_out_urgent \in Seq(Result)
  BY <1>1 DEF TypeOK
<1>5. Results' \subseteq Results
  BY <1>3, <1>4, ToSetChanges DEF Results
<1>6. Jobs' = Jobs /\ \A w \in Worker : Busy(w)' <=> Busy(w)
  BY <1>2 DEF Jobs, Busy
<1>7. WorldBound' /\ QueueSound' /\ JobsSound' /\ WorkersApart'
  BY <1>2, <1>6 DEF IInv, WorldBound, QueueSound, JobsSound, JobSound, NoNewer,
      WorkersApart, queueVars
<1>8. ResultsSound' /\ HoldsGrow' /\ JobsNewer'
  BY <1>2, <1>5, <1>6 DEF IInv, ResultsSound, NoNewer, HoldsGrow, JobsNewer, queueVars
<1>9. ResultsInOrder'
  BY <1>3, <1>4, TailInOrder DEF IInv, ResultsInOrder
<1>10. ASSUME NEW b \in Block
       PROVE  refs'[b] = Holding(b)' /\ (refs'[b] > 0 => world'[b] # Absent)
  <2>1. PICK r : /\ refs' = [x \in Block |-> refs[x] - IF x \in r.holds THEN 1 ELSE 0]
                 /\ Cardinality(Holders(m_queue_out, b)') + Cardinality(Holders(m_queue_out_urgent, b)') =
                      Cardinality(Holders(m_queue_out, b)) + Cardinality(Holders(m_queue_out_urgent, b))
                        - IF b \in r.holds THEN 1 ELSE 0
    <3>1. CASE /\ m_queue_out_urgent # <<>> /\ Show(Head(m_queue_out_urgent))
               /\ m_queue_out_urgent' = Tail(m_queue_out_urgent) /\ m_queue_out' = m_queue_out
      <4>1. Cardinality(Holders(Tail(m_queue_out_urgent), b)) =
                Cardinality(Holders(m_queue_out_urgent, b))
                  - IF b \in Head(m_queue_out_urgent).holds THEN 1 ELSE 0
        BY <1>4, <3>1, HoldersTail
      <4>2. Holders(m_queue_out_urgent, b)' = Holders(Tail(m_queue_out_urgent), b)
            /\ Holders(m_queue_out, b)' = Holders(m_queue_out, b)
        BY <3>1 DEF Holders
      <4>3. refs' = [x \in Block |->
                        refs[x] - IF x \in Head(m_queue_out_urgent).holds THEN 1 ELSE 0]
        BY <3>1 DEF Show
      <4>4. /\ Cardinality(Holders(m_queue_out, b)) \in Nat
            /\ Cardinality(Holders(m_queue_out_urgent, b)) \in Nat
        BY <1>1, CountsFinite
      <4>5. Cardinality(Holders(m_queue_out, b)') + Cardinality(Holders(m_queue_out_urgent, b)') =
                Cardinality(Holders(m_queue_out, b)) + Cardinality(Holders(m_queue_out_urgent, b))
                  - IF b \in Head(m_queue_out_urgent).holds THEN 1 ELSE 0
        BY <4>1, <4>2, <4>4
      <4> QED
        BY <4>3, <4>5
    <3>2. CASE /\ m_queue_out # <<>> /\ Show(Head(m_queue_out))
               /\ m_queue_out' = Tail(m_queue_out) /\ m_queue_out_urgent' = m_queue_out_urgent
      <4>1. Cardinality(Holders(Tail(m_queue_out), b)) =
                Cardinality(Holders(m_queue_out, b))
                  - IF b \in Head(m_queue_out).holds THEN 1 ELSE 0
        BY <1>4, <3>2, HoldersTail
      <4>2. Holders(m_queue_out, b)' = Holders(Tail(m_queue_out), b)
            /\ Holders(m_queue_out_urgent, b)' = Holders(m_queue_out_urgent, b)
        BY <3>2 DEF Holders
      <4>3. refs' = [x \in Block |-> refs[x] - IF x \in Head(m_queue_out).holds THEN 1 ELSE 0]
        BY <3>2 DEF Show
      <4>4. /\ Cardinality(Holders(m_queue_out, b)) \in Nat
            /\ Cardinality(Holders(m_queue_out_urgent, b)) \in Nat
        BY <1>1, CountsFinite
      <4>5. Cardinality(Holders(m_queue_out, b)') + Cardinality(Holders(m_queue_out_urgent, b)') =
                Cardinality(Holders(m_queue_out, b)) + Cardinality(Holders(m_queue_out_urgent, b))
                  - IF b \in Head(m_queue_out).holds THEN 1 ELSE 0
        BY <4>1, <4>2, <4>4
      <4> QED
        BY <4>3, <4>5
    <3> QED
      BY <1>3, <3>1, <3>2
  <2>2. Holders(m_queue, b)' = Holders(m_queue, b) /\ HoldingJobs(b)' = HoldingJobs(b)
    BY <1>2, <1>6 DEF Holders, HoldingJobs, queueVars
  <2>3. Holding(b)' = Holding(b) - IF b \in r.holds THEN 1 ELSE 0
    <3>1. /\ Cardinality(Holders(m_queue_out, b)') \in Nat
          /\ Cardinality(Holders(m_queue_out_urgent, b)') \in Nat
      <4>1. m_queue_out' \in Seq(Result) /\ m_queue_out_urgent' \in Seq(Result)
        BY <1>1 DEF TypeOK
      <4>2. /\ Holders(m_queue_out, b)' = Holders(m_queue_out', b)
            /\ Holders(m_queue_out_urgent, b)' = Holders(m_queue_out_urgent', b)
        BY DEF Holders
      <4>3. /\ Cardinality(Holders(m_queue_out', b)) \in Nat
            /\ Cardinality(Holders(m_queue_out_urgent', b)) \in Nat
        BY <4>1, HoldersFinite
      <4> QED
        BY <4>2, <4>3
    <3> QED
      BY <1>1, <2>1, <2>2, <3>1, CountsFinite DEF Holding
  <2>4. refs[b] \in Nat /\ refs[b] = Holding(b) /\ (refs[b] > 0 => world[b] # Absent)
    BY <1>1 DEF IInv, RefsExact, TypeOK
  <2> QED
    BY <1>2, <2>1, <2>3, <2>4
<1>11. RefsExact'
  BY <1>10 DEF RefsExact
<1> QED
  BY <1>1, <1>7, <1>8, <1>9, <1>11 DEF IInv

-----------------------------------------------------------------------------
(* The workers *)
LEMMA PopStep ==
    ASSUME IInv, NEW w \in Worker, Pop(w)
    PROVE  IInv'
<1>1. TypeOK' /\ TypeOK
  BY PopType DEF IInv
<1>2. PICK i \in Poppable :
        /\ m_queue' = RemoveAt(m_queue, i)
        /\ m_inflight_blocks' = m_inflight_blocks \cup {m_queue[i].p}
        /\ worker' = [worker EXCEPT ![w] = [pc |-> "work", job |-> m_queue[i], data |-> <<>>]]
  BY DEF Pop
<1> DEFINE q == m_queue[i]
<1>3. i \in DOMAIN m_queue /\ q.p \notin m_inflight_blocks /\ q \in Update
  BY <1>1, <1>2 DEF Poppable, TypeOK
<1>4. UNCHANGED <<world, refs, changes, outVars>> /\ worker[w].pc = "pop"
  BY DEF Pop, mainVars
<1>5. /\ worker'[w] = [pc |-> "work", job |-> q, data |-> <<>>]
      /\ \A v \in Worker \ {w} : worker'[v] = worker[v]
  BY <1>1, <1>2 DEF TypeOK
<1>6. /\ Jobs' = Jobs \cup {w} /\ w \notin Jobs
      /\ \A v \in Jobs : v # w /\ worker'[v] = worker[v]
  BY <1>4, <1>5 DEF Jobs
<1>7. Results' = Results
  BY <1>4 DEF Results, outVars
<1>8. /\ Len(m_queue') = Len(m_queue) - 1 /\ DOMAIN m_queue' = 1 .. Len(m_queue')
      /\ DOMAIN m_queue = 1 .. Len(m_queue) /\ Len(m_queue) \in Nat
      /\ \A j \in DOMAIN m_queue' : m_queue'[j] = m_queue[IF j < i THEN j ELSE j + 1]
  <2>1. m_queue \in Seq(Update)
    BY <1>1 DEF TypeOK
  <2>2. /\ RemoveAt(m_queue, i) \in Seq(Update) /\ Len(RemoveAt(m_queue, i)) = Len(m_queue) - 1
        /\ \A j \in DOMAIN RemoveAt(m_queue, i) :
                RemoveAt(m_queue, i)[j] = m_queue[IF j < i THEN j ELSE j + 1]
    BY <1>3, <2>1, RemoveAtIs
  <2> QED
    BY <1>2, <2>1, <2>2
<1> DEFINE old(j) == IF j < i THEN j ELSE j + 1
<1>9. \A j \in DOMAIN m_queue' :
          old(j) \in DOMAIN m_queue /\ old(j) # i /\ m_queue'[j] = m_queue[old(j)]
  BY <1>3, <1>8
<1>10. \A j, k \in DOMAIN m_queue' : old(j) = old(k) => j = k
  BY <1>3, <1>8
<1>11. \A j \in DOMAIN m_queue' : m_queue'[j].p # q.p
  BY <1>3, <1>9 DEF IInv, QueueSound
<1> HIDE DEF q
<1>12. WorldBound' /\ ResultsSound' /\ ResultsInOrder'
  BY <1>4, <1>7 DEF IInv, WorldBound, ResultsSound, NoNewer, ResultsInOrder, outVars
<1>13. QueueSound'
  BY <1>9, <1>10 DEF IInv, QueueSound
<1>14. q.holds \subseteq Reads(q.p)
  BY <1>3 DEF q, IInv, QueueSound
<1>15. JobsSound'
  <2>1. ASSUME NEW v \in Jobs
        PROVE  JobSound(v)'
    BY <1>4, <1>6 DEF IInv, JobsSound, JobSound, NoNewer
  <2>2. JobSound(w)'
    BY <1>5, <1>14 DEF JobSound, NoNewer
  <2> QED
    BY <1>6, <2>1, <2>2 DEF JobsSound
<1>16. ASSUME NEW b \in Block
       PROVE  refs'[b] = Holding(b)' /\ (refs'[b] > 0 => world'[b] # Absent)
  <2>1. Cardinality(Holders(m_queue', b)) =
            Cardinality(Holders(m_queue, b)) - IF b \in q.holds THEN 1 ELSE 0
    BY <1>1, <1>2, <1>3, HoldersRemoveAt DEF TypeOK, q
  <2>2. Cardinality(HoldingJobs(b)') =
            Cardinality(HoldingJobs(b)) + IF b \in q.holds THEN 1 ELSE 0
    <3>1. HoldingJobs(b)' = HoldingJobs(b) \cup {v \in {w} : b \in q.holds}
      BY <1>5, <1>6 DEF HoldingJobs
    <3>2. w \notin HoldingJobs(b)
      BY <1>6 DEF HoldingJobs
    <3>3. IsFiniteSet(HoldingJobs(b)) /\ Cardinality(HoldingJobs(b)) \in Nat
      BY <1>1, CountsFinite
    <3>4. Cardinality(HoldingJobs(b) \cup {w}) = Cardinality(HoldingJobs(b)) + 1
      BY <3>2, <3>3, FS_AddElement
    <3>5. CASE b \in q.holds
      <4>1. HoldingJobs(b)' = HoldingJobs(b) \cup {w}
        BY <3>1, <3>5
      <4> QED
        BY <3>4, <3>5, <4>1
    <3>6. CASE b \notin q.holds
      <4>1. HoldingJobs(b)' = HoldingJobs(b)
        BY <3>1, <3>6
      <4> QED
        BY <3>3, <3>6, <4>1
    <3> QED
      BY <3>5, <3>6
  <2>3. /\ Holders(m_queue_out', b) = Holders(m_queue_out, b)
        /\ Holders(m_queue_out_urgent', b) = Holders(m_queue_out_urgent, b)
    BY <1>4 DEF outVars
  <2>4. Holding(b)' = Holding(b)
    BY <1>1, <2>1, <2>2, <2>3, CountsFinite DEF Holding
  <2> QED
    BY <1>4, <2>4 DEF IInv, RefsExact
<1>17. RefsExact'
  BY <1>16 DEF RefsExact
<1>18. WorkersApart'
  <2>1. Busy(w)' /\ \A v \in Worker \ {w} : Busy(v)' <=> Busy(v)
    BY <1>5 DEF Busy
  <2>2. \A v \in Worker \ {w} : Busy(v) => worker[v].job.p \in m_inflight_blocks
    BY DEF IInv, WorkersApart
  <2> QED
    BY <1>2, <1>3, <1>5, <2>1, <2>2 DEF IInv, WorkersApart, q
<1>19. HoldsGrow'
  <2>1. ASSUME NEW j \in DOMAIN m_queue', NEW v \in Jobs', worker'[v].job.p = m_queue'[j].p
        PROVE  worker'[v].job.holds \subseteq m_queue'[j].holds
    <3>1. v \in Jobs
      BY <1>5, <1>6, <1>11, <2>1
    <3> QED
      BY <1>6, <1>9, <2>1, <3>1 DEF IInv, HoldsGrow
  <2>2. ASSUME NEW j \in DOMAIN m_queue', NEW r \in Results, r.p = m_queue'[j].p
        PROVE  r.holds \subseteq m_queue'[j].holds
    BY <1>9, <2>2 DEF IInv, HoldsGrow
  <2>3. ASSUME NEW v \in Jobs', NEW r \in Results, worker'[v].job.p = r.p
        PROVE  r.holds \subseteq worker'[v].job.holds
    <3>1. CASE v = w
      BY <1>3, <1>5, <2>3, <3>1 DEF IInv, HoldsGrow, q
    <3>2. CASE v \in Jobs
      BY <1>6, <2>3, <3>2 DEF IInv, HoldsGrow
    <3> QED
      BY <1>6, <3>1, <3>2
  <2> QED
    BY <1>7, <2>1, <2>2, <2>3 DEF HoldsGrow
<1>20. JobsNewer'
  <2> SUFFICES ASSUME NEW v \in Jobs', NEW r \in Results, worker'[v].job.p = r.p,
                      NEW b \in DOMAIN worker'[v].data
               PROVE  r.mesh[b] <= worker'[v].data[b]
    BY <1>7 DEF JobsNewer
  <2>1. v # w
    BY <1>5
  <2> QED
    BY <1>6, <2>1 DEF IInv, JobsNewer
<1> QED
  BY <1>1, <1>12, <1>13, <1>15, <1>17, <1>18, <1>19, <1>20 DEF IInv

LEMMA FillStep ==
    ASSUME IInv, NEW w \in Worker, FillBlockData(w)
    PROVE  IInv'
<1>1. TypeOK' /\ TypeOK
  BY FillType DEF IInv
<1>2. PICK x \in Unread(w) :
        worker' = [worker EXCEPT ![w] = [worker[w] EXCEPT !.data = ReadBlock(w, x)]]
  BY <1>1, FillType
<1>3. UNCHANGED <<world, refs, changes, queueVars, outVars>> /\ worker[w].pc = "work"
  BY DEF FillBlockData, mainVars
<1>4. /\ worker'[w].pc = "work" /\ worker'[w].job = worker[w].job
      /\ worker'[w].data = ReadBlock(w, x) /\ \A v \in Worker \ {w} : worker'[v] = worker[v]
  BY <1>1, <1>2, <1>3 DEF TypeOK, WorkerState
<1>5. Jobs' = Jobs /\ w \in Jobs /\ Results' = Results /\ \A v \in Worker : Busy(v)' <=> Busy(v)
  BY <1>3, <1>4 DEF Jobs, Results, outVars, Busy
<1>6. \A v \in Worker : worker'[v].job = worker[v].job
  BY <1>4
<1> DEFINE job == worker[w].job
           v == IF x \in job.holds THEN world[x] ELSE Absent
<1>7. /\ x \in Reads(job.p)
      /\ DOMAIN ReadBlock(w, x) = DOMAIN worker[w].data \cup {x} /\ ReadBlock(w, x)[x] = v
      /\ \A b \in DOMAIN worker[w].data \ {x} : ReadBlock(w, x)[b] = worker[w].data[b]
  BY DEF ReadBlock, Unread
<1>8. job \in Update /\ x \in Block
  BY <1>1, <1>3, <1>7, WorkerTypes, ReadsAreBlocks DEF Busy, Update
<1>9. v \in Nat
  BY <1>1, <1>8, BoundAssumption DEF TypeOK, Version, Absent
<1>10. WorldBound' /\ QueueSound' /\ ResultsSound' /\ ResultsInOrder'
  BY <1>3, <1>5
    DEF IInv, WorldBound, QueueSound, ResultsSound, NoNewer, ResultsInOrder, queueVars, outVars
<1>11. RefsExact'
  <2> SUFFICES ASSUME NEW b \in Block PROVE HoldingJobs(b)' = HoldingJobs(b)
    BY <1>3 DEF IInv, RefsExact, Holding, Holders, queueVars, outVars
  <2> QED
    BY <1>5, <1>6 DEF HoldingJobs, Jobs
<1>12. WorkersApart'
  BY <1>3, <1>5, <1>6 DEF IInv, WorkersApart, queueVars
<1>13. HoldsGrow'
  BY <1>3, <1>5, <1>6 DEF IInv, HoldsGrow, Jobs, queueVars
<1>14. JobsSound'
  <2>1. NoNewer(ReadBlock(w, x), job.holds)
    <3>1. NoNewer(worker[w].data, job.holds)
      BY <1>5 DEF IInv, JobsSound, JobSound
    <3>2. v <= v
      BY <1>9
    <3> QED
      BY <1>7, <3>1, <3>2 DEF NoNewer
  <2>2. JobSound(w)'
    BY <1>3, <1>4, <1>5, <1>7, <2>1 DEF IInv, JobsSound, JobSound, NoNewer
  <2>3. ASSUME NEW u \in Jobs, u # w
        PROVE  JobSound(u)'
    BY <1>3, <1>4, <2>3 DEF IInv, JobsSound, JobSound, NoNewer, Jobs
  <2> QED
    BY <1>5, <2>2, <2>3 DEF JobsSound
<1>15. JobsNewer'
  <2> SUFFICES ASSUME NEW u \in Jobs, NEW r \in Results, worker[u].job.p = r.p,
                      NEW b \in DOMAIN worker'[u].data
               PROVE  r.mesh[b] <= worker'[u].data[b]
    BY <1>5, <1>6 DEF JobsNewer, Jobs
  <2>1. CASE u # w \/ b # x
    BY <1>4, <1>7, <2>1 DEF IInv, JobsNewer, Jobs
  <2>2. CASE u = w /\ b = x
    <3>1. r.holds \subseteq job.holds
      BY <2>2 DEF IInv, HoldsGrow
    <3>2. r.mesh \in [Reads(r.p) -> Version] /\ NoNewer(r.mesh, r.holds)
      BY DEF IInv, ResultsSound
    <3>3. r.mesh[x] \in Nat /\ r.mesh[x] <= IF x \in r.holds THEN world[x] ELSE Absent
      BY <1>7, <2>2, <3>2, BoundAssumption DEF NoNewer, Version
    <3>4. world[x] \in Nat
      BY <1>1, <1>8, BoundAssumption DEF TypeOK, Version
    <3>5. r.mesh[x] <= v
      BY <3>1, <3>3, <3>4 DEF Absent
    <3> QED
      BY <1>4, <1>7, <2>2, <3>5
  <2> QED
    BY <2>1, <2>2
<1> QED
  BY <1>1, <1>10, <1>11, <1>12, <1>13, <1>14, <1>15 DEF IInv

LEMMA DoneStep ==
    ASSUME IInv, NEW w \in Worker, Done(w)
    PROVE  IInv'
<1>1. TypeOK' /\ TypeOK
  BY QuietType DEF IInv
<1>2. /\ worker[w].pc = "done"
      /\ worker' = [worker EXCEPT ![w] = [worker[w] EXCEPT !.pc = "pop", !.job = None]]
      /\ m_inflight_blocks' = m_inflight_blocks \ {worker[w].job.p}
      /\ UNCHANGED <<world, refs, changes, m_queue, outVars>>
  BY DEF Done, mainVars
<1>3. worker'[w].pc = "pop" /\ \A v \in Worker \ {w} : worker'[v] = worker[v]
  BY <1>1, <1>2 DEF TypeOK, WorkerState
<1>4. Jobs' = Jobs /\ \A v \in Jobs : worker'[v] = worker[v]
  BY <1>2, <1>3 DEF Jobs
<1>5. Results' = Results
  BY <1>2 DEF Results, outVars
<1>6. WorldBound' /\ QueueSound' /\ ResultsSound' /\ ResultsInOrder'
  BY <1>2, <1>5 DEF IInv, WorldBound, QueueSound, ResultsSound, NoNewer, ResultsInOrder, outVars
<1>7. JobsSound'
  <2>1. \A v \in Jobs : JobSound(v)
    BY DEF IInv, JobsSound
  <2>2. \A v \in Jobs : JobSound(v) => JobSound(v)'
    BY <1>2, <1>4 DEF JobSound, NoNewer
  <2> QED
    BY <1>4, <2>1, <2>2 DEF JobsSound
<1>8. RefsExact'
  <2> SUFFICES ASSUME NEW b \in Block PROVE HoldingJobs(b)' = HoldingJobs(b)
    BY <1>2 DEF IInv, RefsExact, Holding, Holders, outVars
  <2> QED
    BY <1>4 DEF HoldingJobs
<1>9. WorkersApart'
  <2>1. Busy(w) /\ ~Busy(w)' /\ \A v \in Worker \ {w} : Busy(v)' <=> Busy(v)
    BY <1>2, <1>3 DEF Busy
  <2> QED
    BY <1>2, <1>3, <2>1 DEF IInv, WorkersApart
<1>10. HoldsGrow'
  <2>1. HoldsGrow /\ m_queue' = m_queue
    BY <1>2 DEF IInv
  <2> QED
    BY <1>4, <1>5, <2>1 DEF HoldsGrow
<1>11. JobsNewer'
  BY <1>4, <1>5 DEF IInv, JobsNewer
<1> QED
  BY <1>1, <1>6, <1>7, <1>8, <1>9, <1>10, <1>11 DEF IInv

LEMMA PutStep ==
    ASSUME IInv, NEW w \in Worker, PutResult(w)
    PROVE  IInv'
<1> DEFINE e == ResultOf(w)
           job == worker[w].job
<1>1. /\ TypeOK' /\ TypeOK /\ e \in Result
      /\ worker[w].data \in [Reads(job.p) -> Version]
  BY PutType DEF IInv
<1>2. /\ worker[w].pc = "work"
      /\ worker' = [worker EXCEPT ![w] = [worker[w] EXCEPT !.pc = "done", !.data = <<>>]]
      /\ UNCHANGED <<world, refs, changes, queueVars>>
  BY DEF PutResult, mainVars
<1>3. \/ m_queue_out' = Append(m_queue_out, e) /\ m_queue_out_urgent' = m_queue_out_urgent
      \/ m_queue_out_urgent' = Append(m_queue_out_urgent, e) /\ m_queue_out' = m_queue_out
  BY DEF PutResult
<1>4. e.p = job.p /\ e.holds = job.holds /\ e.mesh = worker[w].data
  BY DEF ResultOf
<1> HIDE DEF e
<1>5. /\ worker'[w].pc = "done" /\ worker'[w].job = job
      /\ \A v \in Worker \ {w} : worker'[v] = worker[v]
  BY <1>1, <1>2 DEF TypeOK, WorkerState
<1>6. /\ w \in Jobs /\ Jobs' = Jobs \ {w} /\ \A v \in Jobs \ {w} : worker'[v] = worker[v]
      /\ \A v \in Worker : (Busy(v)' <=> Busy(v)) /\ worker'[v].job = worker[v].job
  BY <1>2, <1>5 DEF Jobs, Busy
<1>7. m_queue_out \in Seq(Result) /\ m_queue_out_urgent \in Seq(Result)
  BY <1>1 DEF TypeOK
<1>8. Results' = Results \cup {e}
  <2>1. e \in Result
    BY <1>1
  <2>2. /\ ToSet(Append(m_queue_out, e)) = ToSet(m_queue_out) \cup {e}
        /\ ToSet(Append(m_queue_out_urgent, e)) = ToSet(m_queue_out_urgent) \cup {e}
    BY <1>7, <2>1, ToSetChanges
  <2>3. CASE m_queue_out' = Append(m_queue_out, e) /\ m_queue_out_urgent' = m_queue_out_urgent
    BY <2>2, <2>3 DEF Results
  <2>4. CASE m_queue_out_urgent' = Append(m_queue_out_urgent, e) /\ m_queue_out' = m_queue_out
    BY <2>2, <2>4 DEF Results
  <2> QED
    BY <1>3, <2>3, <2>4
<1>9. \A v \in Jobs \ {w} : worker[v].job.p # e.p
  BY <1>4, <1>6 DEF IInv, WorkersApart, Jobs, Busy
<1>10. WorldBound' /\ QueueSound'
  BY <1>2 DEF IInv, WorldBound, QueueSound, queueVars
<1>11. JobsSound'
  BY <1>2, <1>6 DEF IInv, JobsSound, JobSound, NoNewer
<1>12. ResultsSound'
  <2>1. JobSound(w)
    BY <1>6 DEF IInv, JobsSound
  <2>2. /\ e.mesh \in [Reads(e.p) -> Version] /\ e.holds \subseteq Reads(e.p)
        /\ NoNewer(e.mesh, e.holds)
    BY <1>1, <1>4, <2>1 DEF JobSound
  <2> QED
    BY <1>2, <1>8, <2>2 DEF IInv, ResultsSound, NoNewer
<1>13. ASSUME NEW b \in Block
       PROVE  refs'[b] = Holding(b)' /\ (refs'[b] > 0 => world'[b] # Absent)
  <2>1. /\ Cardinality(Holders(Append(m_queue_out, e), b)) =
                Cardinality(Holders(m_queue_out, b)) + IF b \in e.holds THEN 1 ELSE 0
        /\ Cardinality(Holders(Append(m_queue_out_urgent, e), b)) =
                Cardinality(Holders(m_queue_out_urgent, b)) + IF b \in e.holds THEN 1 ELSE 0
    BY <1>1, <1>7, HoldersAppend DEF e
  <2>2. /\ Cardinality(Holders(m_queue_out, b)) \in Nat
        /\ Cardinality(Holders(m_queue_out_urgent, b)) \in Nat
        /\ Cardinality(Holders(m_queue, b)) \in Nat
        /\ Cardinality(HoldingJobs(b)) \in Nat /\ IsFiniteSet(HoldingJobs(b))
    BY <1>1, CountsFinite
  <2>3. Cardinality(Holders(m_queue_out', b)) + Cardinality(Holders(m_queue_out_urgent', b)) =
            Cardinality(Holders(m_queue_out, b)) + Cardinality(Holders(m_queue_out_urgent, b))
              + IF b \in e.holds THEN 1 ELSE 0
    <3>1. CASE m_queue_out' = Append(m_queue_out, e) /\ m_queue_out_urgent' = m_queue_out_urgent
      <4>1. /\ Holders(m_queue_out', b) = Holders(Append(m_queue_out, e), b)
            /\ Holders(m_queue_out_urgent', b) = Holders(m_queue_out_urgent, b)
        BY <3>1
      <4> QED
        BY <2>1, <2>2, <4>1
    <3>2. CASE m_queue_out_urgent' = Append(m_queue_out_urgent, e) /\ m_queue_out' = m_queue_out
      <4>1. /\ Holders(m_queue_out_urgent', b) = Holders(Append(m_queue_out_urgent, e), b)
            /\ Holders(m_queue_out', b) = Holders(m_queue_out, b)
        BY <3>2
      <4> QED
        BY <2>1, <2>2, <4>1
    <3> QED
      BY <1>3, <3>1, <3>2
  <2>4. Cardinality(HoldingJobs(b)') =
            Cardinality(HoldingJobs(b)) - IF b \in e.holds THEN 1 ELSE 0
    <3>1. HoldingJobs(b)' = HoldingJobs(b) \ {w}
      BY <1>6 DEF HoldingJobs
    <3>2. w \in HoldingJobs(b) <=> b \in e.holds
      BY <1>4, <1>6 DEF HoldingJobs
    <3>3. Cardinality(HoldingJobs(b) \ {w}) =
              IF w \in HoldingJobs(b) THEN Cardinality(HoldingJobs(b)) - 1
              ELSE Cardinality(HoldingJobs(b))
      BY <2>2, FS_RemoveElement
    <3> QED
      BY <2>2, <3>1, <3>2, <3>3
  <2>5. /\ Cardinality(Holders(m_queue_out', b)) \in Nat
        /\ Cardinality(Holders(m_queue_out_urgent', b)) \in Nat
    <3>1. m_queue_out' \in Seq(Result) /\ m_queue_out_urgent' \in Seq(Result)
      BY <1>1 DEF TypeOK
    <3> QED
      BY <3>1, HoldersFinite
  <2>6. Holders(m_queue', b) = Holders(m_queue, b)
    BY <1>2 DEF queueVars
  <2>7. Holding(b)' = Holding(b)
    BY <2>2, <2>3, <2>4, <2>5, <2>6 DEF Holding
  <2> QED
    BY <1>2, <2>7 DEF IInv, RefsExact
<1>14. RefsExact'
  BY <1>13 DEF RefsExact
<1>15. WorkersApart'
  BY <1>2, <1>6 DEF IInv, WorkersApart, queueVars
<1>16. HoldsGrow'
  <2>1. m_queue' = m_queue
    BY <1>2 DEF queueVars
  <2>2. ASSUME NEW j \in DOMAIN m_queue, e.p = m_queue[j].p
        PROVE  e.holds \subseteq m_queue[j].holds
    BY <1>4, <1>6, <2>2 DEF IInv, HoldsGrow
  <2> QED
    BY <1>6, <1>8, <1>9, <2>1, <2>2 DEF IInv, HoldsGrow
<1>17. JobsNewer'
  BY <1>6, <1>8, <1>9 DEF IInv, JobsNewer
<1>18. \A x \in Results : x.p = e.p => NotNewer(x.mesh, e.mesh)
  <2> SUFFICES ASSUME NEW x \in Results, x.p = e.p, NEW b \in DOMAIN x.mesh
               PROVE  x.mesh[b] <= e.mesh[b]
    BY DEF NotNewer
  <2>1. b \in DOMAIN worker[w].data
    BY <1>1, <1>4 DEF IInv, ResultsSound
  <2> QED
    BY <1>4, <1>6, <2>1 DEF IInv, JobsNewer
<1>19. ResultsInOrder'
  <2>1. e \in Result
    BY <1>1 DEF e
  <2>2. InOrder(Append(m_queue_out, e)) /\ InOrder(Append(m_queue_out_urgent, e))
    BY <1>7, <1>18, <2>1, AppendInOrder DEF IInv, ResultsInOrder, Results
  <2> QED
    BY <1>3, <2>2 DEF IInv, ResultsInOrder
<1> QED
  BY <1>1, <1>10, <1>11, <1>12, <1>14, <1>15, <1>16, <1>17, <1>19 DEF IInv

-----------------------------------------------------------------------------
(* The invariant *)

LEMMA Initially == Init => IInv
<1> SUFFICES ASSUME Init PROVE IInv
  OBVIOUS
<1> USE DEF Init
<1>1. TypeOK
  <2>1. Asleep \in WorkerState
    BY NothingIsData DEF Asleep, WorkerState
  <2>2. worker \in [Worker -> WorkerState] /\ \A w \in Worker : worker[w].pc = "asleep"
    BY <2>1 DEF Asleep
  <2>3. to_add \in Adding
    BY DEF Adding
  <2>4. 0 \in Version /\ Absent = 0
    BY BoundAssumption DEF Version, Absent
  <2> QED
    BY <2>2, <2>3, <2>4 DEF TypeOK
<1>2. Jobs = {} /\ Results = {}
  BY DEF Jobs, Results, ToSet, Asleep
<1>3. WorldBound /\ QueueSound /\ JobsSound /\ ResultsSound /\ HoldsGrow /\ JobsNewer
  BY <1>2 DEF WorldBound, QueueSound, JobsSound, ResultsSound, HoldsGrow, JobsNewer, Absent
<1>4. RefsExact
  <2> SUFFICES ASSUME NEW b \in Block PROVE Holding(b) = 0
    BY DEF RefsExact
  <2>1. /\ Holders(m_queue, b) = {} /\ Holders(m_queue_out, b) = {}
        /\ Holders(m_queue_out_urgent, b) = {}
    BY DEF Holders
  <2>2. HoldingJobs(b) = {}
    BY <1>2 DEF HoldingJobs
  <2> QED
    <3>1. /\ Cardinality(Holders(m_queue, b)) = 0 /\ Cardinality(HoldingJobs(b)) = 0
          /\ Cardinality(Holders(m_queue_out, b)) = 0
          /\ Cardinality(Holders(m_queue_out_urgent, b)) = 0
      BY <2>1, <2>2, FS_EmptySet
    <3> QED
      BY <3>1 DEF Holding
<1>5. WorkersApart
  BY DEF WorkersApart, Busy, Asleep
<1>6. ResultsInOrder
  BY DEF ResultsInOrder, InOrder
<1> QED
  BY <1>1, <1>3, <1>4, <1>5, <1>6 DEF IInv

LEMMA Stays == IInv /\ [Next]_vars => IInv'
<1> SUFFICES ASSUME IInv, [Next]_vars PROVE IInv'
  OBVIOUS
<1>1. ASSUME NEW p \in Block, ReceiveBlock(p) \/ EditBlock(p) \/ Unload(p) PROVE IInv'
  BY <1>1, ChangeBlockStep, UnloadStep DEF ReceiveBlock, EditBlock
<1>2. CASE AddBlock
  BY <1>2, AddBlockStep
<1>3. CASE DeferUpdate \/ StartDraining \/ NoUrgent \/ SendGotBlocks \/ UNCHANGED vars
  <2>1. TypeOK'
    BY <1>3, QuietType DEF IInv
  <2>2. UNCHANGED <<world, refs, changes, m_queue, m_inflight_blocks, outVars, worker>>
    BY <1>3 DEF DeferUpdate, StartDraining, NoUrgent, SendGotBlocks, vars, mainVars, queueVars
  <2> QED
    BY <2>1, <2>2, QuietStep DEF Busy
<1>4. CASE TakeUrgent \/ TakeNormal
  BY <1>4, TakeStep
<1>5. ASSUME NEW w \in Worker, WakeUp(w) \/ FindNothing(w) PROVE IInv'
  <2>1. TypeOK' /\ TypeOK
    BY <1>5, QuietType DEF IInv
  <2>2. UNCHANGED <<world, refs, changes, m_queue, m_inflight_blocks, outVars>>
    BY <1>5 DEF WakeUp, FindNothing, mainVars, queueVars
  <2>3. /\ ~Busy(w) /\ ~Busy(w)' /\ \A v \in Worker \ {w} : worker'[v] = worker[v]
    <3>1. PICK pc \in {"pop", "asleep"} :
              worker' = [worker EXCEPT ![w] = [worker[w] EXCEPT !.pc = pc]]
      BY <1>5 DEF WakeUp, FindNothing, SetPc
    <3>2. worker'[w].pc = pc
      BY <2>1, <3>1 DEF TypeOK, WorkerState
    <3> QED
      BY <1>5, <2>1, <3>1, <3>2 DEF WakeUp, FindNothing, Busy, TypeOK
  <2> QED
    BY <2>1, <2>2, <2>3, QuietStep DEF Busy
<1>6. ASSUME NEW w \in Worker, Pop(w) \/ FillBlockData(w) \/ PutResult(w) \/ Done(w) PROVE IInv'
  BY <1>6, PopStep, FillStep, PutStep, DoneStep
<1> QED
  BY <1>1, <1>2, <1>3, <1>4, <1>5, <1>6 DEF Next, MainNext, WorkerNext

LEMMA Invariance == Spec => []IInv
<1> QED
  BY Initially, Stays, PTL DEF Spec

(* The state is well-typed: in particular there is no urgent block without *)
(* an update in the queue, for which pop would look in vain.               *)
THEOREM TypeCorrect == Spec => []TypeOK
<1>1. IInv => TypeOK
  BY DEF IInv
<1> QED
  BY <1>1, Invariance, PTL

(* addBlock, the loop over the results and the merging of updates keep the *)
(* reference counts of the blocks exact, so that timerUpdate unloads no    *)
(* block that a worker may read, and keeps none for ever.                  *)
THEOREM RefsExactHolds == Spec => []RefsExact
<1>1. IInv => RefsExact
  BY DEF IInv
<1> QED
  BY <1>1, Invariance, PTL

(* With any number of workers the results of a block that one queue gives  *)
(* back are in the order in which the blocks were read: no worker makes a  *)
(* mesh of a block that another is at, and a later update holds what the   *)
(* earlier ones held.                                                      *)
THEOREM ResultsInOrderHolds == Spec => []ResultsInOrder
<1>1. IInv => ResultsInOrder
  BY DEF IInv
<1> QED
  BY <1>1, Invariance, PTL

-----------------------------------------------------------------------------
(* Freshness *)

(* What was drawn is of changes that have been.                            *)
ShownBound == \A p \in Block : shown[p] # None => \A b \in Reads(p) : shown[p][b] <= changes

(* Of two results of a block, one has read what is newer, or as new.       *)
Comparable ==
    \A r, s \in Results : r.p = s.p => NotNewer(r.mesh, s.mesh) \/ NotNewer(s.mesh, r.mesh)

(* The worker reads block b, or has read it, as it is now.                 *)
Reading(w, b) ==
    /\ b \in worker[w].job.holds
    /\ b \in DOMAIN worker[w].data => worker[w].data[b] = world[b]

(* Every update of p that is not drawn yet will show b as it is now.       *)
LaterFresh(p, b) ==
    /\ \A i \in DOMAIN m_queue : m_queue[i].p = p => b \in m_queue[i].holds
    /\ \A w \in Jobs : worker[w].job.p = p => Reading(w, b)
    /\ p \notin overtaken => \A r \in Results : r.p = p => r.mesh[b] = world[b]

(* What is drawn is not replaced by something older ...                    *)
ShownFirst ==
    \A p \in Block : \A b \in Reads(p) :
        shown[p] # None /\ world[b] # Absent /\ shown[p][b] = world[b] => LaterFresh(p, b)

(* ... and whatever is not drawn is on its way.                            *)
Requested(p) == \E k \in DOMAIN to_add.requests : to_add.requests[k].p = p
Queued(p, b) == \E i \in DOMAIN m_queue : m_queue[i].p = p /\ b \in m_queue[i].holds
Made(p, b) == \E w \in Jobs : worker[w].job.p = p /\ Reading(w, b)
Ready(p, b) == \E r \in Results : r.p = p /\ r.mesh[b] = world[b]
Drawn(p, b) == shown[p] # None /\ shown[p][b] = world[b]

Carried(p, b) == Requested(p) \/ Queued(p, b) \/ Made(p, b) \/ Ready(p, b) \/ Drawn(p, b)

AllCarried ==
    \A p \in Block \ overtaken : \A b \in Reads(p) :
        world[p] # Absent /\ world[b] # Absent => Carried(p, b)

FreshInv == ShownBound /\ Comparable /\ ShownFirst /\ AllCarried

(* What IInv says of what was read.                                        *)
LEMMA Sizes ==
    ASSUME IInv
    PROVE  /\ changes \in Nat
           /\ \A b \in Block : world[b] \in Nat /\ world[b] <= changes
           /\ \A p \in Block : shown[p] # None => \A b \in Reads(p) : shown[p][b] \in Nat
           /\ \A r \in Results : /\ r.p \in Block /\ DOMAIN r.mesh = Reads(r.p) /\ r.mesh # None
                                 /\ \A b \in Reads(r.p) :
                                      /\ b \in Block /\ r.mesh[b] \in Nat /\ r.mesh[b] <= world[b]
                                      /\ r.mesh[b] # Absent => b \in r.holds
           /\ \A w \in Jobs : /\ worker[w].job.p \in Block
                              /\ \A b \in DOMAIN worker[w].data :
                                   /\ b \in Reads(worker[w].job.p) /\ b \in Block
                                   /\ worker[w].data[b] \in Nat /\ worker[w].data[b] <= world[b]
<1>1. /\ changes \in Nat
      /\ \A b \in Block : world[b] \in Nat /\ world[b] <= changes
      /\ \A p \in Block : shown[p] # None => \A b \in Reads(p) : shown[p][b] \in Nat
  BY BoundAssumption DEF IInv, TypeOK, Version, WorldBound
<1>2. ASSUME NEW r \in Results
      PROVE  /\ r.p \in Block /\ DOMAIN r.mesh = Reads(r.p) /\ r.mesh # None
             /\ \A b \in Reads(r.p) :
                  /\ b \in Block /\ r.mesh[b] \in Nat /\ r.mesh[b] <= world[b]
                  /\ r.mesh[b] # Absent => b \in r.holds
  <2>1. r.p \in Block /\ r.mesh \in Data
    BY ResultType DEF IInv, Result
  <2>2. r.mesh \in [Reads(r.p) -> Version] /\ NoNewer(r.mesh, r.holds) /\ r.mesh # None
    BY <2>1, NoneAssumption DEF IInv, ResultsSound
  <2>3. ASSUME NEW b \in Reads(r.p)
        PROVE  /\ b \in Block /\ r.mesh[b] \in Nat /\ r.mesh[b] <= world[b]
               /\ r.mesh[b] # Absent => b \in r.holds
    <3>1. b \in Block /\ r.mesh[b] \in Nat /\ r.mesh[b] <= IF b \in r.holds THEN world[b] ELSE Absent
      BY <2>1, <2>2, ReadsAreBlocks, BoundAssumption DEF NoNewer, Version
    <3> QED
      BY <1>1, <3>1 DEF Absent
  <2> QED
    BY <2>1, <2>2, <2>3
<1>3. ASSUME NEW w \in Jobs
      PROVE  /\ worker[w].job.p \in Block
             /\ \A b \in DOMAIN worker[w].data :
                  /\ b \in Reads(worker[w].job.p) /\ b \in Block
                  /\ worker[w].data[b] \in Nat /\ worker[w].data[b] <= world[b]
  <2>1. worker[w].job \in Update /\ worker[w].data \in Data
    BY WorkerTypes DEF IInv, Jobs, Busy
  <2>2. worker[w].job.p \in Block
    BY <2>1 DEF Update
  <2>3. ASSUME NEW b \in DOMAIN worker[w].data
        PROVE  /\ b \in Reads(worker[w].job.p) /\ b \in Block
               /\ worker[w].data[b] \in Nat /\ worker[w].data[b] <= world[b]
    <3>1. /\ b \in Reads(worker[w].job.p)
          /\ worker[w].data[b] <= IF b \in worker[w].job.holds THEN world[b] ELSE Absent
      BY DEF IInv, JobsSound, JobSound, NoNewer
    <3>2. worker[w].data[b] \in Nat /\ b \in Block
      BY <2>1, BoundAssumption DEF Data, Version
    <3> QED
      BY <1>1, <3>1, <3>2 DEF Absent
  <2> QED
    BY <2>2, <2>3
<1> QED
  BY <1>1, <1>2, <1>3

(* After a result that shows b as it is now come only such ones: those     *)
(* made of a block that is held, and read later.                           *)
LEMMA FreshResult ==
    ASSUME IInv, NEW r \in Results, NEW b \in Reads(r.p), world[b] # Absent, r.mesh[b] = world[b]
    PROVE  /\ \A i \in DOMAIN m_queue : m_queue[i].p = r.p => b \in m_queue[i].holds
           /\ \A w \in Jobs : worker[w].job.p = r.p => Reading(w, b)
           /\ \A s \in Results : s.p = r.p /\ NotNewer(r.mesh, s.mesh) => s.mesh[b] = world[b]
<1>1. b \in r.holds /\ b \in Block /\ world[b] \in Nat /\ b \in DOMAIN r.mesh
  BY Sizes
<1>2. \A i \in DOMAIN m_queue : m_queue[i].p = r.p => b \in m_queue[i].holds
  BY <1>1 DEF IInv, HoldsGrow
<1>3. ASSUME NEW w \in Jobs, worker[w].job.p = r.p
      PROVE  Reading(w, b)
  <2>1. b \in worker[w].job.holds
    BY <1>1, <1>3 DEF IInv, HoldsGrow
  <2>2. ASSUME b \in DOMAIN worker[w].data
        PROVE  worker[w].data[b] = world[b]
    <3>1. r.mesh[b] <= worker[w].data[b]
      BY <1>3, <2>2 DEF IInv, JobsNewer
    <3>2. worker[w].data[b] <= world[b] /\ worker[w].data[b] \in Nat
      BY <2>2, Sizes
    <3> QED
      BY <1>1, <3>1, <3>2
  <2> QED
    BY <2>1, <2>2 DEF Reading
<1>4. ASSUME NEW s \in Results, s.p = r.p, NotNewer(r.mesh, s.mesh)
      PROVE  s.mesh[b] = world[b]
  <2>1. r.mesh[b] <= s.mesh[b]
    BY <1>1, <1>4 DEF NotNewer
  <2>2. s.mesh[b] \in Nat /\ s.mesh[b] <= world[b]
    BY <1>4, Sizes
  <2> QED
    BY <1>1, <2>1, <2>2
<1> QED
  BY <1>2, <1>3, <1>4

(* Steps that leave the updates, the blocks and what is drawn alone.       *)
LEMMA QuietFresh ==
    ASSUME FreshInv,
           UNCHANGED <<world, shown, overtaken, changes, m_queue, outVars>>,
           to_add'.requests = to_add.requests,
           Jobs' = Jobs, \A w \in Jobs : worker'[w] = worker[w]
    PROVE  FreshInv'
<1>1. Results' = Results
  BY DEF Results, outVars
<1>2. ShownBound' /\ Comparable'
  BY <1>1 DEF FreshInv, ShownBound, Comparable
<1>3. \A w \in Jobs : \A b : Reading(w, b)' <=> Reading(w, b)
  BY DEF Reading
<1>4. \A p, b : LaterFresh(p, b) => LaterFresh(p, b)'
  BY <1>1, <1>3 DEF LaterFresh
<1>5. ShownFirst'
  BY <1>4 DEF FreshInv, ShownFirst
<1>6. \A p, b : Carried(p, b) => Carried(p, b)'
  BY <1>1, <1>3 DEF Carried, Requested, Queued, Made, Ready, Drawn
<1>7. AllCarried'
  BY <1>6 DEF FreshInv, AllCarried
<1> QED
  BY <1>2, <1>5, <1>7 DEF FreshInv

-----------------------------------------------------------------------------
(* addUpdateMeshTaskWithEdge asks for every mesh that reads the block.     *)
LEMMA EdgeRequests ==
    ASSUME NEW p \in Block, NEW q \in Block, q \in Reads(p), NEW ack, NEW urgent
    PROVE  LET requests == WithEdge(q, ack, urgent).requests
           IN  \E k \in DOMAIN requests : requests[k].p = p
<1> DEFINE s == <<[p |-> q, ack |-> ack, urgent |-> urgent]>>
           t == [i \in DOMAIN Neighbors[q] |->
                    [p |-> Neighbors[q][i], ack |-> FALSE, urgent |-> urgent]]
<1>1. Neighbors[q] \in Seq(Block) /\ Neighbors[p] \in Seq(Block)
  BY NeighborsAssumption
<1>2. DOMAIN Neighbors[q] = 1 .. Len(Neighbors[q]) /\ Len(Neighbors[q]) \in Nat
  BY <1>1
<1> DEFINE R == [p : Block, ack : {ack, FALSE}, urgent : {urgent}]
<1>3. s \in Seq(R) /\ Len(s) = 1 /\ s[1].p = q
  OBVIOUS
<1>4. t \in Seq(R) /\ Len(t) = Len(Neighbors[q])
      /\ \A i \in DOMAIN Neighbors[q] : t[i].p = Neighbors[q][i]
  <2>1. t \in [1 .. Len(Neighbors[q]) -> R]
    BY <1>1, <1>2
  <2>2. t \in Seq(R)
    BY <1>2, <2>1
  <2> QED
    BY <1>2, <2>1, <2>2
<1>5. WithEdge(q, ack, urgent).requests = s \o t
  BY DEF WithEdge
<1> HIDE DEF s, t, R
<1>8. /\ s \o t \in Seq(R) /\ Len(s \o t) = Len(s) + Len(t)
      /\ \A i \in 1 .. Len(s) : (s \o t)[i] = s[i]
      /\ \A i \in 1 .. Len(t) : (s \o t)[Len(s) + i] = t[i]
  <2>1. s \in Seq(R) /\ t \in Seq(R)
    BY <1>3, <1>4
  <2> QED
    BY <2>1, ConcatIs
<1>9. DOMAIN (s \o t) = 1 .. Len(s) + Len(t) /\ Len(t) \in Nat
  BY <1>4, <1>8
<1>6. CASE p = q
  <2>1. 1 \in DOMAIN (s \o t) /\ (s \o t)[1] = s[1]
    BY <1>3, <1>8, <1>9
  <2> QED
    BY <1>3, <1>5, <1>6, <2>1
<1>7. CASE p # q
  <2>1. p \in ToSet(Neighbors[q])
    BY <1>7, EdgeAssumption DEF Reads
  <2>2. PICK i \in DOMAIN Neighbors[q] : Neighbors[q][i] = p
    BY <2>1 DEF ToSet
  <2>3. Len(s) + i \in DOMAIN (s \o t) /\ (s \o t)[Len(s) + i] = t[i]
    BY <1>2, <1>3, <1>4, <1>8, <1>9
  <2> QED
    BY <1>4, <1>5, <2>2, <2>3
<1> QED
  BY <1>6, <1>7

(* A change makes what is drawn out of date, and asks for it anew.         *)
LEMMA ChangeFresh ==
    ASSUME IInv, FreshInv, NEW q \in Block, NEW ack, NEW urgent, ChangeBlock(q, ack, urgent)
    PROVE  FreshInv'
<1>1. /\ changes \in Nat /\ \A b \in Block : world[b] \in Nat /\ world[b] <= changes
      /\ \A p \in Block : shown[p] # None => \A b \in Reads(p) : shown[p][b] \in Nat
  BY Sizes
<1>2. /\ to_add.requests = <<>> /\ changes' = changes + 1
      /\ \A b \in Block : world'[b] = IF b = q THEN changes + 1 ELSE world[b]
      /\ to_add' = WithEdge(q, ack, urgent)
      /\ UNCHANGED <<shown, overtaken, m_queue, outVars, worker>>
  BY DEF ChangeBlock, Idle, queueVars, IInv, TypeOK
<1>3. Results' = Results /\ Jobs' = Jobs
  BY <1>2 DEF Results, Jobs, outVars
<1>4. ShownBound'
  BY <1>1, <1>2 DEF FreshInv, ShownBound
<1>5. Comparable'
  BY <1>3 DEF FreshInv, Comparable
<1>6. \A w \in Jobs, b \in Block \ {q} : Reading(w, b)' <=> Reading(w, b)
  BY <1>2 DEF Reading
<1>7. ShownFirst'
  <2> SUFFICES ASSUME NEW p \in Block, NEW b \in Reads(p), shown[p] # None,
                      world'[b] # Absent, shown[p][b] = world'[b]
               PROVE  LaterFresh(p, b)'
    BY <1>2 DEF ShownFirst
  <2>1. b \in Block /\ shown[p][b] <= changes /\ shown[p][b] \in Nat
    BY <1>1, ReadsAreBlocks DEF FreshInv, ShownBound
  <2>2. b # q /\ world'[b] = world[b]
    BY <1>1, <1>2, <2>1
  <2>3. LaterFresh(p, b)
    BY <2>2 DEF FreshInv, ShownFirst
  <2> QED
    BY <1>2, <1>3, <1>6, <2>1, <2>2, <2>3 DEF LaterFresh
<1>8. AllCarried'
  <2> SUFFICES ASSUME NEW p \in Block \ overtaken, NEW b \in Reads(p),
                      world'[p] # Absent, world'[b] # Absent
               PROVE  Carried(p, b)'
    BY <1>2 DEF AllCarried
  <2>1. CASE q \in Reads(p)
    <3>1. Requested(p)'
      BY <1>2, <2>1, EdgeRequests DEF Requested
    <3> QED
      BY <3>1 DEF Carried
  <2>2. CASE q \notin Reads(p)
    <3>1. b # q /\ p # q /\ b \in Block
      BY <2>2, ReadsAreBlocks
    <3>2. world'[b] = world[b] /\ world'[p] = world[p]
      BY <1>2, <3>1
    <3>3. Carried(p, b) /\ ~Requested(p)
      BY <1>2, <3>2 DEF FreshInv, AllCarried, Requested
    <3> QED
      BY <1>2, <1>3, <1>6, <3>1, <3>2, <3>3 DEF Carried, Queued, Made, Ready, Drawn
  <2> QED
    BY <2>1, <2>2
<1> QED
  BY <1>4, <1>5, <1>7, <1>8 DEF FreshInv

(* Nothing is promised of a block that is not there.                       *)
LEMMA UnloadFresh ==
    ASSUME IInv, FreshInv, NEW q \in Block, Unload(q)
    PROVE  FreshInv'
<1>1. /\ \A b \in Block : world'[b] = IF b = q THEN Absent ELSE world[b]
      /\ \A p \in Block : shown'[p] = IF p = q THEN None ELSE shown[p]
      /\ overtaken' = overtaken \ {q}
      /\ UNCHANGED <<to_add, changes, m_queue, outVars, worker>>
  BY DEF Unload, queueVars, IInv, TypeOK
<1>2. Results' = Results /\ Jobs' = Jobs
  BY <1>1 DEF Results, Jobs, outVars
<1>3. ShownBound' /\ Comparable'
  BY <1>1, <1>2 DEF FreshInv, ShownBound, Comparable
<1>4. \A w \in Jobs, b \in Block \ {q} : Reading(w, b)' <=> Reading(w, b)
  BY <1>1 DEF Reading
<1>5. ShownFirst'
  <2> SUFFICES ASSUME NEW p \in Block, NEW b \in Reads(p), shown'[p] # None,
                      world'[b] # Absent, shown'[p][b] = world'[b]
               PROVE  LaterFresh(p, b)'
    BY DEF ShownFirst
  <2>1. p # q /\ b # q /\ b \in Block
    BY <1>1, ReadsAreBlocks
  <2>2. LaterFresh(p, b)
    BY <1>1, <2>1 DEF FreshInv, ShownFirst
  <2> QED
    BY <1>1, <1>2, <1>4, <2>1, <2>2 DEF LaterFresh
<1>6. AllCarried'
  <2> SUFFICES ASSUME NEW p \in Block \ overtaken', NEW b \in Reads(p),
                      world'[p] # Absent, world'[b] # Absent
               PROVE  Carried(p, b)'
    BY DEF AllCarried
  <2>1. p # q /\ b # q /\ b \in Block
    BY <1>1, ReadsAreBlocks
  <2>2. Carried(p, b)
    BY <1>1, <2>1 DEF FreshInv, AllCarried
  <2> QED
    BY <1>1, <1>2, <1>4, <2>1, <2>2 DEF Carried, Requested, Queued, Made, Ready, Drawn
<1> QED
  BY <1>3, <1>5, <1>6 DEF FreshInv

(* What addBlock makes of the queue: no update loses a block, and there is *)
(* one of the block asked for, which holds all that is there.              *)
LEMMA AddBlockQueue ==
    ASSUME IInv, AddBlock
    PROVE  LET r == Head(to_add.requests)
           IN  /\ r.p \in Block
               /\ \A i \in DOMAIN m_queue :
                    /\ i \in DOMAIN m_queue' /\ m_queue'[i].p = m_queue[i].p
                    /\ m_queue[i].holds \subseteq m_queue'[i].holds
               /\ \A j \in DOMAIN m_queue' :
                    \/ j \in DOMAIN m_queue
                    \/ Reads(m_queue'[j].p) \cap Loaded \subseteq m_queue'[j].holds
               /\ world[r.p] # Absent =>
                    \E j \in DOMAIN m_queue' :
                        m_queue'[j].p = r.p /\ Reads(r.p) \cap Loaded \subseteq m_queue'[j].holds
<1> DEFINE r == Head(to_add.requests)
           queued == {i \in DOMAIN m_queue : m_queue[i].p = r.p}
           there == Reads(r.p) \cap Loaded
<1>1. TypeOK /\ r \in Request /\ r.p \in Block /\ m_queue \in Seq(Update)
  <2>1. TypeOK /\ r \in Request
    BY DEF AddBlock, IInv, TypeOK, Adding
  <2>2. r.p \in Block
    BY <2>1 DEF Request
  <2> QED
    BY <2>1, <2>2 DEF TypeOK
<1>2. CASE world[r.p] = Absent /\ m_queue' = m_queue
  BY <1>1, <1>2
<1>3. CASE m_queue' = Append(m_queue, NewUpdate(r))
  <2> DEFINE e == NewUpdate(r)
             n == Len(m_queue) + 1
  <2>1. e \in Update /\ e.p = r.p /\ e.holds = there
    BY <1>1, UpdateTypes DEF NewUpdate
  <2>2. /\ DOMAIN m_queue' = DOMAIN m_queue \cup {n} /\ m_queue'[n] = e
        /\ \A i \in DOMAIN m_queue : m_queue'[i] = m_queue[i]
    BY <1>1, <1>3, <2>1
  <2> HIDE DEF e, n
  <2> QED
    BY <1>1, <2>1, <2>2
<1>4. ASSUME NEW i \in queued, m_queue' = [m_queue EXCEPT ![i] = Merged(@, r)]
      PROVE  /\ \A j \in DOMAIN m_queue :
                  /\ j \in DOMAIN m_queue' /\ m_queue'[j].p = m_queue[j].p
                  /\ m_queue[j].holds \subseteq m_queue'[j].holds
             /\ DOMAIN m_queue' = DOMAIN m_queue
             /\ m_queue'[i].p = r.p /\ there \subseteq m_queue'[i].holds
  <2> DEFINE q == m_queue[i]
             e == Merged(q, r)
  <2>1. i \in DOMAIN m_queue /\ q \in Update /\ q.p = r.p
    BY <1>1
  <2>2. e.p = r.p /\ e.holds = q.holds \cup there
    BY <2>1 DEF Merged, Update
  <2>3. /\ DOMAIN m_queue' = DOMAIN m_queue /\ m_queue'[i] = e
        /\ \A j \in DOMAIN m_queue : j # i => m_queue'[j] = m_queue[j]
    BY <1>1, <1>4, <2>1
  <2> QED
    BY <2>1, <2>2, <2>3
<1>5. CASE \E i \in queued : m_queue' = [m_queue EXCEPT ![i] = Merged(@, r)]
  <2>1. PICK i \in queued : m_queue' = [m_queue EXCEPT ![i] = Merged(@, r)]
    BY <1>5
  <2>2. /\ \A j \in DOMAIN m_queue :
             /\ j \in DOMAIN m_queue' /\ m_queue'[j].p = m_queue[j].p
             /\ m_queue[j].holds \subseteq m_queue'[j].holds
        /\ DOMAIN m_queue' = DOMAIN m_queue
        /\ i \in DOMAIN m_queue' /\ m_queue'[i].p = r.p /\ there \subseteq m_queue'[i].holds
    BY <1>4, <2>1
  <2> QED
    BY <1>1, <2>2
<1> QED
  BY <1>2, <1>3, <1>5 DEF AddBlock

(* A request becomes an update that holds the blocks.                      *)
LEMMA AddBlockFresh ==
    ASSUME IInv, FreshInv, AddBlock
    PROVE  FreshInv'
<1> DEFINE r == Head(to_add.requests)
<1>1. /\ \A i \in DOMAIN m_queue :
           /\ i \in DOMAIN m_queue' /\ m_queue'[i].p = m_queue[i].p
           /\ m_queue[i].holds \subseteq m_queue'[i].holds
      /\ \A j \in DOMAIN m_queue' :
           \/ j \in DOMAIN m_queue
           \/ Reads(m_queue'[j].p) \cap Loaded \subseteq m_queue'[j].holds
      /\ world[r.p] # Absent =>
           \E j \in DOMAIN m_queue' :
               m_queue'[j].p = r.p /\ Reads(r.p) \cap Loaded \subseteq m_queue'[j].holds
  BY AddBlockQueue
<1>2. /\ to_add.requests # <<>> /\ to_add.requests \in Seq(Request)
      /\ to_add'.requests = Tail(to_add.requests)
      /\ UNCHANGED <<world, shown, overtaken, changes, outVars, worker>>
  BY DEF AddBlock, IInv, TypeOK, Adding
<1>3. Results' = Results /\ Jobs' = Jobs
  BY <1>2 DEF Results, Jobs, outVars
<1>4. \A w, b : Reading(w, b)' <=> Reading(w, b)
  BY <1>2 DEF Reading
<1>5. ShownBound' /\ Comparable'
  BY <1>2, <1>3 DEF FreshInv, ShownBound, Comparable
<1>6. ShownFirst'
  <2> SUFFICES ASSUME NEW p \in Block, NEW b \in Reads(p), shown[p] # None,
                      world[b] # Absent, shown[p][b] = world[b]
               PROVE  LaterFresh(p, b)'
    BY <1>2 DEF ShownFirst
  <2>1. LaterFresh(p, b) /\ b \in Loaded
    BY ReadsAreBlocks DEF FreshInv, ShownFirst, Loaded
  <2>2. \A j \in DOMAIN m_queue' : m_queue'[j].p = p => b \in m_queue'[j].holds
    BY <1>1, <2>1 DEF LaterFresh
  <2> QED
    BY <1>2, <1>3, <1>4, <2>1, <2>2 DEF LaterFresh
<1>7. AllCarried'
  <2> SUFFICES ASSUME NEW p \in Block \ overtaken, NEW b \in Reads(p),
                      world[p] # Absent, world[b] # Absent
               PROVE  Carried(p, b)'
    BY <1>2 DEF AllCarried
  <2>1. Carried(p, b) /\ b \in Reads(p) \cap Loaded
    BY ReadsAreBlocks DEF FreshInv, AllCarried, Loaded
  <2>2. CASE r.p = p
    <3>1. Queued(p, b)'
      BY <1>1, <2>1, <2>2 DEF Queued
    <3> QED
      BY <3>1 DEF Carried
  <2>3. CASE Requested(p) /\ r.p # p
    <3>1. PICK k \in DOMAIN to_add.requests : to_add.requests[k].p = p
      BY <2>3 DEF Requested
    <3> DEFINE s == to_add.requests
    <3>2. s \in Seq(Request) /\ s # <<>> /\ k \in DOMAIN s /\ Head(s).p # p /\ s[k].p = p
      BY <1>2, <2>3, <3>1
    <3> HIDE DEF s
    <3>3. \E j \in DOMAIN Tail(s) : Tail(s)[j].p = p
      <4>1. k \in 1 .. Len(s) /\ k # 1 /\ Len(s) \in Nat
        BY <3>2
      <4>2. k - 1 \in DOMAIN Tail(s) /\ Tail(s)[k - 1] = s[k]
        BY <3>2, <4>1
      <4> QED
        BY <3>2, <4>2
    <3>4. Requested(p)'
      BY <1>2, <3>3 DEF Requested, s
    <3> QED
      BY <3>4 DEF Carried
  <2>4. CASE Queued(p, b)
    <3>1. Queued(p, b)'
      BY <1>1, <2>4 DEF Queued
    <3> QED
      BY <3>1 DEF Carried
  <2>5. CASE Made(p, b) \/ Ready(p, b) \/ Drawn(p, b)
    BY <1>2, <1>3, <1>4, <2>5 DEF Carried, Made, Ready, Drawn
  <2> QED
    BY <2>1, <2>2, <2>3, <2>4, <2>5 DEF Carried
<1> QED
  BY <1>5, <1>6, <1>7 DEF FreshInv

-----------------------------------------------------------------------------
(* A result is drawn that no other of the block is older than, unless the  *)
(* block is marked as overtaken.                                           *)
LEMMA DrawFresh ==
    ASSUME IInv, FreshInv, NEW r \in Results,
           UNCHANGED <<world, changes, to_add, m_queue, worker>>,
           shown' = [shown EXCEPT ![r.p] = r.mesh],
           Results' \subseteq Results, \A s \in Results : s # r => s \in Results',
           overtaken \subseteq overtaken', overtaken' \subseteq overtaken \cup {r.p},
           r.p \in overtaken' \/ \A s \in Results' : s.p = r.p => NotNewer(r.mesh, s.mesh)
    PROVE  FreshInv'
<1>1. /\ r.p \in Block /\ r.mesh # None
      /\ \A b \in Reads(r.p) : b \in Block /\ r.mesh[b] \in Nat /\ r.mesh[b] <= world[b]
      /\ \A b \in Block : world[b] \in Nat /\ world[b] <= changes
      /\ changes \in Nat
  BY Sizes
<1>2. \A p \in Block : shown'[p] = IF p = r.p THEN r.mesh ELSE shown[p]
  BY DEF IInv, TypeOK
<1>3. Jobs' = Jobs /\ \A w, b : Reading(w, b)' <=> Reading(w, b)
  BY DEF Jobs, Reading
<1>4. ShownBound'
  <2> SUFFICES ASSUME NEW p \in Block, NEW b \in Reads(p), shown'[p] # None
               PROVE  shown'[p][b] <= changes
    BY DEF ShownBound
  <2>1. CASE p = r.p
    <3>1. r.mesh[b] \in Nat /\ r.mesh[b] <= world[b] /\ world[b] \in Nat /\ world[b] <= changes
      BY <1>1, <2>1
    <3> QED
      BY <1>1, <1>2, <2>1, <3>1
  <2>2. CASE p # r.p
    BY <1>2, <2>2 DEF FreshInv, ShownBound
  <2> QED
    BY <2>1, <2>2
<1>5. Comparable'
  BY DEF FreshInv, Comparable
<1>6. ShownFirst'
  <2> SUFFICES ASSUME NEW p \in Block, NEW b \in Reads(p), shown'[p] # None,
                      world[b] # Absent, shown'[p][b] = world[b]
               PROVE  LaterFresh(p, b)'
    BY DEF ShownFirst
  <2>1. CASE p = r.p
    <3>1. r.mesh[b] = world[b]
      BY <1>2, <2>1
    <3>2. /\ \A i \in DOMAIN m_queue : m_queue[i].p = r.p => b \in m_queue[i].holds
          /\ \A w \in Jobs : worker[w].job.p = r.p => Reading(w, b)
          /\ \A s \in Results : s.p = r.p /\ NotNewer(r.mesh, s.mesh) => s.mesh[b] = world[b]
      BY <2>1, <3>1, FreshResult
    <3> QED
      BY <1>3, <2>1, <3>2 DEF LaterFresh
  <2>2. CASE p # r.p
    <3>1. LaterFresh(p, b)
      BY <1>2, <2>2 DEF FreshInv, ShownFirst
    <3> QED
      BY <1>3, <2>2, <3>1 DEF LaterFresh
  <2> QED
    BY <2>1, <2>2
<1>7. AllCarried'
  <2> SUFFICES ASSUME NEW p \in Block \ overtaken', NEW b \in Reads(p),
                      world[p] # Absent, world[b] # Absent
               PROVE  Carried(p, b)'
    BY DEF AllCarried
  <2>1. Carried(p, b)
    BY DEF FreshInv, AllCarried
  <2>2. CASE Requested(p) \/ Queued(p, b) \/ Made(p, b)
    BY <1>3, <2>2 DEF Carried, Requested, Queued, Made
  <2>3. ASSUME p = r.p, r.mesh[b] = world[b]
        PROVE  Carried(p, b)'
    <3>1. Drawn(p, b)'
      BY <1>1, <1>2, <2>3 DEF Drawn
    <3> QED
      BY <3>1 DEF Carried
  <2>4. CASE Ready(p, b)
    <3>1. PICK s \in Results : s.p = p /\ s.mesh[b] = world[b]
      BY <2>4 DEF Ready
    <3>2. CASE s = r
      BY <2>3, <3>1, <3>2
    <3>3. CASE s # r
      <4>1. Ready(p, b)'
        BY <3>1, <3>3 DEF Ready
      <4> QED
        BY <4>1 DEF Carried
    <3> QED
      BY <3>2, <3>3
  <2>5. CASE Drawn(p, b)
    <3>1. CASE p = r.p
      <4>1. LaterFresh(p, b)
        BY <2>5 DEF Drawn, FreshInv, ShownFirst
      <4>2. r.mesh[b] = world[b]
        BY <3>1, <4>1 DEF LaterFresh
      <4> QED
        BY <2>3, <3>1, <4>2
    <3>2. CASE p # r.p
      <4>1. Drawn(p, b)'
        BY <1>2, <2>5, <3>2 DEF Drawn
      <4> QED
        BY <4>1 DEF Carried
    <3> QED
      BY <3>1, <3>2
  <2> QED
    BY <2>1, <2>2, <2>4, <2>5 DEF Carried
<1> QED
  BY <1>4, <1>5, <1>6, <1>7 DEF FreshInv

(* The head of a queue in order is the oldest of its block in that queue;  *)
(* if one of the other queue is not newer, the block is overtaken.         *)
LEMMA HeadOldest ==
    ASSUME NEW s \in Seq(Result), s # <<>>, InOrder(s)
    PROVE  /\ ToSet(s) = {Head(s)} \cup ToSet(Tail(s))
           /\ \A x \in ToSet(Tail(s)) : x.p = Head(s).p => NotNewer(Head(s).mesh, x.mesh)
<1>1. /\ DOMAIN s = 1 .. Len(s) /\ Len(s) \in Nat /\ 1 \in DOMAIN s /\ Head(s) = s[1]
      /\ DOMAIN Tail(s) = 1 .. Len(s) - 1 /\ \A i \in DOMAIN Tail(s) : Tail(s)[i] = s[i + 1]
  <2>1. DOMAIN s = 1 .. Len(s) /\ Len(s) \in Nat /\ 1 \in DOMAIN s /\ Head(s) = s[1]
    OBVIOUS
  <2>2. Tail(s) \in Seq(Result) /\ Len(Tail(s)) = Len(s) - 1
    OBVIOUS
  <2>3. \A i \in DOMAIN Tail(s) : Tail(s)[i] = s[i + 1]
    OBVIOUS
  <2> QED
    BY <2>1, <2>2, <2>3
<1>2. \A i \in DOMAIN Tail(s) : i + 1 \in DOMAIN s /\ 1 < i + 1
  BY <1>1
<1>3. \A i \in DOMAIN s : i = 1 \/ (i - 1 \in DOMAIN Tail(s) /\ Tail(s)[i - 1] = s[i])
  BY <1>1
<1>4. ToSet(s) = {Head(s)} \cup ToSet(Tail(s))
  <2> DEFINE t == Tail(s)
             h == Head(s)
  <2>1. /\ DOMAIN t = 1 .. Len(s) - 1 /\ h = s[1] /\ 1 \in DOMAIN s
        /\ \A i \in DOMAIN t : i + 1 \in DOMAIN s /\ t[i] = s[i + 1]
        /\ \A i \in DOMAIN s : i = 1 \/ (i - 1 \in DOMAIN t /\ t[i - 1] = s[i])
    BY <1>1, <1>2, <1>3
  <2> HIDE DEF t, h
  <2>2. ASSUME NEW x \in ToSet(s)
        PROVE  x \in {h} \cup ToSet(t)
    BY <2>1 DEF ToSet
  <2>3. ASSUME NEW x \in {h} \cup ToSet(t)
        PROVE  x \in ToSet(s)
    BY <2>1 DEF ToSet
  <2> QED
    BY <2>2, <2>3 DEF t, h
<1>5. ASSUME NEW x \in ToSet(Tail(s)), x.p = Head(s).p
      PROVE  NotNewer(Head(s).mesh, x.mesh)
  <2>1. PICK i \in DOMAIN Tail(s) : Tail(s)[i] = x
    BY DEF ToSet
  <2> QED
    BY <1>1, <1>2, <1>5, <2>1 DEF InOrder
<1> QED
  BY <1>4, <1>5

(* Overtake marks the block unless the other queue has only newer results. *)
LEMMA OvertakeMarks ==
    ASSUME FreshInv, NEW r \in Results, NEW others, ToSet(others) \subseteq Results,
           Overtake(r, others)
    PROVE  /\ overtaken \subseteq overtaken' /\ overtaken' \subseteq overtaken \cup {r.p}
           /\ r.p \in overtaken' \/ \A x \in ToSet(others) : x.p = r.p => NotNewer(r.mesh, x.mesh)
BY DEF Overtake, FreshInv, Comparable

(* Either queue's head can be drawn.                                       *)
LEMMA TakeFresh ==
    ASSUME IInv, FreshInv, TakeUrgent \/ TakeNormal
    PROVE  FreshInv'
<1>1. m_queue_out \in Seq(Result) /\ m_queue_out_urgent \in Seq(Result)
  BY DEF IInv, TypeOK
<1>2. UNCHANGED <<world, changes, to_add, m_queue, worker>>
  BY DEF TakeUrgent, TakeNormal, queueVars
<1>3. CASE TakeUrgent
  <2> DEFINE r == Head(m_queue_out_urgent)
  <2>1. /\ m_queue_out_urgent # <<>> /\ Show(r) /\ Overtake(r, m_queue_out)
        /\ m_queue_out_urgent' = Tail(m_queue_out_urgent) /\ m_queue_out' = m_queue_out
    BY <1>3 DEF TakeUrgent
  <2>2. /\ ToSet(m_queue_out_urgent) = {r} \cup ToSet(m_queue_out_urgent')
        /\ \A x \in ToSet(m_queue_out_urgent') : x.p = r.p => NotNewer(r.mesh, x.mesh)
    BY <1>1, <2>1, HeadOldest DEF IInv, ResultsInOrder
  <2>3. shown' = [shown EXCEPT ![r.p] = r.mesh]
    BY <2>1 DEF Show
  <2> HIDE DEF r
  <2>4. /\ r \in Results /\ Results' \subseteq Results /\ \A s \in Results : s # r => s \in Results'
        /\ ToSet(m_queue_out) \subseteq Results
    BY <2>1, <2>2 DEF Results
  <2>5. /\ overtaken \subseteq overtaken' /\ overtaken' \subseteq overtaken \cup {r.p}
        /\ r.p \in overtaken' \/ \A x \in ToSet(m_queue_out) : x.p = r.p => NotNewer(r.mesh, x.mesh)
    BY <2>1, <2>4, OvertakeMarks
  <2>6. r.p \in overtaken' \/ \A s \in Results' : s.p = r.p => NotNewer(r.mesh, s.mesh)
    BY <2>1, <2>2, <2>5 DEF Results
  <2> QED
    BY <1>2, <2>3, <2>4, <2>5, <2>6, DrawFresh
<1>4. CASE TakeNormal
  <2> DEFINE r == Head(m_queue_out)
  <2>1. /\ m_queue_out # <<>> /\ Show(r) /\ Overtake(r, m_queue_out_urgent)
        /\ m_queue_out' = Tail(m_queue_out) /\ m_queue_out_urgent' = m_queue_out_urgent
    BY <1>4 DEF TakeNormal
  <2>2. /\ ToSet(m_queue_out) = {r} \cup ToSet(m_queue_out')
        /\ \A x \in ToSet(m_queue_out') : x.p = r.p => NotNewer(r.mesh, x.mesh)
    BY <1>1, <2>1, HeadOldest DEF IInv, ResultsInOrder
  <2>3. shown' = [shown EXCEPT ![r.p] = r.mesh]
    BY <2>1 DEF Show
  <2> HIDE DEF r
  <2>4. /\ r \in Results /\ Results' \subseteq Results /\ \A s \in Results : s # r => s \in Results'
        /\ ToSet(m_queue_out_urgent) \subseteq Results
    BY <2>1, <2>2 DEF Results
  <2>5. /\ overtaken \subseteq overtaken' /\ overtaken' \subseteq overtaken \cup {r.p}
        /\ \/ r.p \in overtaken'
           \/ \A x \in ToSet(m_queue_out_urgent) : x.p = r.p => NotNewer(r.mesh, x.mesh)
    BY <2>1, <2>4, OvertakeMarks
  <2>6. r.p \in overtaken' \/ \A s \in Results' : s.p = r.p => NotNewer(r.mesh, s.mesh)
    BY <2>1, <2>2, <2>5 DEF Results
  <2> QED
    BY <1>2, <2>3, <2>4, <2>5, <2>6, DrawFresh
<1> QED
  BY <1>3, <1>4

-----------------------------------------------------------------------------
(* The worker that pops an update has read nothing yet; ...                *)
LEMMA PopFresh ==
    ASSUME IInv, FreshInv, NEW w \in Worker, Pop(w)
    PROVE  FreshInv'
<1>1. PICK i \in DOMAIN m_queue :
        /\ m_queue' = RemoveAt(m_queue, i)
        /\ worker' = [worker EXCEPT ![w] = [pc |-> "work", job |-> m_queue[i], data |-> <<>>]]
  BY DEF Pop, Poppable
<1>2. UNCHANGED <<world, shown, overtaken, changes, to_add, outVars>> /\ worker[w].pc = "pop"
  BY DEF Pop, mainVars
<1>3. /\ worker'[w] = [pc |-> "work", job |-> m_queue[i], data |-> <<>>]
      /\ \A v \in Worker \ {w} : worker'[v] = worker[v]
  BY <1>1 DEF IInv, TypeOK
<1>4. /\ Jobs' = Jobs \cup {w} /\ w \notin Jobs
      /\ \A v \in Jobs : v # w /\ worker'[v] = worker[v]
  BY <1>2, <1>3 DEF Jobs
<1>5. /\ \A j \in DOMAIN m_queue' : \E k \in DOMAIN m_queue : m_queue'[j] = m_queue[k]
      /\ \A k \in DOMAIN m_queue : k = i \/ \E j \in DOMAIN m_queue' : m_queue'[j] = m_queue[k]
  <2>1. m_queue \in Seq(Update)
    BY DEF IInv, TypeOK
  <2>2. /\ m_queue' \in Seq(Update) /\ Len(m_queue') = Len(m_queue) - 1
        /\ \A j \in DOMAIN m_queue' : m_queue'[j] = m_queue[IF j < i THEN j ELSE j + 1]
    BY <1>1, <2>1, RemoveAtIs
  <2>3. /\ DOMAIN m_queue = 1 .. Len(m_queue) /\ DOMAIN m_queue' = 1 .. Len(m_queue) - 1
        /\ Len(m_queue) \in Nat
    BY <2>1, <2>2
  <2>4. ASSUME NEW j \in DOMAIN m_queue'
        PROVE  \E k \in DOMAIN m_queue : m_queue'[j] = m_queue[k]
    <3>1. (IF j < i THEN j ELSE j + 1) \in DOMAIN m_queue
      BY <2>3
    <3> QED
      BY <2>2, <3>1
  <2>5. ASSUME NEW k \in DOMAIN m_queue, k # i
        PROVE  \E j \in DOMAIN m_queue' : m_queue'[j] = m_queue[k]
    <3>1. CASE k < i
      <4>1. k \in DOMAIN m_queue' /\ m_queue'[k] = m_queue[k]
        BY <2>2, <2>3, <3>1
      <4> QED
        BY <4>1
    <3>2. CASE ~(k < i)
      <4>1. k - 1 \in DOMAIN m_queue' /\ ~(k - 1 < i) /\ (k - 1) + 1 = k
        BY <2>3, <2>5, <3>2
      <4>2. m_queue'[k - 1] = m_queue[k]
        BY <2>2, <4>1
      <4> QED
        BY <4>1, <4>2
    <3> QED
      BY <3>1, <3>2
  <2> QED
    BY <2>4, <2>5
<1>6. Results' = Results
  BY <1>2 DEF Results, outVars
<1>7. \A v \in Jobs : \A b : Reading(v, b)' <=> Reading(v, b)
  BY <1>2, <1>4 DEF Reading
<1>8. /\ worker'[w].job = m_queue[i]
      /\ \A b : Reading(w, b)' <=> b \in m_queue[i].holds
  BY <1>3 DEF Reading
<1>9. ShownBound' /\ Comparable'
  BY <1>2, <1>6 DEF FreshInv, ShownBound, Comparable
<1>10. ShownFirst'
  <2> SUFFICES ASSUME NEW p \in Block, NEW b \in Reads(p), shown[p] # None,
                      world[b] # Absent, shown[p][b] = world[b]
               PROVE  LaterFresh(p, b)'
    BY <1>2 DEF ShownFirst
  <2>1. LaterFresh(p, b)
    BY DEF FreshInv, ShownFirst
  <2>2. \A j \in DOMAIN m_queue' : m_queue'[j].p = p => b \in m_queue'[j].holds
    BY <1>5, <2>1 DEF LaterFresh
  <2>3. \A v \in Jobs' : worker'[v].job.p = p => Reading(v, b)'
    BY <1>4, <1>7, <1>8, <2>1 DEF LaterFresh
  <2> QED
    BY <1>2, <1>6, <2>1, <2>2, <2>3 DEF LaterFresh
<1>11. AllCarried'
  <2> SUFFICES ASSUME NEW p \in Block \ overtaken, NEW b \in Reads(p),
                      world[p] # Absent, world[b] # Absent
               PROVE  Carried(p, b)'
    BY <1>2 DEF AllCarried
  <2>1. Carried(p, b)
    BY DEF FreshInv, AllCarried
  <2>2. CASE Requested(p) \/ Ready(p, b) \/ Drawn(p, b)
    BY <1>2, <1>6, <2>2 DEF Carried, Requested, Ready, Drawn
  <2>3. CASE Made(p, b)
    <3>1. Made(p, b)'
      BY <1>4, <1>7, <2>3 DEF Made
    <3> QED
      BY <3>1 DEF Carried
  <2>4. CASE Queued(p, b)
    <3>1. PICK k \in DOMAIN m_queue : m_queue[k].p = p /\ b \in m_queue[k].holds
      BY <2>4 DEF Queued
    <3>2. CASE k = i
      <4>1. Made(p, b)'
        BY <1>4, <1>8, <3>1, <3>2 DEF Made
      <4> QED
        BY <4>1 DEF Carried
    <3>3. CASE k # i
      <4>1. Queued(p, b)'
        BY <1>5, <3>1, <3>3 DEF Queued
      <4> QED
        BY <4>1 DEF Carried
    <3> QED
      BY <3>2, <3>3
  <2> QED
    BY <2>1, <2>2, <2>3, <2>4 DEF Carried
<1> QED
  BY <1>9, <1>10, <1>11 DEF FreshInv

(* ... it reads the blocks as they are; ...                                *)
LEMMA FillFresh ==
    ASSUME IInv, FreshInv, NEW w \in Worker, FillBlockData(w)
    PROVE  FreshInv'
<1>1. PICK x \in Unread(w) :
        worker' = [worker EXCEPT ![w] = [worker[w] EXCEPT !.data = ReadBlock(w, x)]]
  BY FillType DEF IInv
<1>2. /\ UNCHANGED <<world, shown, overtaken, changes, to_add, m_queue, outVars>>
      /\ worker[w].pc = "work"
  BY DEF FillBlockData, mainVars, queueVars
<1>3. /\ worker'[w].pc = "work" /\ worker'[w].job = worker[w].job
      /\ worker'[w].data = ReadBlock(w, x) /\ \A v \in Worker \ {w} : worker'[v] = worker[v]
  BY <1>1, <1>2 DEF IInv, TypeOK, WorkerState
<1>4. Jobs' = Jobs /\ \A v \in Jobs : worker'[v].job = worker[v].job
  BY <1>2, <1>3 DEF Jobs
<1>5. Results' = Results
  BY <1>2 DEF Results, outVars
<1>6. ASSUME NEW v \in Jobs, NEW b, Reading(v, b)
      PROVE  Reading(v, b)'
  <2>1. CASE v # w
    BY <1>2, <1>3, <1>6, <2>1 DEF Reading, Jobs
  <2>2. CASE v = w
    <3>1. b \in worker[w].job.holds
      BY <1>6, <2>2 DEF Reading
    <3>2. /\ DOMAIN ReadBlock(w, x) = DOMAIN worker[w].data \cup {x}
          /\ ReadBlock(w, x)[x] = IF x \in worker[w].job.holds THEN world[x] ELSE Absent
          /\ \A c \in DOMAIN worker[w].data \ {x} : ReadBlock(w, x)[c] = worker[w].data[c]
      BY DEF ReadBlock
    <3>3. b \in DOMAIN ReadBlock(w, x) => ReadBlock(w, x)[b] = world[b]
      BY <1>6, <2>2, <3>1, <3>2 DEF Reading
    <3> QED
      BY <1>2, <1>3, <2>2, <3>1, <3>3 DEF Reading
  <2> QED
    BY <2>1, <2>2
<1>7. ShownBound' /\ Comparable'
  BY <1>2, <1>5 DEF FreshInv, ShownBound, Comparable
<1>8. ShownFirst'
  BY <1>2, <1>4, <1>5, <1>6 DEF FreshInv, ShownFirst, LaterFresh
<1>9. AllCarried'
  <2> SUFFICES ASSUME NEW p \in Block \ overtaken, NEW b \in Reads(p),
                      world[p] # Absent, world[b] # Absent
               PROVE  Carried(p, b)'
    BY <1>2 DEF AllCarried
  <2>1. Carried(p, b)
    BY DEF FreshInv, AllCarried
  <2>2. CASE Requested(p) \/ Queued(p, b) \/ Ready(p, b) \/ Drawn(p, b)
    BY <1>2, <1>5, <2>2 DEF Carried, Requested, Queued, Ready, Drawn
  <2>3. CASE Made(p, b)
    <3>1. Made(p, b)'
      BY <1>4, <1>6, <2>3 DEF Made
    <3> QED
      BY <3>1 DEF Carried
  <2> QED
    BY <2>1, <2>2, <2>3 DEF Carried
<1> QED
  BY <1>7, <1>8, <1>9 DEF FreshInv

(* ... and its result is newer than those before it.                       *)
LEMMA PutFresh ==
    ASSUME IInv, FreshInv, NEW w \in Worker, PutResult(w)
    PROVE  FreshInv'
<1> DEFINE e == ResultOf(w)
           job == worker[w].job
<1>1. e \in Result /\ worker[w].data \in [Reads(job.p) -> Version] /\ job.p \in Block
  BY PutType, Sizes DEF IInv, PutResult, Jobs
<1>2. /\ worker[w].pc = "work"
      /\ worker' = [worker EXCEPT ![w] = [worker[w] EXCEPT !.pc = "done", !.data = <<>>]]
      /\ UNCHANGED <<world, shown, overtaken, changes, to_add, m_queue>>
  BY DEF PutResult, mainVars, queueVars
<1>3. /\ w \in Jobs /\ Jobs' = Jobs \ {w} /\ \A v \in Jobs \ {w} : worker'[v] = worker[v]
  BY <1>2 DEF Jobs, IInv, TypeOK, WorkerState
<1>4. e.p = job.p /\ e.mesh = worker[w].data
  BY DEF ResultOf
<1>5. Results' = Results \cup {e}
  <2>1. m_queue_out \in Seq(Result) /\ m_queue_out_urgent \in Seq(Result)
    BY DEF IInv, TypeOK
  <2>2. /\ ToSet(Append(m_queue_out, e)) = ToSet(m_queue_out) \cup {e}
        /\ ToSet(Append(m_queue_out_urgent, e)) = ToSet(m_queue_out_urgent) \cup {e}
    BY <1>1, <2>1, ToSetChanges
  <2>3. \/ m_queue_out' = Append(m_queue_out, e) /\ m_queue_out_urgent' = m_queue_out_urgent
        \/ m_queue_out_urgent' = Append(m_queue_out_urgent, e) /\ m_queue_out' = m_queue_out
    BY DEF PutResult
  <2> HIDE DEF e
  <2> QED
    BY <2>2, <2>3 DEF Results
<1> HIDE DEF e
<1>6. \A v \in Jobs \ {w} : \A b : Reading(v, b)' <=> Reading(v, b)
  BY <1>2, <1>3 DEF Reading
<1>7. ShownBound'
  BY <1>2 DEF FreshInv, ShownBound
<1>8. Comparable'
  <2>1. \A r \in Results : r.p = e.p => NotNewer(r.mesh, e.mesh)
    <3> SUFFICES ASSUME NEW r \in Results, r.p = e.p, NEW b \in DOMAIN r.mesh
                 PROVE  r.mesh[b] <= e.mesh[b]
      BY DEF NotNewer
    <3>1. b \in DOMAIN worker[w].data
      BY <1>1, <1>4, Sizes
    <3> QED
      BY <1>3, <1>4, <3>1 DEF IInv, JobsNewer
  <2>2. NotNewer(e.mesh, e.mesh)
    BY <1>1, <1>4, BoundAssumption DEF NotNewer, Version
  <2> QED
    BY <1>5, <2>1, <2>2 DEF FreshInv, Comparable
<1>9. ASSUME NEW b \in Reads(e.p), Reading(w, b)
      PROVE  e.mesh[b] = world[b]
  BY <1>1, <1>4, <1>9 DEF Reading
<1>10. ShownFirst'
  <2> SUFFICES ASSUME NEW p \in Block, NEW b \in Reads(p), shown[p] # None,
                      world[b] # Absent, shown[p][b] = world[b]
               PROVE  LaterFresh(p, b)'
    BY <1>2 DEF ShownFirst
  <2>1. LaterFresh(p, b)
    BY DEF FreshInv, ShownFirst
  <2>2. \A v \in Jobs' : worker'[v].job.p = p => Reading(v, b)'
    BY <1>3, <1>6, <2>1 DEF LaterFresh
  <2>3. e.p = p => e.mesh[b] = world[b]
    BY <1>3, <1>4, <1>9, <2>1 DEF LaterFresh
  <2> QED
    BY <1>2, <1>5, <2>1, <2>2, <2>3 DEF LaterFresh
<1>11. AllCarried'
  <2> SUFFICES ASSUME NEW p \in Block \ overtaken, NEW b \in Reads(p),
                      world[p] # Absent, world[b] # Absent
               PROVE  Carried(p, b)'
    BY <1>2 DEF AllCarried
  <2>1. Carried(p, b)
    BY DEF FreshInv, AllCarried
  <2>2. CASE Requested(p) \/ Queued(p, b) \/ Ready(p, b) \/ Drawn(p, b)
    BY <1>2, <1>5, <2>2 DEF Carried, Requested, Queued, Ready, Drawn
  <2>3. CASE Made(p, b)
    <3>1. PICK v \in Jobs : worker[v].job.p = p /\ Reading(v, b)
      BY <2>3 DEF Made
    <3>2. CASE v = w
      <4>1. Ready(p, b)'
        BY <1>2, <1>4, <1>5, <1>9, <3>1, <3>2 DEF Ready
      <4> QED
        BY <4>1 DEF Carried
    <3>3. CASE v # w
      <4>1. Made(p, b)'
        BY <1>3, <1>6, <3>1, <3>3 DEF Made
      <4> QED
        BY <4>1 DEF Carried
    <3> QED
      BY <3>2, <3>3
  <2> QED
    BY <2>1, <2>2, <2>3 DEF Carried
<1> QED
  BY <1>7, <1>8, <1>10, <1>11 DEF FreshInv

(* Workers that make no mesh                                               *)
LEMMA DoneFresh ==
    ASSUME IInv, FreshInv, NEW w \in Worker, WakeUp(w) \/ FindNothing(w) \/ Done(w)
    PROVE  FreshInv'
<1>1. /\ UNCHANGED <<world, shown, overtaken, changes, m_queue, outVars, to_add>>
      /\ worker[w].pc # "work"
  BY DEF WakeUp, FindNothing, Done, mainVars, queueVars
<1>2. worker'[w].pc # "work" /\ \A v \in Worker \ {w} : worker'[v] = worker[v]
  <2>1. CASE WakeUp(w)
    BY <2>1 DEF WakeUp, SetPc, IInv, TypeOK, WorkerState
  <2>2. CASE FindNothing(w)
    BY <2>2 DEF FindNothing, SetPc, IInv, TypeOK, WorkerState
  <2>3. CASE Done(w)
    BY <2>3 DEF Done, IInv, TypeOK, WorkerState
  <2> QED
    BY <2>1, <2>2, <2>3
<1>3. Jobs' = Jobs /\ \A v \in Jobs : worker'[v] = worker[v]
  BY <1>1, <1>2 DEF Jobs
<1> QED
  BY <1>1, <1>3, QuietFresh

(* Nothing that has changed is forgotten on its way to the screen.         *)
LEMMA Freshness == Spec => []FreshInv
<1>1. Init => FreshInv
  <2> SUFFICES ASSUME Init
               PROVE  FreshInv
    OBVIOUS
  <2>1. Results = {} /\ \A p \in Block : shown[p] = None /\ world[p] = Absent
    BY DEF Init, Results, ToSet
  <2> QED
    BY <2>1 DEF FreshInv, ShownBound, Comparable, ShownFirst, AllCarried
<1>2. IInv /\ FreshInv /\ [Next]_vars => FreshInv'
  <2> SUFFICES ASSUME IInv, FreshInv, [Next]_vars
               PROVE  FreshInv'
    OBVIOUS
  <2>1. ASSUME NEW p \in Block, ReceiveBlock(p) \/ EditBlock(p) \/ Unload(p)
        PROVE  FreshInv'
    BY <2>1, ChangeFresh, UnloadFresh DEF ReceiveBlock, EditBlock
  <2>2. CASE AddBlock
    BY <2>2, AddBlockFresh
  <2>3. CASE DeferUpdate \/ StartDraining \/ NoUrgent \/ SendGotBlocks \/ UNCHANGED vars
    <3>1. /\ UNCHANGED <<world, shown, overtaken, changes, m_queue, outVars, worker>>
          /\ to_add'.requests = to_add.requests
      BY <2>3 DEF DeferUpdate, StartDraining, NoUrgent, SendGotBlocks, vars, mainVars,
                  queueVars, IInv, TypeOK, Adding
    <3>2. Jobs' = Jobs
      BY <3>1 DEF Jobs
    <3> QED
      BY <3>1, <3>2, QuietFresh
  <2>4. CASE TakeUrgent \/ TakeNormal
    BY <2>4, TakeFresh
  <2>5. ASSUME NEW w \in Worker, WorkerNext(w)
        PROVE  FreshInv'
    BY <2>5, DoneFresh, PopFresh, FillFresh, PutFresh DEF WorkerNext
  <2> QED
    BY <2>1, <2>2, <2>3, <2>4, <2>5 DEF Next, MainNext
<1> QED
  BY <1>1, <1>2, Invariance, PTL DEF Spec

(* However updates are merged, made by several workers and given back by   *)
(* two queues: what is drawn, when nothing is under way, is what is there. *)
THEOREM StaleOnlyIfOvertakenHolds == Spec => []StaleOnlyIfOvertaken
<1>1. FreshInv => StaleOnlyIfOvertaken
  <2> SUFFICES ASSUME FreshInv, NEW p \in Block \ overtaken, world[p] # Absent, Settled(p)
               PROVE  UpToDate(p)
    BY DEF StaleOnlyIfOvertaken
  <2>1. ASSUME NEW b \in Reads(p), world[b] # Absent
        PROVE  Drawn(p, b)
    <3>1. Carried(p, b)
      BY <2>1 DEF FreshInv, AllCarried
    <3> QED
      BY <3>1 DEF Carried, Requested, Queued, Made, Ready, Settled, Results
  <2>2. Drawn(p, p)
    BY <2>1, ReadsAreBlocks
  <2> QED
    BY <2>1, <2>2 DEF UpToDate, Drawn
<1> QED
  BY <1>1, Freshness, PTL

-----------------------------------------------------------------------------
(* Acknowledgements                                                        *)

(* What an update, a request or a result has to acknowledge of p.          *)
AcksFor(q, p) == IF q.p = p THEN q.acks ELSE 0

(* Updates in any places: positions of a queue, or workers.                *)
Carrying(f) == IsFiniteSet(DOMAIN f) /\ \A x \in DOMAIN f : f[x].acks \in Nat

(* What AckPlaces holds.                                                   *)
LEMMA PlacesAre ==
    ASSUME NEW f, NEW p
    PROVE  /\ \A x, k : <<x, k>> \in AckPlaces(f, p) <=>
                x \in DOMAIN f /\ k \in 1 .. f[x].acks /\ f[x].p = p
           /\ \A at \in AckPlaces(f, p) : at = <<at[1], at[2]>>
BY DEF AckPlaces

(* The places of one update are as many as it has to acknowledge.          *)
LEMMA ColumnFinite ==
    ASSUME NEW x, NEW n \in Nat
    PROVE  IsFiniteSet({x} \X (1 .. n)) /\ Cardinality({x} \X (1 .. n)) = n
<1> DEFINE S == {x}
           T == 1 .. n
<1>1. IsFiniteSet(S) /\ Cardinality(S) = 1
  BY FS_Singleton
<1>2. 1 \in Int /\ n \in Int
  OBVIOUS
<1>3. IsFiniteSet(T) /\ Cardinality(T) = IF 1 > n THEN 0 ELSE n - 1 + 1
  BY <1>2, FS_Interval
<1>4. Cardinality(T) = n
  BY <1>3
<1> HIDE DEF S, T
<1>5. IsFiniteSet(S \X T) /\ Cardinality(S \X T) = Cardinality(S) * Cardinality(T)
  BY <1>1, <1>3, FS_Product
<1>6. Cardinality(S \X T) = n
  BY <1>1, <1>4, <1>5
<1> QED
  BY <1>5, <1>6 DEF S, T

(* There are finitely many places in all.                                  *)
LEMMA PlacesFinite ==
    ASSUME NEW f, Carrying(f), NEW p
    PROVE  IsFiniteSet(AckPlaces(f, p)) /\ AcksIn(f, p) \in Nat
<1> DEFINE X == {y \in DOMAIN f : f[y].p = p}
           parts == {{x} \X (1 .. f[x].acks) : x \in X}
           part == [x \in X |-> {x} \X (1 .. f[x].acks)]
<1>1. IsFiniteSet(X)
  BY FS_Subset DEF Carrying
<1>2. IsFiniteSet(parts)
  <2>1. part \in [X -> parts]
    BY Zenon
  <2>2. \A y \in parts : \E x \in X : part[x] = y
    BY Zenon
  <2>3. part \in Surjection(X, parts)
    BY <2>1, <2>2, Zenon DEF Surjection
  <2> HIDE DEF X, parts, part
  <2> QED
    BY <2>3, <1>1, FS_Surjection
<1>3. ASSUME NEW x \in X PROVE IsFiniteSet({x} \X (1 .. f[x].acks))
  <2>1. PICK n \in Nat : n = f[x].acks
    BY DEF Carrying
  <2> QED
    BY <2>1, ColumnFinite
<1>4. IsFiniteSet(UNION parts)
  BY <1>2, <1>3, FS_UNION
<1>5. AckPlaces(f, p) = UNION parts
  BY DEF AckPlaces
<1> QED
  BY <1>4, <1>5, FS_CardinalityType DEF AcksIn

(* g has what f has but for x, in places that h matches.                   *)
LEMMA AcksMove ==
    ASSUME NEW f, Carrying(f), NEW x \in DOMAIN f, NEW g, Carrying(g),
           NEW h \in Bijection(DOMAIN g, DOMAIN f \ {x}),
           \A y \in DOMAIN g : g[y].p = f[h[y]].p /\ g[y].acks = f[h[y]].acks,
           NEW p
    PROVE  AcksIn(f, p) = AcksIn(g, p) + AcksFor(f[x], p)
<1> DEFINE F == AckPlaces(f, p)
           G == AckPlaces(g, p)
           here == {x} \X (1 .. AcksFor(f[x], p))
           rest == {at \in F : at[1] # x}
           m == [at \in G |-> <<h[at[1]], at[2]>>]
<1>1. /\ \A y \in DOMAIN g : h[y] \in DOMAIN f /\ h[y] # x
      /\ \A y, z \in DOMAIN g : h[y] = h[z] => y = z
      /\ \A y \in DOMAIN f \ {x} : \E z \in DOMAIN g : h[z] = y
  BY DEF Bijection, Injection, Surjection, IsInjective
<1>2. IsFiniteSet(F) /\ AcksIn(f, p) \in Nat /\ IsFiniteSet(G) /\ AcksIn(g, p) \in Nat
  BY PlacesFinite
<1>3. /\ \A y, k : <<y, k>> \in F <=> y \in DOMAIN f /\ k \in 1 .. f[y].acks /\ f[y].p = p
      /\ \A y, k : <<y, k>> \in G <=> y \in DOMAIN g /\ k \in 1 .. g[y].acks /\ g[y].p = p
      /\ \A at \in F \cup G : at = <<at[1], at[2]>>
  BY PlacesAre
<1> HIDE DEF F, G
<1>4. m \in Bijection(G, rest)
  <2>0. ASSUME NEW y, NEW k, <<y, k>> \in G
        PROVE  /\ y \in DOMAIN g /\ m[<<y, k>>] = <<h[y], k>>
               /\ <<h[y], k>> \in F /\ h[y] # x
    BY <2>0, <1>1, <1>3
  <2>1. ASSUME NEW at \in G PROVE m[at] \in rest
    <3>1. PICK y, k : at = <<y, k>>
      BY <1>3
    <3> QED
      BY <3>1, <2>0
  <2>2. ASSUME NEW a \in G, NEW b \in G, m[a] = m[b] PROVE a = b
    <3>1. PICK y, k : a = <<y, k>>
      BY <1>3
    <3>2. PICK z, l : b = <<z, l>>
      BY <1>3
    <3>3. <<h[y], k>> = <<h[z], l>> /\ y \in DOMAIN g /\ z \in DOMAIN g
      BY <3>1, <3>2, <2>2, <2>0
    <3>4. h[y] = h[z] /\ k = l
      BY <3>3
    <3> QED
      BY <3>1, <3>2, <3>3, <3>4, <1>1
  <2>3. ASSUME NEW at \in rest PROVE \E a \in G : m[a] = at
    <3>1. PICK y, k : at = <<y, k>> /\ y # x /\ <<y, k>> \in F
      BY <1>3
    <3>2. y \in DOMAIN f \ {x} /\ k \in 1 .. f[y].acks /\ f[y].p = p
      BY <3>1, <1>3
    <3>3. PICK z \in DOMAIN g : h[z] = y
      BY <1>1, <3>2
    <3>4. g[z].p = p /\ k \in 1 .. g[z].acks
      BY <3>2, <3>3
    <3>5. <<z, k>> \in G
      BY <3>4, <1>3
    <3> QED
      BY <3>1, <3>3, <3>5, <2>0
  <2> HIDE DEF m, rest
  <2>4. m \in [G -> rest]
    <3>1. m = [at \in G |-> m[at]]
      BY DEF m
    <3> QED
      BY <3>1, <2>1
  <2> QED
    BY <2>2, <2>3, <2>4 DEF Bijection, Injection, Surjection, IsInjective
<1>5. IsFiniteSet(rest) /\ Cardinality(rest) = AcksIn(g, p)
  BY <1>2, <1>4, FS_Bijection DEF ExistsBijection, AcksIn, G
<1>6. AcksFor(f[x], p) \in Nat /\ f[x].acks \in Nat
  BY DEF Carrying, AcksFor
<1>7. IsFiniteSet(here) /\ Cardinality(here) = AcksFor(f[x], p)
  <2>1. PICK n \in Nat : n = AcksFor(f[x], p)
    BY <1>6
  <2> QED
    BY <2>1, ColumnFinite
<1>8. F = here \cup rest /\ here \cap rest = {}
  <2>1. \A k : k \in 1 .. AcksFor(f[x], p) <=> <<x, k>> \in F
    BY <1>3, <1>6 DEF AcksFor
  <2>2. here \subseteq F /\ \A at \in here : at[1] = x
    BY <2>1
  <2>3. \A at \in F \ rest : at \in here
    BY <2>1, <1>3
  <2> QED
    BY <2>2, <2>3
<1> HIDE DEF here, rest
<1>9. Cardinality(F) = Cardinality(here) + Cardinality(rest) - Cardinality(here \cap rest)
  BY <1>5, <1>7, <1>8, FS_Union
<1>10. Cardinality(here \cap rest) = 0
  BY <1>8, FS_EmptySet
<1> QED
  BY <1>2, <1>5, <1>6, <1>7, <1>9, <1>10 DEF AcksIn, F

(* g is f without its i-th element.                                        *)
WithoutAt(f, n, i, g) ==
    /\ DOMAIN f = 1 .. n /\ \A j \in 1 .. n : f[j].acks \in Nat
    /\ DOMAIN g = 1 .. n - 1
    /\ \A j \in 1 .. n - 1 :
          /\ j < i => g[j].p = f[j].p /\ g[j].acks = f[j].acks
          /\ j >= i => g[j].p = f[j + 1].p /\ g[j].acks = f[j + 1].acks

(* ... so it has as many acknowledgements less.                            *)
LEMMA AcksWithout ==
    ASSUME NEW n \in Nat, NEW i \in 1 .. n, NEW f, NEW g, WithoutAt(f, n, i, g), NEW p
    PROVE  AcksIn(f, p) = AcksIn(g, p) + AcksFor(f[i], p)
<1> DEFINE h == [j \in 1 .. n - 1 |-> IF j < i THEN j ELSE j + 1]
<1>1. h \in [1 .. n - 1 -> 1 .. n \ {i}]
  OBVIOUS
<1>2. \A j, k \in 1 .. n - 1 : h[j] = h[k] => j = k
  OBVIOUS
<1>3. ASSUME NEW k \in 1 .. n \ {i} PROVE \E j \in 1 .. n - 1 : h[j] = k
  <2>1. CASE k < i
    <3>1. k \in 1 .. n - 1 /\ h[k] = k
      BY <2>1
    <3> QED
      BY <3>1
  <2>2. CASE k > i
    <3>1. k - 1 \in 1 .. n - 1 /\ h[k - 1] = k
      BY <2>2
    <3> QED
      BY <3>1
  <2> QED
    BY <2>1, <2>2
<1>4. \A j \in 1 .. n - 1 : /\ g[j].p = f[h[j]].p /\ g[j].acks = f[h[j]].acks
                            /\ h[j] \in 1 .. n
  <2> SUFFICES ASSUME NEW j \in 1 .. n - 1
               PROVE  /\ g[j].p = f[h[j]].p /\ g[j].acks = f[h[j]].acks
                      /\ h[j] \in 1 .. n
    OBVIOUS
  <2>1. CASE j < i
    BY <2>1 DEF WithoutAt
  <2>2. CASE j >= i
    BY <2>2 DEF WithoutAt
  <2> QED
    BY <2>1, <2>2
<1> HIDE DEF h
<1>5. h \in Bijection(DOMAIN g, DOMAIN f \ {i})
  BY <1>1, <1>2, <1>3 DEF Bijection, Injection, Surjection, IsInjective, WithoutAt
<1>6. Carrying(f) /\ Carrying(g)
  <2>1. 1 \in Int /\ n \in Int /\ n - 1 \in Int
    OBVIOUS
  <2>2. IsFiniteSet(1 .. n) /\ IsFiniteSet(1 .. n - 1)
    BY <2>1, FS_Interval
  <2> QED
    BY <2>2, <1>4 DEF Carrying, WithoutAt
<1>7. i \in DOMAIN f /\ \A j \in DOMAIN g : g[j].p = f[h[j]].p /\ g[j].acks = f[h[j]].acks
  <2>1. DOMAIN f = 1 .. n /\ DOMAIN g = 1 .. n - 1
    BY DEF WithoutAt
  <2>2. ASSUME NEW y \in DOMAIN g PROVE g[y].p = f[h[y]].p /\ g[y].acks = f[h[y]].acks
    <3>1. y \in 1 .. n - 1
      BY <2>1
    <3> QED
      BY <3>1, <1>4
  <2> QED
    BY <2>1, <2>2
<1> QED
  BY ONLY <1>5, <1>6, <1>7, AcksMove

(* The first update of a queue is taken, ...                               *)
LEMMA AcksTail ==
    ASSUME NEW S, \A q \in S : q.acks \in Nat, NEW s \in Seq(S), s # <<>>, NEW p
    PROVE  AcksIn(s, p) = AcksIn(Tail(s), p) + AcksFor(Head(s), p)
<1>1. PICK n \in Nat : n = Len(s)
  OBVIOUS
<1>2. 1 \in 1 .. n /\ Head(s) = s[1]
  BY <1>1
<1>3. /\ DOMAIN s = 1 .. n /\ \A j \in 1 .. n : s[j] \in S
      /\ DOMAIN Tail(s) = 1 .. n - 1 /\ \A j \in 1 .. n - 1 : Tail(s)[j] = s[j + 1]
  BY <1>1
<1>4. WithoutAt(s, n, 1, Tail(s))
  BY <1>3 DEF WithoutAt
<1> QED
  BY <1>2, <1>4, AcksWithout

(* ... one comes to its end, ...                                           *)
LEMMA AcksAppend ==
    ASSUME NEW S, \A q \in S : q.acks \in Nat, NEW s \in Seq(S), NEW e \in S, NEW p
    PROVE  AcksIn(Append(s, e), p) = AcksIn(s, p) + AcksFor(e, p)
<1>1. PICK n \in Nat : n = Len(s)
  OBVIOUS
<1>2. PICK m \in Nat : m = n + 1
  OBVIOUS
<1>3. m \in 1 .. m /\ m - 1 = n
  BY <1>2
<1>4. /\ DOMAIN s = 1 .. n /\ DOMAIN Append(s, e) = 1 .. m /\ Append(s, e)[m] = e
      /\ \A j \in 1 .. n : s[j] \in S /\ Append(s, e)[j] = s[j]
  BY <1>1, <1>2
<1>5. \A j \in 1 .. m : Append(s, e)[j].acks \in Nat
  BY <1>2, <1>4
<1>6. WithoutAt(Append(s, e), m, m, s)
  BY <1>3, <1>4, <1>5 DEF WithoutAt
<1> DEFINE t == Append(s, e)
<1> HIDE DEF t
<1>7. AcksIn(t, p) = AcksIn(s, p) + AcksFor(t[m], p)
  <2>1. WithoutAt(t, m, m, s)
    BY <1>6 DEF t
  <2> QED
    BY ONLY <1>3, <2>1, m \in Nat, AcksWithout
<1> QED
  BY <1>4, <1>7 DEF t

(* ... or one from its middle is taken.                                    *)
LEMMA AcksRemoved ==
    ASSUME NEW S, \A q \in S : q.acks \in Nat, NEW s \in Seq(S), NEW i \in DOMAIN s, NEW p
    PROVE  AcksIn(s, p) = AcksIn(RemoveAt(s, i), p) + AcksFor(s[i], p)
<1>1. PICK n \in Nat : n = Len(s)
  OBVIOUS
<1>2. DOMAIN s = 1 .. n /\ \A j \in 1 .. n : s[j] \in S
  BY <1>1
<1>3. /\ DOMAIN RemoveAt(s, i) = 1 .. n - 1
      /\ \A j \in 1 .. n - 1 : RemoveAt(s, i)[j] = s[IF j < i THEN j ELSE j + 1]
  <2>1. /\ RemoveAt(s, i) \in Seq(S) /\ Len(RemoveAt(s, i)) = n - 1
        /\ \A j \in DOMAIN RemoveAt(s, i) :
              RemoveAt(s, i)[j] = s[IF j < i THEN j ELSE j + 1]
    BY <1>1, RemoveAtIs
  <2>2. DOMAIN RemoveAt(s, i) = 1 .. n - 1
    BY <2>1
  <2> QED
    BY <2>1, <2>2
<1>4. WithoutAt(s, n, i, RemoveAt(s, i))
  BY <1>2, <1>3 DEF WithoutAt
<1> QED
  BY <1>2, <1>4, AcksWithout

(* Updates and the same without the one at x.                              *)
LEMMA AcksLess ==
    ASSUME NEW f, Carrying(f), NEW x \in DOMAIN f, NEW g, DOMAIN g = DOMAIN f \ {x},
           \A y \in DOMAIN g : g[y].p = f[y].p /\ g[y].acks = f[y].acks,
           NEW p
    PROVE  AcksIn(f, p) = AcksIn(g, p) + AcksFor(f[x], p)
<1> DEFINE h == [y \in DOMAIN g |-> y]
<1>1. h \in Bijection(DOMAIN g, DOMAIN f \ {x})
  BY DEF Bijection, Injection, Surjection, IsInjective
<1>2. Carrying(g)
  BY FS_Subset DEF Carrying
<1>3. \A y \in DOMAIN g : g[y].p = f[h[y]].p /\ g[y].acks = f[h[y]].acks
  OBVIOUS
<1> HIDE DEF h
<1> QED
  BY <1>1, <1>2, <1>3, AcksMove

(* The update at x is another one.                                         *)
LEMMA AcksReplace ==
    ASSUME NEW f, Carrying(f), NEW g, Carrying(g), DOMAIN g = DOMAIN f, NEW x \in DOMAIN f,
           \A y \in DOMAIN f \ {x} : g[y] = f[y],
           NEW p
    PROVE  AcksIn(f, p) + AcksFor(g[x], p) = AcksIn(g, p) + AcksFor(f[x], p)
<1> DEFINE r == [y \in DOMAIN f \ {x} |-> f[y]]
<1>1. DOMAIN r = DOMAIN f \ {x} /\ \A y \in DOMAIN r : r[y] = f[y] /\ r[y] = g[y]
  OBVIOUS
<1>2. Carrying(r)
  BY <1>1, FS_Subset DEF Carrying
<1> HIDE DEF r
<1>3. AcksIn(f, p) = AcksIn(r, p) + AcksFor(f[x], p)
  <2>1. /\ Carrying(f) /\ DOMAIN r = DOMAIN f \ {x}
        /\ \A y \in DOMAIN r : r[y].p = f[y].p /\ r[y].acks = f[y].acks
    BY <1>1
  <2> QED
    BY ONLY <2>1, x \in DOMAIN f, AcksLess
<1>4. AcksIn(g, p) = AcksIn(r, p) + AcksFor(g[x], p)
  <2>1. /\ Carrying(g) /\ DOMAIN r = DOMAIN g \ {x} /\ x \in DOMAIN g
        /\ \A y \in DOMAIN r : r[y].p = g[y].p /\ r[y].acks = g[y].acks
    BY <1>1
  <2> QED
    BY ONLY <2>1, AcksLess
<1>5. AcksFor(f[x], p) \in Nat /\ AcksFor(g[x], p) \in Nat /\ AcksIn(r, p) \in Nat
  BY <1>2, PlacesFinite DEF Carrying, AcksFor
<1> QED
  BY <1>3, <1>4, <1>5

(* Updates that stay where they are.                                       *)
LEMMA AcksSame ==
    ASSUME NEW f, NEW g, DOMAIN g = DOMAIN f,
           \A y \in DOMAIN f : g[y].p = f[y].p /\ g[y].acks = f[y].acks,
           NEW p
    PROVE  AcksIn(g, p) = AcksIn(f, p)
<1>1. AckPlaces(g, p) \subseteq AckPlaces(f, p) /\ AckPlaces(f, p) \subseteq AckPlaces(g, p)
  BY PlacesAre
<1> QED
  BY <1>1 DEF AcksIn

-----------------------------------------------------------------------------
(* What acknowledgements are where.                                        *)
CarryInv ==
    /\ Carrying(Asked) /\ Carrying(m_queue) /\ Carrying(AtWork)
    /\ Carrying(m_queue_out) /\ Carrying(m_queue_out_urgent)
    /\ blocks_to_ack \in [Block -> Nat]

(* A queue of updates is finite.                                           *)
LEMMA SequenceCarries ==
    ASSUME NEW S, \A q \in S : q.acks \in Nat, NEW s \in Seq(S)
    PROVE  Carrying(s)
<1>1. PICK n \in Nat : DOMAIN s = 1 .. n
  OBVIOUS
<1>2. IsFiniteSet(1 .. n)
  BY FS_Interval
<1> QED
  BY <1>1, <1>2 DEF Carrying

(* Everything that has acknowledgements is in finitely many places.        *)
LEMMA Carriers == TypeOK => CarryInv
<1> SUFFICES ASSUME TypeOK PROVE CarryInv
  OBVIOUS
<1>1. \A q \in Update \cup Result : q.acks \in Nat
  BY DEF Update, Result
<1>2. Carrying(m_queue) /\ Carrying(m_queue_out) /\ Carrying(m_queue_out_urgent)
  BY <1>1, SequenceCarries DEF TypeOK
<1>3. Carrying(Asked)
  <2>1. PICK n \in Nat : DOMAIN to_add.requests = 1 .. n
    BY DEF TypeOK, Adding
  <2>2. IsFiniteSet(1 .. n)
    BY FS_Interval
  <2>3. \A i \in DOMAIN to_add.requests : NewUpdate(to_add.requests[i]).acks \in Nat
    BY DEF NewUpdate
  <2> QED
    BY <2>1, <2>2, <2>3 DEF Carrying, Asked
<1>4. Carrying(AtWork)
  <2>1. Jobs \subseteq Worker /\ IsFiniteSet(Jobs)
    BY WorkerAssumption, FS_Subset DEF Jobs
  <2>2. \A w \in Jobs : worker[w].job \in Update
    BY DEF Jobs, TypeOK
  <2> QED
    BY <1>1, <2>1, <2>2 DEF Carrying, AtWork
<1> QED
  BY <1>2, <1>3, <1>4 DEF CarryInv, TypeOK

LEMMA CarriersNext == TypeOK' => CarryInv'
BY Carriers, PTL

(* The summands of Owed are numbers, ...                                   *)
LEMMA OwedIs ==
    CarryInv => \A p \in Block :
        /\ Owed[p] = AcksIn(Asked, p) + AcksIn(m_queue, p) + AcksIn(AtWork, p)
                       + AcksIn(m_queue_out, p) + AcksIn(m_queue_out_urgent, p) + blocks_to_ack[p]
        /\ AcksIn(Asked, p) \in Nat /\ AcksIn(m_queue, p) \in Nat /\ AcksIn(AtWork, p) \in Nat
        /\ AcksIn(m_queue_out, p) \in Nat /\ AcksIn(m_queue_out_urgent, p) \in Nat
        /\ blocks_to_ack[p] \in Nat
<1> SUFFICES ASSUME CarryInv, NEW p \in Block
             PROVE  /\ Owed[p] = AcksIn(Asked, p) + AcksIn(m_queue, p) + AcksIn(AtWork, p)
                                   + AcksIn(m_queue_out, p) + AcksIn(m_queue_out_urgent, p)
                                   + blocks_to_ack[p]
                    /\ AcksIn(Asked, p) \in Nat /\ AcksIn(m_queue, p) \in Nat
                    /\ AcksIn(AtWork, p) \in Nat
                    /\ AcksIn(m_queue_out, p) \in Nat /\ AcksIn(m_queue_out_urgent, p) \in Nat
                    /\ blocks_to_ack[p] \in Nat
  OBVIOUS
<1> QED
  BY PlacesFinite DEF Owed, CarryInv

(* ... and so they are after a step.                                       *)
LEMMA OwedIsNext ==
    CarryInv' => \A p \in Block :
        /\ Owed'[p] = AcksIn(Asked', p) + AcksIn(m_queue', p) + AcksIn(AtWork', p)
                       + AcksIn(m_queue_out', p) + AcksIn(m_queue_out_urgent', p) + blocks_to_ack'[p]
        /\ AcksIn(Asked', p) \in Nat /\ AcksIn(m_queue', p) \in Nat /\ AcksIn(AtWork', p) \in Nat
        /\ AcksIn(m_queue_out', p) \in Nat /\ AcksIn(m_queue_out_urgent', p) \in Nat
        /\ blocks_to_ack'[p] \in Nat
<1>1. CarryInv' => (\A p \in Block :
        /\ Owed[p] = AcksIn(Asked, p) + AcksIn(m_queue, p) + AcksIn(AtWork, p)
                       + AcksIn(m_queue_out, p) + AcksIn(m_queue_out_urgent, p) + blocks_to_ack[p]
        /\ AcksIn(Asked, p) \in Nat /\ AcksIn(m_queue, p) \in Nat /\ AcksIn(AtWork, p) \in Nat
        /\ AcksIn(m_queue_out, p) \in Nat /\ AcksIn(m_queue_out_urgent, p) \in Nat
        /\ blocks_to_ack[p] \in Nat)'
  BY OwedIs, PTL
<1> QED
  BY <1>1

(* What is to be acknowledged is there.                                    *)
AckRequests ==
    \A k \in DOMAIN to_add.requests :
        to_add.requests[k].ack => world[to_add.requests[k].p] # Absent

(* Only the first request of addUpdateMeshTaskWithEdge is to be            *)
(* acknowledged.                                                           *)
FirstAcks(requests, q, ack) ==
    /\ requests \in Seq(Request)
    /\ 1 \in DOMAIN requests /\ requests[1].p = q /\ requests[1].ack = ack
    /\ \A k \in DOMAIN requests : k # 1 => requests[k].ack = FALSE

LEMMA EdgeAcks ==
    ASSUME NEW q \in Block, NEW ack \in BOOLEAN, NEW urgent \in BOOLEAN
    PROVE  FirstAcks(WithEdge(q, ack, urgent).requests, q, ack)
<1> DEFINE s == <<[p |-> q, ack |-> ack, urgent |-> urgent]>>
           t == [i \in DOMAIN Neighbors[q] |->
                    [p |-> Neighbors[q][i], ack |-> FALSE, urgent |-> urgent]]
<1>1. Neighbors[q] \in Seq(Block)
  BY NeighborsAssumption
<1>2. DOMAIN Neighbors[q] = 1 .. Len(Neighbors[q]) /\ Len(Neighbors[q]) \in Nat
  BY <1>1
<1>3. s \in Seq(Request) /\ Len(s) = 1 /\ s[1].p = q /\ s[1].ack = ack
  BY DEF Request
<1>4. t \in Seq(Request) /\ \A i \in 1 .. Len(t) : t[i].ack = FALSE
  <2>1. t \in [1 .. Len(Neighbors[q]) -> Request]
    BY <1>1, <1>2 DEF Request
  <2>2. t \in Seq(Request)
    BY <1>2, <2>1
  <2> QED
    BY <1>2, <2>1, <2>2
<1>5. WithEdge(q, ack, urgent).requests = s \o t
  BY DEF WithEdge
<1> HIDE DEF s, t
<1>6. /\ s \o t \in Seq(Request) /\ Len(s \o t) = Len(s) + Len(t)
      /\ \A i \in 1 .. Len(s) : (s \o t)[i] = s[i]
      /\ \A i \in 1 .. Len(t) : (s \o t)[Len(s) + i] = t[i]
  <2>1. s \in Seq(Request) /\ t \in Seq(Request)
    BY <1>3, <1>4
  <2> QED
    BY <2>1, ConcatIs
<1>7. DOMAIN (s \o t) = 1 .. 1 + Len(t) /\ Len(t) \in Nat
  BY <1>3, <1>4, <1>6
<1>8. (s \o t)[1] = s[1]
  BY <1>3, <1>6
<1>9. ASSUME NEW k \in 2 .. 1 + Len(t) PROVE (s \o t)[k].ack = FALSE
  <2>1. k - 1 \in 1 .. Len(t) /\ Len(s) + (k - 1) = k
    BY <1>3, <1>7
  <2>2. (s \o t)[k] = t[k - 1]
    BY <2>1, <1>6
  <2> QED
    BY <2>1, <2>2, <1>4
<1>10. \A k \in 1 .. 1 + Len(t) : k # 1 => k \in 2 .. 1 + Len(t)
  BY <1>7
<1>11. FirstAcks(s \o t, q, ack)
  <2>1. 1 \in DOMAIN (s \o t) /\ (s \o t)[1].p = q /\ (s \o t)[1].ack = ack
    BY <1>3, <1>7, <1>8
  <2>2. \A k \in DOMAIN (s \o t) : k # 1 => (s \o t)[k].ack = FALSE
    BY <1>7, <1>9, <1>10
  <2> QED
    BY <1>6, <2>1, <2>2 DEF FirstAcks
<1> QED
  BY <1>5, <1>11

(* All that is owed but for the requests.                                   *)
Elsewhere(p) ==
    AcksIn(m_queue, p) + AcksIn(AtWork, p) + AcksIn(m_queue_out, p)
      + AcksIn(m_queue_out_urgent, p) + blocks_to_ack[p]

(* BLOCKDATA is one acknowledgement more, an edit none.                    *)
LEMMA ChangeAcks ==
    ASSUME IInv, IInv', NEW q \in Block, NEW ack \in BOOLEAN, NEW urgent \in BOOLEAN,
           ChangeBlock(q, ack, urgent)
    PROVE  /\ AckRequests'
           /\ \A p \in Block : Owed'[p] = Owed[p] + IF ack /\ p = q THEN 1 ELSE 0
<1>0. CarryInv /\ CarryInv'
  BY Carriers, CarriersNext DEF IInv
<1>1. /\ to_add.requests = <<>> /\ to_add' = WithEdge(q, ack, urgent)
      /\ changes \in Nat /\ world' = [world EXCEPT ![q] = changes + 1]
      /\ UNCHANGED <<m_queue, outVars, worker, blocks_to_ack>>
  BY DEF ChangeBlock, Idle, queueVars, IInv, TypeOK, Version
<1> DEFINE new == to_add'.requests
<1>2. FirstAcks(new, q, ack)
  BY <1>1, EdgeAcks
<1>3. world'[q] # Absent
  BY <1>1 DEF IInv, TypeOK, Absent
<1>4. AckRequests'
  BY <1>2, <1>3 DEF AckRequests, FirstAcks
<1> SUFFICES ASSUME NEW p \in Block
             PROVE  Owed'[p] = Owed[p] + IF ack /\ p = q THEN 1 ELSE 0
  BY <1>4
<1>5. AcksIn(Asked, p) = 0
  <2>1. DOMAIN Asked = {}
    BY <1>1 DEF Asked
  <2>2. AckPlaces(Asked, p) = {}
    BY <2>1, PlacesAre
  <2> QED
    BY <2>2, FS_EmptySet DEF AcksIn
<1>6. AcksIn(Asked', p) = IF ack /\ p = q THEN 1 ELSE 0
  <2>1. /\ DOMAIN Asked' = DOMAIN new
        /\ \A k \in DOMAIN new : /\ Asked'[k].p = new[k].p
                                 /\ Asked'[k].acks = IF new[k].ack THEN 1 ELSE 0
    BY DEF Asked, NewUpdate
  <2> HIDE DEF new
  <2>2. CASE ack /\ p = q
    <3>1. AckPlaces(Asked', p) = {<<1, 1>>}
      <4>1. <<1, 1>> \in AckPlaces(Asked', p)
        <5>1. 1 \in DOMAIN Asked' /\ Asked'[1].p = p /\ Asked'[1].acks = 1
          BY <1>2, <2>1, <2>2 DEF FirstAcks
        <5>2. 1 \in 1 .. Asked'[1].acks
          BY <5>1
        <5> QED
          BY <5>1, <5>2, PlacesAre
      <4>2. ASSUME NEW at \in AckPlaces(Asked', p) PROVE at = <<1, 1>>
        <5>1. PICK x, k : at = <<x, k>>
          BY PlacesAre
        <5>2. x \in DOMAIN new /\ k \in 1 .. Asked'[x].acks
          BY <5>1, <2>1, PlacesAre
        <5>3. x = 1
          BY <5>2, <2>1, <1>2 DEF FirstAcks
        <5>4. k = 1
          BY <5>2, <5>3, <2>1, <2>2, <1>2 DEF FirstAcks
        <5> QED
          BY <5>1, <5>3, <5>4
      <4> QED
        BY <4>1, <4>2
    <3> QED
      BY <3>1, <2>2, FS_Singleton DEF AcksIn
  <2>3. CASE ~(ack /\ p = q)
    <3>1. AckPlaces(Asked', p) = {}
      <4> SUFFICES ASSUME NEW at \in AckPlaces(Asked', p) PROVE FALSE
        OBVIOUS
      <4>1. PICK x, k : at = <<x, k>>
        BY PlacesAre
      <4>2. x \in DOMAIN new /\ k \in 1 .. Asked'[x].acks /\ Asked'[x].p = p
        BY <4>1, <2>1, PlacesAre
      <4>3. new[x].ack
        BY <4>2, <2>1
      <4>4. x = 1
        BY <4>2, <4>3, <2>1, <1>2 DEF FirstAcks
      <4> QED
        BY <4>2, <4>3, <4>4, <2>1, <2>3, <1>2 DEF FirstAcks
    <3> QED
      BY <3>1, <2>3, FS_EmptySet DEF AcksIn
  <2> QED
    BY <2>2, <2>3
<1>7. AtWork' = AtWork
  BY <1>1 DEF AtWork, Jobs
<1>8. /\ Owed[p] = AcksIn(Asked, p) + Elsewhere(p) /\ AcksIn(Asked, p) \in Nat
      /\ Elsewhere(p) \in Nat
  BY <1>0, OwedIs DEF Elsewhere
<1>9. Owed'[p] = AcksIn(Asked', p) + Elsewhere(p)
  <2>1. /\ m_queue' = m_queue /\ m_queue_out' = m_queue_out
        /\ m_queue_out_urgent' = m_queue_out_urgent /\ blocks_to_ack' = blocks_to_ack
    BY <1>1 DEF outVars
  <2>2. Owed'[p] = AcksIn(Asked', p) + AcksIn(m_queue', p) + AcksIn(AtWork', p)
                     + AcksIn(m_queue_out', p) + AcksIn(m_queue_out_urgent', p) + blocks_to_ack'[p]
        /\ AcksIn(Asked', p) \in Nat
    BY <1>0, OwedIsNext
  <2> HIDE DEF new
  <2> QED
    BY <1>0, <1>7, <2>1, <2>2, OwedIs DEF Elsewhere
<1> QED
  BY <1>5, <1>6, <1>8, <1>9

(* addBlock puts the acknowledgement of a request into its update.         *)
LEMMA AddBlockAcks ==
    ASSUME IInv, IInv', AckRequests, AddBlock
    PROVE  AckRequests' /\ \A p \in Block : Owed'[p] = Owed[p]
<1>0. CarryInv /\ CarryInv'
  BY Carriers, CarriersNext DEF IInv
<1> DEFINE old == to_add.requests
           r == Head(old)
           n == Len(old)
<1>1. /\ old \in Seq(Request) /\ old # <<>> /\ n \in Nat /\ 1 \in 1 .. n /\ DOMAIN old = 1 .. n
      /\ r = old[1] /\ r \in Request
      /\ to_add'.requests = Tail(old)
      /\ UNCHANGED <<world, outVars, worker, blocks_to_ack>>
  BY DEF AddBlock, IInv, TypeOK, Adding
<1>2. DOMAIN Tail(old) = 1 .. n - 1 /\ \A k \in 1 .. n - 1 : Tail(old)[k] = old[k + 1]
  BY <1>1
<1>3. AckRequests'
  BY <1>1, <1>2 DEF AckRequests
<1> SUFFICES ASSUME NEW p \in Block PROVE Owed'[p] = Owed[p]
  BY <1>3
<1> DEFINE e == NewUpdate(r)
<1>4. e \in Update /\ e.p = r.p /\ e.acks = (IF r.ack THEN 1 ELSE 0)
  BY <1>1, UpdateTypes DEF NewUpdate
<1>5. AcksIn(Asked, p) = AcksIn(Asked', p) + AcksFor(e, p)
  <2>1. /\ DOMAIN Asked = 1 .. n /\ Asked[1] = e
        /\ \A k \in 1 .. n : /\ Asked[k].p = old[k].p
                             /\ Asked[k].acks = IF old[k].ack THEN 1 ELSE 0
    BY <1>1 DEF Asked, NewUpdate
  <2>2. /\ DOMAIN Asked' = 1 .. n - 1
        /\ \A k \in 1 .. n - 1 : /\ Asked'[k].p = old[k + 1].p
                                 /\ Asked'[k].acks = IF old[k + 1].ack THEN 1 ELSE 0
    BY <1>1, <1>2 DEF Asked, NewUpdate
  <2> HIDE DEF old, n, e, r
  <2>3. \A k \in 1 .. n : Asked[k].acks \in Nat
    BY <2>1
  <2>4. \A k \in 1 .. n - 1 : Asked'[k].p = Asked[k + 1].p /\ Asked'[k].acks = Asked[k + 1].acks
    <3> SUFFICES ASSUME NEW k \in 1 .. n - 1
                 PROVE  Asked'[k].p = Asked[k + 1].p /\ Asked'[k].acks = Asked[k + 1].acks
      OBVIOUS
    <3>1. k + 1 \in 1 .. n
      BY <1>1
    <3> QED
      BY <3>1, <2>1, <2>2
  <2>5. PICK f, g : f = Asked /\ g = Asked'
    OBVIOUS
  <2>6. WithoutAt(f, n, 1, g)
    BY <2>1, <2>2, <2>3, <2>4, <2>5 DEF WithoutAt
  <2>7. AcksIn(f, p) = AcksIn(g, p) + AcksFor(f[1], p)
    BY <1>1, <2>6, AcksWithout
  <2> QED
    BY <2>1, <2>5, <2>7
<1>6. AcksIn(m_queue', p) = AcksIn(m_queue, p) + AcksFor(e, p)
  <2>1. CASE world[r.p] = Absent /\ m_queue' = m_queue
    <3>1. ~r.ack
      BY <1>1, <2>1 DEF AckRequests
    <3>2. AcksFor(e, p) = 0
      BY <3>1, <1>4 DEF AcksFor
    <3> QED
      BY <2>1, <3>2, <1>0, OwedIs
  <2>2. CASE m_queue' = Append(m_queue, e)
    <3>1. m_queue \in Seq(Update) /\ \A u \in Update : u.acks \in Nat
      BY DEF IInv, TypeOK, Update
    <3> HIDE DEF e
    <3> QED
      BY <1>4, <2>2, <3>1, AcksAppend
  <2>3. ASSUME NEW i \in DOMAIN m_queue, m_queue[i].p = r.p,
               m_queue' = [m_queue EXCEPT ![i] = Merged(@, r)]
        PROVE  AcksIn(m_queue', p) = AcksIn(m_queue, p) + AcksFor(e, p)
    <3>1. m_queue[i] \in Update
      BY DEF IInv, TypeOK
    <3>2. Merged(m_queue[i], r).p = r.p /\ Merged(m_queue[i], r).acks = m_queue[i].acks + e.acks
      BY <1>4, <2>3, <3>1 DEF Merged, Update
    <3>3. /\ DOMAIN m_queue' = DOMAIN m_queue /\ m_queue'[i] = Merged(m_queue[i], r)
          /\ \A j \in DOMAIN m_queue \ {i} : m_queue'[j] = m_queue[j]
      BY <2>3 DEF IInv, TypeOK
    <3>4. Carrying(m_queue) /\ Carrying(m_queue')
      BY <1>0 DEF CarryInv
    <3>5. AcksIn(m_queue, p) + AcksFor(m_queue'[i], p) = AcksIn(m_queue', p) + AcksFor(m_queue[i], p)
      BY <3>3, <3>4, AcksReplace
    <3>6. AcksFor(m_queue'[i], p) = AcksFor(m_queue[i], p) + AcksFor(e, p)
      BY <1>4, <2>3, <3>2, <3>3 DEF AcksFor
    <3>7. /\ AcksFor(m_queue[i], p) \in Nat /\ AcksFor(e, p) \in Nat
          /\ AcksIn(m_queue, p) \in Nat /\ AcksIn(m_queue', p) \in Nat
      BY <1>4, <3>1, <3>4, PlacesFinite DEF AcksFor, Update
    <3> QED
      BY <3>5, <3>6, <3>7
  <2> QED
    BY <2>1, <2>2, <2>3 DEF AddBlock
<1>7. AtWork' = AtWork
  BY <1>1 DEF AtWork, Jobs
<1>8. AcksFor(e, p) \in Nat
  BY <1>4 DEF AcksFor
<1> HIDE DEF e
<1> QED
  BY <1>0, <1>1, <1>5, <1>6, <1>7, <1>8, OwedIs, OwedIsNext DEF outVars

(* Steps that queue no request.                                            *)
LEMMA NothingAsked ==
    ASSUME IInv, AckRequests, UNCHANGED <<world, to_add>>
    PROVE  AckRequests' /\ Asked' = Asked
BY DEF AckRequests, Asked, NewUpdate, Loaded

(* Updates and results have a number of acknowledgements.                  *)
LEMMA UpdatesCarry ==
    /\ \A q \in Update : q.acks \in Nat /\ \A p : AcksFor(q, p) \in Nat
    /\ \A r \in Result : r.acks \in Nat /\ \A p : AcksFor(r, p) \in Nat
BY DEF Update, Result, AcksFor

(* A result that is taken leaves its acknowledgements in blocks_to_ack.    *)
LEMMA TakeAcks ==
    ASSUME IInv, IInv', AckRequests, TakeUrgent \/ TakeNormal
    PROVE  AckRequests' /\ \A p \in Block : Owed'[p] = Owed[p]
<1>0. CarryInv /\ CarryInv'
  BY Carriers, CarriersNext DEF IInv
<1>1. AckRequests' /\ Asked' = Asked
  <2>1. UNCHANGED <<world, to_add>>
    BY DEF TakeUrgent, TakeNormal
  <2> QED
    BY <2>1, NothingAsked
<1>2. AtWork' = AtWork /\ m_queue' = m_queue
  <2>1. UNCHANGED <<worker, m_queue>>
    BY DEF TakeUrgent, TakeNormal, queueVars
  <2> QED
    BY <2>1 DEF AtWork, Jobs
<1> SUFFICES ASSUME NEW p \in Block PROVE Owed'[p] = Owed[p]
  BY <1>1
<1>3. PICK r \in Result : Show(r) /\ \/ /\ AcksIn(m_queue_out_urgent, p) = AcksIn(m_queue_out_urgent', p) + AcksFor(r, p)
                                        /\ m_queue_out' = m_queue_out
                                     \/ /\ AcksIn(m_queue_out, p) = AcksIn(m_queue_out', p) + AcksFor(r, p)
                                        /\ m_queue_out_urgent' = m_queue_out_urgent
  <2>1. m_queue_out \in Seq(Result) /\ m_queue_out_urgent \in Seq(Result)
    BY DEF IInv, TypeOK
  <2>2. CASE TakeUrgent
    <3>1. /\ m_queue_out_urgent # <<>> /\ Show(Head(m_queue_out_urgent))
          /\ m_queue_out_urgent' = Tail(m_queue_out_urgent) /\ m_queue_out' = m_queue_out
      BY <2>2 DEF TakeUrgent
    <3>2. Head(m_queue_out_urgent) \in Result
      BY <2>1, <3>1
    <3> QED
      BY <2>1, <3>1, <3>2, UpdatesCarry, AcksTail
  <2>3. CASE TakeNormal
    <3>1. /\ m_queue_out # <<>> /\ Show(Head(m_queue_out))
          /\ m_queue_out' = Tail(m_queue_out) /\ m_queue_out_urgent' = m_queue_out_urgent
      BY <2>3 DEF TakeNormal
    <3>2. Head(m_queue_out) \in Result
      BY <2>1, <3>1
    <3> QED
      BY <2>1, <3>1, <3>2, UpdatesCarry, AcksTail
  <2> QED
    BY <2>2, <2>3
<1>4. blocks_to_ack'[p] = blocks_to_ack[p] + AcksFor(r, p)
  BY <1>0, <1>3 DEF Show, AcksFor, CarryInv, Result
<1>5. AcksFor(r, p) \in Nat
  BY UpdatesCarry
<1> QED
  BY <1>0, <1>1, <1>2, <1>3, <1>4, <1>5, OwedIs, OwedIsNext

(* An update that is popped goes from the queue to the worker.             *)
LEMMA PopAcks ==
    ASSUME IInv, IInv', AckRequests, NEW w \in Worker, Pop(w)
    PROVE  AckRequests' /\ \A p \in Block : Owed'[p] = Owed[p]
<1>0. CarryInv /\ CarryInv'
  BY Carriers, CarriersNext DEF IInv
<1>1. AckRequests' /\ Asked' = Asked
  BY NothingAsked DEF Pop, mainVars
<1> SUFFICES ASSUME NEW p \in Block PROVE Owed'[p] = Owed[p]
  BY <1>1
<1>2. PICK i \in DOMAIN m_queue :
        /\ m_queue' = RemoveAt(m_queue, i)
        /\ worker' = [worker EXCEPT ![w] = [pc |-> "work", job |-> m_queue[i], data |-> <<>>]]
  BY DEF Pop, Poppable
<1>3. AcksIn(m_queue, p) = AcksIn(m_queue', p) + AcksFor(m_queue[i], p)
  <2>1. m_queue \in Seq(Update)
    BY DEF IInv, TypeOK
  <2> QED
    BY <1>2, <2>1, UpdatesCarry, AcksRemoved
<1>4. AcksIn(AtWork', p) = AcksIn(AtWork, p) + AcksFor(m_queue[i], p)
  <2>1. w \notin Jobs /\ Jobs' = Jobs \cup {w} /\ worker'[w].job = m_queue[i]
        /\ \A v \in Jobs : worker'[v] = worker[v]
    BY <1>2 DEF Jobs, Pop, IInv, TypeOK
  <2>2. DOMAIN AtWork' = Jobs \cup {w} /\ DOMAIN AtWork = DOMAIN AtWork' \ {w}
    BY <2>1 DEF AtWork
  <2>3. AtWork'[w] = m_queue[i] /\ \A v \in DOMAIN AtWork : AtWork[v] = AtWork'[v]
    BY <2>1 DEF AtWork
  <2>4. PICK f, g : f = AtWork' /\ g = AtWork
    OBVIOUS
  <2>5. Carrying(f) /\ w \in DOMAIN f /\ DOMAIN g = DOMAIN f \ {w}
        /\ \A v \in DOMAIN g : g[v].p = f[v].p /\ g[v].acks = f[v].acks
    BY <1>0, <2>2, <2>3, <2>4 DEF CarryInv
  <2>6. AcksIn(f, p) = AcksIn(g, p) + AcksFor(f[w], p)
    BY ONLY <2>5, AcksLess
  <2> QED
    BY <2>3, <2>4, <2>6
<1>5. AcksFor(m_queue[i], p) \in Nat
  BY UpdatesCarry DEF IInv, TypeOK
<1>6. UNCHANGED <<m_queue_out, m_queue_out_urgent, blocks_to_ack>>
  BY DEF Pop, mainVars, outVars
<1> QED
  BY <1>0, <1>1, <1>3, <1>4, <1>5, <1>6, OwedIs, OwedIsNext

(* putResult: from the worker to one of the queues of results.             *)
LEMMA PutAcks ==
    ASSUME IInv, IInv', AckRequests, NEW w \in Worker, PutResult(w)
    PROVE  AckRequests' /\ \A p \in Block : Owed'[p] = Owed[p]
<1>0. CarryInv /\ CarryInv'
  BY Carriers, CarriersNext DEF IInv
<1>1. AckRequests' /\ Asked' = Asked
  BY NothingAsked DEF PutResult, mainVars
<1> SUFFICES ASSUME NEW p \in Block PROVE Owed'[p] = Owed[p]
  BY <1>1
<1>2. PICK r \in Result : /\ r = ResultOf(w)
                          /\ AcksFor(r, p) = AcksFor(worker[w].job, p) /\ AcksFor(r, p) \in Nat
  <2>1. ResultOf(w) \in Result
    BY PutType DEF IInv
  <2>2. AcksFor(ResultOf(w), p) = AcksFor(worker[w].job, p)
    BY DEF ResultOf, AcksFor
  <2> QED
    BY <2>1, <2>2, UpdatesCarry
<1>3. \/ /\ AcksIn(m_queue_out_urgent', p) = AcksIn(m_queue_out_urgent, p) + AcksFor(r, p)
         /\ m_queue_out' = m_queue_out
      \/ /\ AcksIn(m_queue_out', p) = AcksIn(m_queue_out, p) + AcksFor(r, p)
         /\ m_queue_out_urgent' = m_queue_out_urgent
  <2>1. m_queue_out \in Seq(Result) /\ m_queue_out_urgent \in Seq(Result)
    BY DEF IInv, TypeOK
  <2>2. CASE m_queue_out_urgent' = Append(m_queue_out_urgent, r) /\ m_queue_out' = m_queue_out
    BY <2>1, <2>2, UpdatesCarry, AcksAppend
  <2>3. CASE m_queue_out' = Append(m_queue_out, r) /\ m_queue_out_urgent' = m_queue_out_urgent
    BY <2>1, <2>3, UpdatesCarry, AcksAppend
  <2> QED
    BY <1>2, <2>2, <2>3 DEF PutResult
<1>4. AcksIn(AtWork, p) = AcksIn(AtWork', p) + AcksFor(worker[w].job, p)
  <2>1. w \in Jobs /\ Jobs' = Jobs \ {w} /\ \A v \in Jobs' : worker'[v] = worker[v]
    BY DEF Jobs, PutResult, IInv, TypeOK, WorkerState
  <2>2. DOMAIN AtWork = Jobs /\ DOMAIN AtWork' = DOMAIN AtWork \ {w}
    BY <2>1 DEF AtWork
  <2>3. AtWork[w] = worker[w].job /\ \A v \in DOMAIN AtWork' : AtWork'[v] = AtWork[v]
    BY <2>1 DEF AtWork
  <2>4. PICK f, g : f = AtWork /\ g = AtWork'
    OBVIOUS
  <2>5. Carrying(f) /\ w \in DOMAIN f /\ DOMAIN g = DOMAIN f \ {w}
        /\ \A v \in DOMAIN g : g[v].p = f[v].p /\ g[v].acks = f[v].acks
    BY <1>0, <2>1, <2>2, <2>3, <2>4 DEF CarryInv
  <2>6. AcksIn(f, p) = AcksIn(g, p) + AcksFor(f[w], p)
    BY ONLY <2>5, AcksLess
  <2> QED
    BY <2>3, <2>4, <2>6
<1>5. UNCHANGED <<m_queue, blocks_to_ack>>
  BY DEF PutResult, mainVars, queueVars
<1> QED
  BY <1>0, <1>1, <1>2, <1>3, <1>4, <1>5, OwedIs, OwedIsNext

(* Steps in which no acknowledgement moves.                                *)
LEMMA QuietAcks ==
    ASSUME IInv, IInv', AckRequests,
           UNCHANGED <<m_queue, outVars, blocks_to_ack>>,
           to_add'.requests = to_add.requests,
           to_add.requests = <<>> \/ world' = world,
           Jobs' = Jobs, \A w \in Jobs : worker'[w].job = worker[w].job
    PROVE  AckRequests' /\ \A p \in Block : Owed'[p] = Owed[p]
<1>0. CarryInv /\ CarryInv'
  BY Carriers, CarriersNext DEF IInv
<1>1. AckRequests'
  BY DEF AckRequests
<1> SUFFICES ASSUME NEW p \in Block PROVE Owed'[p] = Owed[p]
  BY <1>1
<1>2. AcksIn(Asked', p) = AcksIn(Asked, p)
  <2>1. DOMAIN Asked' = DOMAIN Asked /\ \A k \in DOMAIN Asked : /\ Asked'[k].p = Asked[k].p
                                                               /\ Asked'[k].acks = Asked[k].acks
    BY DEF Asked, NewUpdate
  <2>2. PICK f, g : f = Asked /\ g = Asked'
    OBVIOUS
  <2> QED
    BY <2>1, <2>2, AcksSame
<1>3. AtWork' = AtWork
  BY DEF AtWork
<1>4. m_queue' = m_queue /\ m_queue_out' = m_queue_out /\ m_queue_out_urgent' = m_queue_out_urgent
  BY DEF outVars
<1> QED
  BY <1>0, <1>2, <1>3, <1>4, OwedIs, OwedIsNext

(* A worker that wakes up, reads or goes on moves nothing.                 *)
LEMMA WorkerAcks ==
    ASSUME IInv, IInv', AckRequests, NEW w \in Worker,
           WakeUp(w) \/ FindNothing(w) \/ FillBlockData(w) \/ Done(w)
    PROVE  AckRequests' /\ \A p \in Block : Owed'[p] = Owed[p]
<1>1. UNCHANGED <<m_queue, outVars, blocks_to_ack, to_add, world>>
  BY DEF WakeUp, FindNothing, FillBlockData, Done, mainVars, queueVars
<1>2. Jobs' = Jobs /\ \A v \in Jobs : worker'[v].job = worker[v].job
  <2>1. worker \in [Worker -> WorkerState]
    BY DEF IInv, TypeOK
  <2>2. CASE WakeUp(w)
    BY <2>1, <2>2 DEF WakeUp, SetPc, WorkerState, Jobs
  <2>3. CASE FindNothing(w)
    BY <2>1, <2>3 DEF FindNothing, SetPc, WorkerState, Jobs
  <2>4. CASE FillBlockData(w)
    <3>1. PICK data : worker' = [worker EXCEPT ![w] = [worker[w] EXCEPT !.data = data]]
      BY <2>4 DEF FillBlockData
    <3>2. worker'[w].pc = worker[w].pc /\ worker'[w].job = worker[w].job
      BY <2>1, <3>1 DEF WorkerState
    <3> QED
      BY <2>1, <3>1, <3>2 DEF Jobs
  <2>5. CASE Done(w)
    BY <2>1, <2>5 DEF Done, WorkerState, Jobs
  <2> QED
    BY <2>2, <2>3, <2>4, <2>5
<1> QED
  BY <1>1, <1>2, QuietAcks

(* sendGotBlocks pays what has come so far.                                *)
LEMMA SendAcks ==
    ASSUME IInv, IInv', AckRequests, SendGotBlocks
    PROVE  /\ AckRequests'
           /\ \A p \in Block : /\ blocks_to_ack[p] \in Nat /\ blocks_to_ack[p] <= Owed[p]
                               /\ Owed'[p] = Owed[p] - blocks_to_ack[p]
<1>0. CarryInv /\ CarryInv'
  BY Carriers, CarriersNext DEF IInv
<1>1. AckRequests' /\ Asked' = Asked
  BY NothingAsked DEF SendGotBlocks
<1>2. AtWork' = AtWork
  BY DEF SendGotBlocks, AtWork, Jobs
<1>3. UNCHANGED <<m_queue, m_queue_out, m_queue_out_urgent>>
  BY DEF SendGotBlocks, queueVars, outVars
<1>4. \A p \in Block : blocks_to_ack'[p] = 0
  BY DEF SendGotBlocks
<1> SUFFICES ASSUME NEW p \in Block
             PROVE  /\ blocks_to_ack[p] \in Nat /\ blocks_to_ack[p] <= Owed[p]
                    /\ Owed'[p] = Owed[p] - blocks_to_ack[p]
  BY <1>1
<1> QED
  BY <1>0, <1>1, <1>2, <1>3, <1>4, OwedIs, OwedIsNext

-----------------------------------------------------------------------------
(* No more is owed than there have been changes.                           *)
AckInv == AckRequests /\ \A p \in Block : Owed[p] <= changes

(* At first there is nothing to acknowledge.                               *)
LEMMA AcksInitially == Init => AckInv /\ Owed = [p \in Block |-> 0]
<1> SUFFICES ASSUME Init PROVE AckInv /\ Owed = [p \in Block |-> 0]
  OBVIOUS
<1>1. ASSUME NEW f, DOMAIN f = {}, NEW p PROVE AcksIn(f, p) = 0
  <2>1. AckPlaces(f, p) = {}
    BY <1>1 DEF AckPlaces
  <2> QED
    BY <2>1, FS_EmptySet DEF AcksIn
<1>2. Jobs = {} /\ DOMAIN to_add.requests = {} /\ changes = 0
  BY DEF Init, Jobs, Asleep
<1>3. DOMAIN Asked = {} /\ DOMAIN AtWork = {}
  BY <1>2 DEF Asked, AtWork
<1>4. DOMAIN m_queue = {} /\ DOMAIN m_queue_out = {} /\ DOMAIN m_queue_out_urgent = {}
  BY DEF Init
<1>5. AckRequests
  BY <1>2 DEF AckRequests
<1>6. \A p \in Block : /\ AcksIn(Asked, p) = 0 /\ AcksIn(AtWork, p) = 0 /\ AcksIn(m_queue, p) = 0
                       /\ AcksIn(m_queue_out, p) = 0 /\ AcksIn(m_queue_out_urgent, p) = 0
                       /\ blocks_to_ack[p] = 0
  BY <1>1, <1>3, <1>4 DEF Init
<1>7. \A p \in Block : Owed[p] = 0
  BY <1>6 DEF Owed
<1>8. Owed = [p \in Block |-> 0]
  BY <1>7 DEF Owed
<1> QED
  BY <1>2, <1>5, <1>7, <1>8 DEF AckInv

(* Each step queues one acknowledgement, pays some, or moves them.         *)
LEMMA AckSteps ==
    ASSUME IInv, IInv', AckInv, [Next]_vars
    PROVE  AckInv' /\ [Acks!Next]_<<Owed, acknowledged>>
<1>0. CarryInv /\ CarryInv' /\ AckRequests
  BY Carriers, CarriersNext DEF IInv, AckInv
<1>1. /\ changes \in Nat /\ changes' \in Nat /\ changes <= MaxChanges
      /\ changes' = changes \/ changes' = changes + 1
  <2>1. changes \in 0 .. MaxChanges /\ changes' \in 0 .. MaxChanges
    BY DEF IInv, TypeOK, Version
  <2>2. changes' = changes \/ changes' = changes + 1
    <3>1. CASE \E p \in Block : ReceiveBlock(p) \/ EditBlock(p) \/ Unload(p)
      BY <3>1 DEF ReceiveBlock, EditBlock, ChangeBlock, Unload
    <3>2. CASE AddBlock \/ DeferUpdate \/ StartDraining
      BY <3>2 DEF AddBlock, DeferUpdate, StartDraining
    <3>3. CASE TakeUrgent \/ NoUrgent \/ TakeNormal \/ SendGotBlocks
      BY <3>3 DEF TakeUrgent, NoUrgent, TakeNormal, SendGotBlocks
    <3>4. CASE \E w \in Worker : WorkerNext(w)
      BY <3>4 DEF WorkerNext, WakeUp, Pop, FindNothing, FillBlockData, PutResult, Done, mainVars
    <3>5. CASE UNCHANGED vars
      BY <3>5 DEF vars, mainVars
    <3> QED
      BY <3>1, <3>2, <3>3, <3>4, <3>5 DEF Next, MainNext
  <2> QED
    BY <2>1, <2>2, BoundAssumption
<1>2. \A p \in Block : Owed[p] \in Nat /\ Owed'[p] \in Nat /\ Owed[p] <= changes
  BY <1>0, OwedIs, OwedIsNext DEF AckInv
<1>3. Owed = [p \in Block |-> Owed[p]] /\ Owed' = [p \in Block |-> Owed'[p]]
  BY DEF Owed
<1>4. ASSUME AckRequests', \A p \in Block : Owed'[p] = Owed[p], acknowledged' = acknowledged
      PROVE  AckInv' /\ UNCHANGED <<Owed, acknowledged>>
  <2>1. Owed' = Owed
    BY <1>3, <1>4
  <2>2. AckInv'
    BY <1>1, <1>2, <1>4 DEF AckInv
  <2> QED
    BY <1>4, <2>1, <2>2
<1>5. ASSUME NEW q \in Block, ReceiveBlock(q)
      PROVE  AckInv' /\ Acks!Next
  <2>1. /\ AckRequests'
        /\ \A p \in Block : Owed'[p] = Owed[p] + IF p = q THEN 1 ELSE 0
    BY <1>5, ChangeAcks DEF ReceiveBlock
  <2>2. changes' = changes + 1 /\ acknowledged' = acknowledged
    BY <1>5 DEF ReceiveBlock, ChangeBlock
  <2>3. Owed' = [Owed EXCEPT ![q] = @ + 1]
    BY <1>2, <1>3, <2>1
  <2>4. Acks!Owe(q)
    BY <2>2, <2>3 DEF Acks!Owe
  <2>5. AckInv'
    BY <1>1, <1>2, <2>1, <2>2 DEF AckInv
  <2> QED
    BY <2>4, <2>5 DEF Acks!Next
<1>6. CASE SendGotBlocks
  <2>1. /\ AckRequests'
        /\ \A p \in Block : /\ blocks_to_ack[p] \in Nat /\ blocks_to_ack[p] <= Owed[p]
                            /\ Owed'[p] = Owed[p] - blocks_to_ack[p]
    BY <1>0, <1>6, SendAcks
  <2>2. acknowledged' = [p \in Block |-> acknowledged[p] + blocks_to_ack[p]]
    BY <1>6 DEF SendGotBlocks
  <2>3. blocks_to_ack \in [Block -> 0 .. MaxChanges]
    <3>1. \A p \in Block : blocks_to_ack[p] \in 0 .. MaxChanges
      BY <1>1, <1>2, <2>1, BoundAssumption
    <3> QED
      BY <3>1 DEF IInv, TypeOK
  <2>4. Acks!Pay(blocks_to_ack)
    <3>1. Owed' = [p \in Block |-> Owed[p] - blocks_to_ack[p]]
      BY <1>3, <2>1
    <3> QED
      BY <2>1, <2>2, <3>1 DEF Acks!Pay
  <2>5. AckInv'
    BY <1>1, <1>2, <2>1 DEF AckInv
  <2> QED
    BY <2>3, <2>4, <2>5 DEF Acks!Next
<1>7. ASSUME NEW q \in Block, EditBlock(q)
      PROVE  AckInv' /\ UNCHANGED <<Owed, acknowledged>>
  <2>1. AckRequests' /\ \A p \in Block : Owed'[p] = Owed[p] + 0
    BY <1>7, ChangeAcks DEF EditBlock
  <2>2. acknowledged' = acknowledged
    BY <1>7 DEF EditBlock, ChangeBlock
  <2> QED
    BY <1>2, <1>4, <2>1, <2>2
<1>8. ASSUME NEW q \in Block, Unload(q)
      PROVE  AckInv' /\ UNCHANGED <<Owed, acknowledged>>
  <2>1. /\ UNCHANGED <<m_queue, outVars, blocks_to_ack, acknowledged, to_add, worker>>
        /\ to_add.requests = <<>>
    BY <1>8 DEF Unload, Idle, queueVars
  <2>2. Jobs' = Jobs /\ \A w \in Jobs : worker'[w].job = worker[w].job
    BY <2>1 DEF Jobs
  <2> QED
    BY <1>0, <1>4, <2>1, <2>2, QuietAcks
<1>9. CASE DeferUpdate \/ StartDraining \/ NoUrgent \/ UNCHANGED vars
  <2>1. /\ UNCHANGED <<m_queue, outVars, blocks_to_ack, acknowledged, world, worker>>
        /\ to_add'.requests = to_add.requests
    BY <1>9 DEF DeferUpdate, StartDraining, NoUrgent, vars, mainVars, queueVars, IInv, TypeOK,
       Adding
  <2>2. Jobs' = Jobs /\ \A w \in Jobs : worker'[w].job = worker[w].job
    BY <2>1 DEF Jobs
  <2> QED
    BY <1>0, <1>4, <2>1, <2>2, QuietAcks
<1>10. CASE AddBlock \/ TakeUrgent \/ TakeNormal
  <2>1. acknowledged' = acknowledged
    BY <1>10 DEF AddBlock, TakeUrgent, TakeNormal
  <2> QED
    BY <1>0, <1>4, <1>10, <2>1, AddBlockAcks, TakeAcks
<1>11. ASSUME NEW w \in Worker, WorkerNext(w)
       PROVE  AckInv' /\ UNCHANGED <<Owed, acknowledged>>
  <2>1. acknowledged' = acknowledged
    BY <1>11 DEF WorkerNext, WakeUp, Pop, FindNothing, FillBlockData, PutResult, Done, mainVars
  <2> QED
    BY <1>0, <1>4, <1>11, <2>1, WorkerAcks, PopAcks, PutAcks DEF WorkerNext
<1> QED
  BY <1>5, <1>6, <1>7, <1>8, <1>9, <1>10, <1>11 DEF Next, MainNext

(* However updates are merged and overtake each other, the client          *)
(* acknowledges each BLOCKDATA once, and nothing that it has not received: *)
(* it implements BlockAcks.                                                *)
THEOREM AcksSpecHolds == Spec => AcksSpec
<1>1. Init => AckInv /\ Acks!Init
  BY AcksInitially DEF Acks!Init, Init
<1>2. IInv /\ IInv' /\ AckInv /\ [Next]_vars => AckInv' /\ [Acks!Next]_<<Owed, acknowledged>>
  BY AckSteps
<1> QED
  BY <1>1, <1>2, Invariance, PTL DEF Spec, AcksSpec, Acks!Spec
=============================================================================
