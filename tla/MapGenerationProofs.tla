------------------------- MODULE MapGenerationProofs -------------------------
(* No chunk is generated twice at a time; what is saved, generated and     *)
(* built is kept: for any number of emerge threads, any map and any edits, *)
(* whenever blocks are saved and unloaded.                                 *)
EXTENDS MapGeneration, TLAPS

(* Edits a generator may undo *)
Lost == raced \cup Replaceable

(* What a thread has read is what the database still has, unless someone   *)
(* else was faster and the block is in memory, or has been unloaded again. *)
ReadIsSaved ==
    \A t \in EThread : pc[t] = "read" /\ ~InMemory(pos[t]) /\ pos[t] \notin rushed =>
        databuf[t] \in {None, disk[pos[t]]}

(* A copy differs from the block, be it in memory or not, only by edits    *)
(* made meanwhile, and by what other generators have written over.         *)
CopiesAgree ==
    \A t \in EThread, q \in Pos \ rushed : vmanip[t][q] # None =>
        vmanip[t][q].edits \ Lost = Current(q).edits \ Lost

IInv == TypeOK /\ CleanMeansSaved /\ ReadIsSaved /\ CopiesAgree

(* Memory after a step that changes none of the blocks that are there, and *)
(* loads or creates others.                                                *)
LoadedFrom(mem) ==
    /\ mem \in [Pos -> MapBlock \cup {None}]
    /\ \A q \in Pos \ rushed : mem[q] \in {memory[q], Emerged(memory, q)}

-----------------------------------------------------------------------------
(* What emergeBlock gives is a block, and loading twice is loading once.   *)
LEMMA EmergedType ==
    ASSUME TypeOK, NEW mem, LoadedFrom(mem), NEW q \in Pos
    PROVE  /\ Emerged(mem, q) \in MapBlock
           /\ q \notin rushed => Emerged(mem, q) = Emerged(memory, q)
<1>1. mem[q] \in MapBlock \cup {None} /\ disk[q] \in Saved \cup {None}
  BY DEF TypeOK, LoadedFrom
<1>2. Emerged(mem, q) \in MapBlock
  BY <1>1 DEF Emerged, Clean, Blank, Saved, MapBlock
<1>3. None \notin MapBlock
  BY NoneAssumption
<1>4. mem[q] # None => Emerged(mem, q) = mem[q]
  BY DEF Emerged
<1>5. CASE q \notin rushed /\ mem[q] = memory[q]
  <2>1. Emerged(mem, q) = Emerged(memory, q)
    BY <1>5 DEF Emerged
  <2> QED
    BY <2>1, <1>2
<1>6. CASE q \notin rushed /\ mem[q] = Emerged(memory, q)
  <2>1. memory[q] \in MapBlock \cup {None}
    BY DEF TypeOK
  <2>2. Emerged(memory, q) \in MapBlock
    BY <1>1, <2>1 DEF Emerged, Clean, Blank, Saved, MapBlock
  <2>3. Emerged(mem, q) = mem[q]
    BY <1>3, <1>4, <1>6, <2>2
  <2> QED
    BY <2>3, <1>2, <1>6
<1> QED
  BY <1>2, <1>5, <1>6 DEF LoadedFrom

(* The thread's own part of the state after it has dealt with position p:  *)
(* it is done, or it has a copy of what is in memory now.                  *)
Started(t) ==
    /\ LoadedFrom(memory')
    /\ \E step \in {"idle", "making"}, p \in Pos, gen \in BOOLEAN : Goto(t, step, p, gen)
    /\ databuf' = [databuf EXCEPT ![t] = None]
    /\ \E copies \in [Pos -> Saved \cup {None}] :
          /\ vmanip' = [vmanip EXCEPT ![t] = copies]
          /\ pc'[t] = "idle" => copies = NoCopies
          /\ \A q \in Pos : copies[q] # None =>
                /\ memory'[q] # None
                /\ copies[q] = Content(memory'[q])

LEMMA StartGenStarts ==
    ASSUME TypeOK, NEW t \in EThread, NEW p \in Pos, NEW gen \in BOOLEAN,
           NEW mem, LoadedFrom(mem), StartGen(t, p, gen, mem)
    PROVE  Started(t)
<1> DEFINE c == chunk_of[p]
           full == [q \in Pos |-> IF q \in full_area[c] THEN Emerged(mem, q) ELSE mem[q]]
           copies == [q \in Pos |-> IF q \in full_area[c] THEN Content(full[q]) ELSE None]
<1>0. /\ t \in DOMAIN pc /\ NoCopies \in [Pos -> Saved \cup {None}]
      /\ NoPos \in Pos
  BY PosAssumption DEF TypeOK, NoCopies, NoPos
<1>1. CASE memory' = mem /\ Finish(t)
  <2>1. LoadedFrom(memory')
    BY <1>1
  <2>2. /\ Goto(t, "idle", NoPos, FALSE)
        /\ databuf' = [databuf EXCEPT ![t] = None]
        /\ vmanip' = [vmanip EXCEPT ![t] = NoCopies]
    BY <1>1 DEF Finish
  <2>3. \A q \in Pos : NoCopies[q] = None
    BY DEF NoCopies
  <2> QED
    BY <1>0, <2>1, <2>2, <2>3 DEF Started
<1>2. CASE /\ memory' = full
           /\ vmanip' = [vmanip EXCEPT ![t] = copies]
           /\ Goto(t, "making", p, TRUE)
           /\ databuf' = [databuf EXCEPT ![t] = None]
  <2>1. ASSUME NEW q \in Pos
        PROVE  /\ full[q] \in MapBlock \cup {None}
               /\ q \notin rushed => full[q] \in {memory[q], Emerged(memory, q)}
               /\ q \in full_area[c] => full[q] \in MapBlock
    BY EmergedType DEF LoadedFrom
  <2>2. full \in [Pos -> MapBlock \cup {None}]
    BY <2>1
  <2>3. ASSUME NEW q \in Pos, q \in full_area[c]
        PROVE  /\ copies[q] = Content(full[q]) /\ copies[q] \in Saved
               /\ full[q] # None
    BY <2>1, <2>3, NoneAssumption DEF Content, Saved, MapBlock
  <2>4. copies \in [Pos -> Saved \cup {None}]
    BY <2>3
  <2>5. \A q \in Pos : copies[q] # None => full[q] # None /\ copies[q] = Content(full[q])
    BY <2>3
  <2>6. pc'[t] = "making"
    BY <1>0, <1>2 DEF Goto
  <2>7. \E step \in {"idle", "making"}, x \in Pos, y \in BOOLEAN : Goto(t, step, x, y)
    BY <1>2
  <2> HIDE DEF full, copies
  <2>8. LoadedFrom(memory')
    BY <1>2, <2>1, <2>2 DEF LoadedFrom
  <2> QED
    BY <1>2, <2>4, <2>5, <2>6, <2>7, <2>8 DEF Started
<1> QED
  BY <1>1, <1>2 DEF StartGen, InitBlockMake

-----------------------------------------------------------------------------
(* The two steps of a thread that may load blocks.                         *)
LEMMA GetBlockStarts ==
    ASSUME TypeOK, NEW t \in EThread, NEW p \in Pos, NEW gen \in BOOLEAN,
           GetBlock(t, p, gen)
    PROVE  \/ Started(t) /\ pc[t] = "idle"
           \/ /\ pc[t] = "idle"
              /\ UNCHANGED <<pc, pos, allow_gen>> \/ Goto(t, "reading", p, gen)
              /\ UNCHANGED <<memory, databuf, vmanip, m_chunks_in_progress>>
<1>1. LoadedFrom(memory)
  BY DEF LoadedFrom, TypeOK
<1>2. CASE StartGen(t, p, gen, memory)
  BY <1>1, <1>2, StartGenStarts DEF GetBlock
<1>3. CASE OkInMemory(p) /\ UNCHANGED <<memory, m_chunks_in_progress, threadVars>>
  BY <1>3 DEF GetBlock, threadVars
<1>4. CASE /\ Goto(t, "reading", p, gen)
           /\ UNCHANGED <<memory, m_chunks_in_progress, databuf, vmanip>>
  BY <1>4 DEF GetBlock
<1> QED
  BY <1>2, <1>3, <1>4 DEF GetBlock

LEMMA DecideAgainStarts ==
    ASSUME TypeOK, ReadIsSaved, NEW t \in EThread, DecideAgain(t)
    PROVE  Started(t)
<1> DEFINE p == pos[t]
           mem == IF Loads(t) THEN [memory EXCEPT ![p] = Clean(databuf[t])] ELSE memory
<1>1. p \in Pos /\ allow_gen[t] \in BOOLEAN /\ pc[t] = "read"
  BY DEF TypeOK, DecideAgain
<1>2. LoadedFrom(mem)
  <2>1. CASE Loads(t)
    <3>1. memory[p] = None /\ databuf[t] # None
      BY <2>1 DEF Loads, InMemory
    <3>2. p \notin rushed => Emerged(memory, p) = Clean(databuf[t])
      <4>1. ASSUME p \notin rushed PROVE databuf[t] = disk[p] /\ disk[p] # None
        BY <1>1, <3>1, <4>1 DEF InMemory, ReadIsSaved
      <4> QED
        BY <3>1, <4>1 DEF Emerged
    <3>3. Clean(databuf[t]) \in MapBlock
      BY <1>1, <3>1 DEF TypeOK, Saved, Clean, MapBlock
    <3> QED
      BY <2>1, <3>2, <3>3 DEF LoadedFrom, TypeOK
  <2>2. CASE ~Loads(t)
    BY <2>2 DEF LoadedFrom, TypeOK
  <2> QED
    BY <2>1, <2>2
<1>3. CASE StartGen(t, p, allow_gen[t], mem)
  BY <1>1, <1>2, <1>3, StartGenStarts
<1>4. CASE memory' = mem /\ Finish(t) /\ UNCHANGED m_chunks_in_progress
  <2>1. StartGen(t, p, FALSE, mem)
    BY <1>4 DEF StartGen
  <2> QED
    BY <1>1, <1>2, <2>1, StartGenStarts
<1> QED
  BY <1>3, <1>4 DEF DecideAgain

(* Loading a block or creating it changes nothing for whoever asks.        *)
LEMMA StartedSame ==
    ASSUME TypeOK, LoadedFrom(memory'), disk' = disk, NEW q \in Pos \ rushed
    PROVE  /\ Current(q)' = Current(q)
           /\ memory[q] # None => memory'[q] = memory[q]
           /\ memory[q] = None /\ memory'[q] # None => memory'[q] = Emerged(memory, q)
<1>1. memory'[q] \in {memory[q], Emerged(memory, q)}
  BY DEF LoadedFrom
<1>2. CASE memory[q] # None
  <2>1. memory'[q] = memory[q]
    BY <1>1, <1>2 DEF Emerged
  <2>2. Current(q)' = Current(q)
    BY <1>2, <2>1 DEF Current, InMemory, Content
  <2> QED
    BY <2>1, <2>2, <1>2
<1>3. CASE memory[q] = None /\ memory'[q] = None
  <2>1. Current(q)' = Current(q)
    BY <1>3 DEF Current, InMemory, Content, Blank
  <2> QED
    BY <2>1, <1>3
<1>4. CASE memory[q] = None /\ memory'[q] # None
  <2>1. memory'[q] = Emerged(memory, q)
    BY <1>1, <1>4
  <2>2. CASE disk[q] = None
    <3>1. memory'[q] = Blank
      BY <1>4, <2>1, <2>2 DEF Emerged
    <3>2. Current(q)' = Content(Blank) /\ Current(q) = Content(Blank)
      BY <1>4, <2>2, <3>1 DEF Current, InMemory, Content, Blank
    <3> QED
      BY <1>4, <2>1, <3>2
  <2>3. CASE disk[q] # None
    <3>1. memory'[q] = Clean(disk[q]) /\ disk[q] \in Saved
      BY <1>4, <2>1, <2>3 DEF Emerged, TypeOK
    <3>2. Content(memory'[q]) = disk[q]
      BY <3>1 DEF Content, Clean, Saved
    <3>3. Current(q)' = disk[q] /\ Current(q) = disk[q]
      BY <1>4, <2>3, <3>2 DEF Current, InMemory, Content
    <3> QED
      BY <1>4, <2>1, <3>3
  <2> QED
    BY <2>2, <2>3
<1> QED
  BY <1>2, <1>3, <1>4

(* It keeps what memory, disk and copies have to do with each other.       *)
LEMMA StartedStep ==
    ASSUME IInv, NEW t \in EThread, Started(t), UNCHANGED <<disk, history>>
    PROVE  CleanMeansSaved' /\ ReadIsSaved' /\ CopiesAgree'
<1> USE DEF IInv
<1>0. LoadedFrom(memory') /\ rushed' = rushed /\ raced' = raced /\ disk' = disk
  BY DEF Started, history
<1>1. ASSUME NEW q \in Pos \ rushed
      PROVE  /\ memory[q] # None => memory'[q] = memory[q]
             /\ memory[q] = None /\ memory'[q] # None => memory'[q] = Emerged(memory, q)
             /\ Current(q)' = Current(q)
  BY <1>0, StartedSame
<1>2. CleanMeansSaved'
  <2> SUFFICES ASSUME NEW q \in Pos \ rushed, memory'[q] # None, ~memory'[q].modified
               PROVE  disk[q] = Content(memory'[q])
    BY <1>0 DEF CleanMeansSaved, InMemory, Content
  <2>1. CASE memory[q] # None
    BY <1>1, <2>1 DEF CleanMeansSaved, InMemory
  <2>2. CASE memory[q] = None
    <3>1. memory'[q] = Emerged(memory, q)
      BY <1>1, <2>2
    <3>2. disk[q] # None
      BY <2>2, <3>1 DEF Emerged, Blank
    <3>3. memory'[q] = Clean(disk[q]) /\ disk[q] \in Saved
      BY <2>2, <3>1, <3>2 DEF Emerged, TypeOK
    <3> QED
      BY <3>3 DEF Clean, Content, Saved
  <2> QED
    BY <2>1, <2>2
<1>3. ReadIsSaved'
  <2> SUFFICES ASSUME NEW u \in EThread, pc'[u] = "read", memory'[pos'[u]] = None,
                      pos'[u] \notin rushed
               PROVE  databuf'[u] \in {None, disk[pos'[u]]}
    BY <1>0 DEF ReadIsSaved, InMemory
  <2>1. u # t
    BY DEF Started, Goto, TypeOK
  <2>2. pc[u] = "read" /\ databuf'[u] = databuf[u] /\ pos'[u] = pos[u] /\ pos[u] \in Pos
    BY <2>1 DEF Started, Goto, TypeOK
  <2>3. memory[pos[u]] = None
    BY <1>1, <2>2
  <2> QED
    BY <2>2, <2>3 DEF ReadIsSaved, InMemory
<1>4. CopiesAgree'
  <2> SUFFICES ASSUME NEW u \in EThread, NEW q \in Pos \ rushed, vmanip'[u][q] # None
               PROVE  vmanip'[u][q].edits \ Lost = Current(q)'.edits \ Lost
    BY <1>0 DEF CopiesAgree, Lost
  <2>1. CASE u = t
    <3>1. memory'[q] # None /\ vmanip'[u][q] = Content(memory'[q])
      BY <2>1 DEF Started, TypeOK
    <3>2. Current(q)' = Content(memory'[q])
      BY <3>1 DEF Current, InMemory, Content
    <3> QED
      BY <3>1, <3>2
  <2>2. CASE u # t
    <3>1. vmanip'[u][q] = vmanip[u][q]
      BY <2>2 DEF Started, TypeOK
    <3> QED
      BY <1>1, <3>1 DEF CopiesAgree
  <2> QED
    BY <2>1, <2>2
<1> QED
  BY <1>2, <1>3, <1>4

-----------------------------------------------------------------------------
(* Types *)

LEMMA StartedType ==
    ASSUME TypeOK, NEW t \in EThread, Started(t), UNCHANGED <<disk, history>>,
           m_chunks_in_progress' \subseteq Chunk
    PROVE  TypeOK'
<1>1. PICK step \in {"idle", "making"}, p \in Pos, gen \in BOOLEAN :
        /\ pc' = [pc EXCEPT ![t] = step]
        /\ pos' = [pos EXCEPT ![t] = p]
        /\ allow_gen' = [allow_gen EXCEPT ![t] = gen]
  BY DEF Started, Goto
<1>2. PICK copies \in [Pos -> Saved \cup {None}] :
        /\ vmanip' = [vmanip EXCEPT ![t] = copies]
        /\ pc'[t] = "idle" => copies = NoCopies
  BY DEF Started
<1>3. /\ pc' \in [EThread -> {"idle", "reading", "read", "making"}]
      /\ pos' \in [EThread -> Pos] /\ allow_gen' \in [EThread -> BOOLEAN]
      /\ memory' \in [Pos -> MapBlock \cup {None}]
      /\ databuf' \in [EThread -> Saved \cup {None}]
      /\ vmanip' \in [EThread -> [Pos -> Saved \cup {None}]]
  BY <1>1, <1>2 DEF Started, LoadedFrom, TypeOK
<1>4. \A u \in EThread :
        /\ pc'[u] # "read" => databuf'[u] = None
        /\ pc'[u] # "making" => vmanip'[u] = NoCopies
  <2> SUFFICES ASSUME NEW u \in EThread
               PROVE  /\ pc'[u] # "read" => databuf'[u] = None
                      /\ pc'[u] # "making" => vmanip'[u] = NoCopies
    OBVIOUS
  <2>1. CASE u = t
    BY <1>1, <1>2, <2>1 DEF Started, TypeOK
  <2>2. CASE u # t
    BY <1>1, <1>2, <2>2 DEF Started, TypeOK
  <2> QED
    BY <2>1, <2>2
<1> QED
  BY <1>3, <1>4 DEF Started, TypeOK, history, NoCopies

(* Finishing what a thread was making writes back blocks only.             *)
LEMMA BlitType ==
    ASSUME TypeOK, NEW t \in EThread, NEW q \in Pos, NEW lost,
           vmanip[t][q] # None, memory[q] # None
    PROVE  Blit(t, q, lost) \in MapBlock
<1>1. vmanip[t][q] \in Saved /\ memory[q] \in MapBlock
  BY DEF TypeOK
<1>2. /\ vmanip[t][q].edits \subseteq Edit /\ memory[q].edits \subseteq Edit
      /\ memory[q].generated \in BOOLEAN
  BY <1>1 DEF Saved, MapBlock
<1>3. (IF vmanip[t][q].generated THEN vmanip[t][q].edits \ lost ELSE memory[q].edits) \in SUBSET Edit
  BY <1>2
<1>4. (memory[q].generated \/ chunk_of[q] = chunk_of[pos[t]]) \in BOOLEAN
  OBVIOUS
<1> QED
  BY <1>3, <1>4 DEF Blit, MapBlock

LEMMA TypeInit == Init => TypeOK
<1> SUFFICES ASSUME Init
             PROVE  TypeOK
  OBVIOUS
<1>1. NoPos \in Pos
  BY PosAssumption DEF NoPos
<1> QED
  BY <1>1 DEF Init, TypeOK, NoCopies

(* A thread is done with its block. *)
LEMMA FinishType ==
    ASSUME TypeOK, NEW t \in EThread, Finish(t)
    PROVE  /\ pc' \in [EThread -> {"idle", "reading", "read", "making"}]
           /\ pos' \in [EThread -> Pos] /\ allow_gen' \in [EThread -> BOOLEAN]
           /\ databuf' \in [EThread -> Saved \cup {None}]
           /\ vmanip' \in [EThread -> [Pos -> Saved \cup {None}]]
           /\ \A u \in EThread : /\ pc'[u] # "read" => databuf'[u] = None
                                 /\ pc'[u] # "making" => vmanip'[u] = NoCopies
<1>1. NoPos \in Pos
  BY PosAssumption DEF NoPos
<1> QED
  BY <1>1 DEF Finish, Goto, TypeOK, NoCopies

LEMMA TypeStep == TypeOK /\ ReadIsSaved /\ [Next]_vars => TypeOK'
<1> SUFFICES ASSUME TypeOK, ReadIsSaved, [Next]_vars
             PROVE  TypeOK'
  OBVIOUS
<1>1. ASSUME NEW t \in EThread, NEW p \in Pos, NEW gen \in BOOLEAN, GetBlock(t, p, gen)
      PROVE  TypeOK'
  <2>0. m_chunks_in_progress' \subseteq Chunk
    <3>1. chunk_of[p] \in Chunk /\ m_chunks_in_progress \subseteq Chunk
      BY ChunksAssumption DEF TypeOK
    <3>2. \/ UNCHANGED m_chunks_in_progress
          \/ m_chunks_in_progress' = m_chunks_in_progress \cup {chunk_of[p]}
      BY <1>1 DEF GetBlock, StartGen, InitBlockMake
    <3> QED
      BY <3>1, <3>2
  <2>1. UNCHANGED <<disk, history>> /\ m_chunks_in_progress' \subseteq Chunk
    BY <1>1, <2>0 DEF GetBlock
  <2>2. CASE Started(t)
    BY <2>1, <2>2, StartedType
  <2>3. CASE /\ pc[t] = "idle" /\ Goto(t, "reading", p, gen)
             /\ UNCHANGED <<memory, databuf, vmanip>>
    BY <2>1, <2>3 DEF Goto, TypeOK, history, NoCopies
  <2>4. CASE UNCHANGED <<pc, pos, allow_gen, memory, databuf, vmanip>>
    BY <2>1, <2>4 DEF TypeOK, history, NoCopies
  <2> QED
    BY <1>1, <2>2, <2>3, <2>4, GetBlockStarts
<1>2. ASSUME NEW t \in EThread, ReadDatabase(t)
      PROVE  TypeOK'
  BY <1>2 DEF ReadDatabase, Goto, TypeOK, history, NoCopies
<1>3. ASSUME NEW t \in EThread, DecideAgain(t)
      PROVE  TypeOK'
  <2>1. pos[t] \in Pos
    BY DEF TypeOK
  <2>0. m_chunks_in_progress' \subseteq Chunk
    <3>1. chunk_of[pos[t]] \in Chunk /\ m_chunks_in_progress \subseteq Chunk
      BY <2>1, ChunksAssumption DEF TypeOK
    <3>2. \/ UNCHANGED m_chunks_in_progress
          \/ m_chunks_in_progress' = m_chunks_in_progress \cup {chunk_of[pos[t]]}
      BY <1>3 DEF DecideAgain, StartGen, InitBlockMake
    <3> QED
      BY <3>1, <3>2
  <2>2. UNCHANGED <<disk, history>> /\ m_chunks_in_progress' \subseteq Chunk
    BY <1>3, <2>0 DEF DecideAgain
  <2> QED
    BY <1>3, <2>2, DecideAgainStarts, StartedType
<1>4. ASSUME NEW t \in EThread, NEW lost \in SUBSET Replaceable, FinishBlockMake(t, lost)
      PROVE  TypeOK'
  <2>1. memory' \in [Pos -> MapBlock \cup {None}]
    BY <1>4, BlitType DEF FinishBlockMake, InMemory, TypeOK
  <2>2. /\ Finish(t) /\ UNCHANGED <<disk, history>>
        /\ m_chunks_in_progress' \subseteq Chunk
    BY <1>4 DEF FinishBlockMake, TypeOK
  <2> QED
    BY <2>1, <2>2, FinishType DEF TypeOK, history
<1>5. ASSUME NEW t \in EThread, OnGeneratedError(t)
      PROVE  TypeOK'
  <2>1. Finish(t) /\ UNCHANGED <<memory, disk, m_chunks_in_progress, history>>
    BY <1>5 DEF OnGeneratedError
  <2> QED
    BY <2>1, FinishType DEF TypeOK, history
<1>6. ASSUME NEW e \in Edit, SetNode(e)
      PROVE  TypeOK'
  <2> DEFINE p == block_of[e]
  <2>0. p \in Pos
    BY ChunksAssumption
  <2>1. memory[p] \in MapBlock
    BY <1>6, <2>0 DEF SetNode, OkInMemory, InMemory, TypeOK
  <2>2. [memory[p] EXCEPT !.edits = @ \cup {e}, !.modified = TRUE] \in MapBlock
    BY <2>1 DEF MapBlock
  <2>3. memory' = [memory EXCEPT ![p] = [memory[p] EXCEPT !.edits = @ \cup {e}, !.modified = TRUE]]
    BY <1>6, <2>0 DEF SetNode, TypeOK
  <2> HIDE DEF p
  <2>4. memory' \in [Pos -> MapBlock \cup {None}]
    BY <2>2, <2>3 DEF TypeOK
  <2> QED
    BY <1>6, <2>4 DEF SetNode, TypeOK, threadVars, NoCopies
<1>7. ASSUME NEW p \in Pos, EmergeBlock(p)
      PROVE  TypeOK'
  <2>1. Emerged(memory, p) \in MapBlock
    BY EmergedType DEF LoadedFrom, TypeOK
  <2> QED
    BY <1>7, <2>1 DEF EmergeBlock, TypeOK, threadVars, history, NoCopies
<1>8. ASSUME NEW p \in Pos, SaveBlock(p)
      PROVE  TypeOK'
  <2>1. memory[p] \in MapBlock
    BY <1>8 DEF SaveBlock, InMemory, TypeOK
  <2>2. Content(memory[p]) \in Saved /\ [memory[p] EXCEPT !.modified = FALSE] \in MapBlock
    BY <2>1 DEF Content, Saved, MapBlock
  <2> QED
    BY <1>8, <2>2 DEF SaveBlock, TypeOK, threadVars, history, NoCopies
<1>9. ASSUME NEW p \in Pos, UnloadBlock(p)
      PROVE  TypeOK'
  <2>1. memory[p] \in MapBlock
    BY <1>9 DEF UnloadBlock, InMemory, TypeOK
  <2>2. SavedOf(p) \in Saved \cup {None}
    BY <2>1 DEF SavedOf, Content, Saved, MapBlock, TypeOK
  <2> QED
    BY <1>9, <2>2 DEF UnloadBlock, TypeOK, threadVars, NoCopies
<1>10. CASE UNCHANGED vars
  BY <1>10 DEF vars, threadVars, history, TypeOK, NoCopies
<1> QED
  BY <1>1, <1>2, <1>3, <1>4, <1>5, <1>6, <1>7, <1>8, <1>9, <1>10 DEF Next, ThreadStep

-----------------------------------------------------------------------------
(* The invariant *)

LEMMA InvInit == Init => IInv
<1> SUFFICES ASSUME Init
             PROVE  IInv
  OBVIOUS
<1>1. TypeOK
  BY TypeInit
<1>2. \A p \in Pos : ~InMemory(p)
  BY DEF Init, InMemory
<1>3. \A t \in EThread : pc[t] = "idle"
  BY DEF Init
<1>4. \A t \in EThread, q \in Pos : vmanip[t][q] = None
  BY DEF Init, NoCopies
<1> QED
  BY <1>1, <1>2, <1>3, <1>4 DEF IInv, CleanMeansSaved, ReadIsSaved, CopiesAgree

(* What FinishBlockMake makes of a block in memory.  The copies of a block *)
(* differ by no edit but those made while there was a copy and those that  *)
(* generators write over, so whichever is written back last loses none of  *)
(* the others.                                                             *)
LEMMA BlitKeepsEdits ==
    ASSUME IInv, NEW t \in EThread, NEW lost \in SUBSET Replaceable, FinishBlockMake(t, lost),
           NEW q \in Pos \ rushed, InMemory(q)
    PROVE  /\ memory'[q] # None
           /\ memory'[q].edits \ Lost = memory[q].edits \ Lost
           /\ memory[q].generated => memory'[q].generated
           /\ (Copied(q) /\ memory'[q].modified) \/ memory'[q] = memory[q]
<1>1. CASE vmanip[t][q] # None
  <2>1. memory'[q] = Blit(t, q, lost)
    BY <1>1 DEF FinishBlockMake
  <2>2. memory'[q] # None
    BY <1>1, <2>1, BlitType, NoneAssumption DEF IInv, InMemory
  <2>3. vmanip[t][q].edits \ Lost = memory[q].edits \ Lost
    BY <1>1 DEF IInv, CopiesAgree, Current, InMemory, Content
  <2>4. memory'[q].edits = IF vmanip[t][q].generated THEN vmanip[t][q].edits \ lost
                                                    ELSE memory[q].edits
    BY <2>1 DEF Blit
  <2>5. memory'[q].generated = (memory[q].generated \/ chunk_of[q] = chunk_of[pos[t]])
    BY <2>1 DEF Blit
  <2>6. memory'[q].modified = TRUE /\ Copied(q)
    BY <1>1, <2>1 DEF Blit, FinishBlockMake, Copied
  <2>7. memory[q].generated => memory'[q].generated
    BY <2>5
  <2>8. lost \subseteq Lost
    BY DEF Lost
  <2>9. memory'[q].edits \ Lost = memory[q].edits \ Lost
    BY <2>3, <2>4, <2>8
  <2> QED
    BY <2>2, <2>6, <2>7, <2>9
<1>2. CASE vmanip[t][q] = None
  BY <1>2 DEF FinishBlockMake, InMemory
<1> QED
  BY <1>1, <1>2

(* So for whoever asks for the block. *)
LEMMA FinishKeeps ==
    ASSUME IInv, NEW t \in EThread, NEW lost \in SUBSET Replaceable, FinishBlockMake(t, lost),
           NEW q \in Pos \ rushed
    PROVE  /\ memory'[q] = None <=> memory[q] = None
           /\ Current(q)'.edits \ Lost = Current(q).edits \ Lost
           /\ Current(q).generated => Current(q)'.generated
           /\ Copied(q) \/ Current(q)' = Current(q)
<1>1. disk' = disk
  BY DEF FinishBlockMake
<1>2. CASE memory[q] = None
  <2>1. memory'[q] = None
    BY <1>2 DEF FinishBlockMake, InMemory
  <2>2. Current(q)' = Current(q)
    BY <1>1, <1>2, <2>1 DEF Current, InMemory, Content, Blank
  <2> QED
    BY <1>2, <2>1, <2>2
<1>3. CASE memory[q] # None
  <2>1. /\ memory'[q] # None
        /\ memory'[q].edits \ Lost = memory[q].edits \ Lost
        /\ memory[q].generated => memory'[q].generated
        /\ Copied(q) \/ memory'[q] = memory[q]
    BY <1>3, BlitKeepsEdits DEF InMemory
  <2>2. Current(q) = Content(memory[q]) /\ Current(q)' = Content(memory'[q])
    BY <1>3, <2>1 DEF Current, InMemory, Content
  <2>3. /\ Current(q).edits = memory[q].edits /\ Current(q)'.edits = memory'[q].edits
        /\ Current(q).generated = memory[q].generated
        /\ Current(q)'.generated = memory'[q].generated
    BY <2>2 DEF Content
  <2>4. memory'[q] = memory[q] => Current(q)' = Current(q)
    BY <2>2
  <2> QED
    BY <1>3, <2>1, <2>3, <2>4
<1> QED
  BY <1>2, <1>3

(* An edit is one more of its block, which is then to be saved. *)
LEMMA SetNodeAdds ==
    ASSUME TypeOK, NEW e \in Edit, SetNode(e), NEW q \in Pos
    PROVE  /\ memory'[q] = None <=> memory[q] = None
           /\ Current(q)'.generated = Current(q).generated
           /\ Current(q)'.edits = Current(q).edits \cup {x \in {e} : block_of[x] = q}
           /\ memory'[q] = memory[q] \/ memory'[q].modified
<1> DEFINE p == block_of[e]
           edited == [memory[p] EXCEPT !.edits = @ \cup {e}, !.modified = TRUE]
<1>0. p \in Pos /\ disk' = disk
  BY ChunksAssumption DEF SetNode
<1>1. memory[p] \in MapBlock /\ memory[p] # None
  BY <1>0, NoneAssumption DEF SetNode, OkInMemory, InMemory, TypeOK
<1>2. memory' = [memory EXCEPT ![p] = edited]
  BY <1>0 DEF SetNode, TypeOK
<1>3. /\ edited \in MapBlock /\ edited.edits = memory[p].edits \cup {e}
      /\ edited.generated = memory[p].generated /\ edited.modified
  BY <1>1 DEF MapBlock
<1>4. edited # None
  BY <1>3, NoneAssumption
<1> HIDE DEF edited, p
<1>5. CASE q = p
  <2>1. memory'[q] = edited
    BY <1>0, <1>2, <1>5 DEF TypeOK
  <2>2. Current(q) = Content(memory[p]) /\ Current(q)' = Content(edited)
    BY <1>1, <1>4, <1>5, <2>1 DEF Current, InMemory, Content
  <2>3. {x \in {e} : block_of[x] = q} = {e}
    BY <1>5 DEF p
  <2>4. Current(q)'.generated = Current(q).generated /\ Current(q)'.edits = Current(q).edits \cup {e}
    BY <1>3, <2>2 DEF Content
  <2> QED
    BY <1>1, <1>3, <1>4, <1>5, <2>1, <2>3, <2>4
<1>6. CASE q # p
  <2>1. memory'[q] = memory[q]
    BY <1>2, <1>6 DEF TypeOK
  <2>2. Current(q)' = Current(q)
    BY <1>0, <2>1 DEF Current, InMemory, Content, Blank
  <2>3. {x \in {e} : block_of[x] = q} = {}
    BY <1>6 DEF p
  <2> QED
    BY <2>1, <2>2, <2>3
<1> QED
  BY <1>5, <1>6

(* An edit of a block of which there is a copy is a raced one.             *)
LEMMA EditKeepsAgreement ==
    ASSUME IInv, NEW e \in Edit, SetNode(e)
    PROVE  CopiesAgree'
<1> SUFFICES ASSUME NEW t \in EThread, NEW q \in Pos \ rushed, vmanip[t][q] # None
             PROVE  vmanip[t][q].edits \ Lost' = Current(q)'.edits \ Lost'
  BY DEF CopiesAgree, SetNode, threadVars
<1>1. vmanip[t][q].edits \ Lost = Current(q).edits \ Lost
  BY DEF IInv, CopiesAgree
<1>2. Lost \subseteq Lost'
  BY DEF SetNode, Lost
<1>3. Current(q)'.edits = Current(q).edits \cup {x \in {e} : block_of[x] = q}
  BY SetNodeAdds DEF IInv
<1>4. block_of[e] = q => e \in Lost'
  <2>1. vmanip[t] # NoCopies
    BY DEF NoCopies
  <2>2. Copied(q)
    BY <2>1 DEF Copied, IInv, TypeOK
  <2> QED
    BY <2>2 DEF SetNode, Lost
<1> QED
  BY <1>1, <1>2, <1>3, <1>4

(* Saving a block, with or without unloading it, changes nothing for       *)
(* whoever asks for it.                                                    *)
LEMMA SaveSame ==
    ASSUME TypeOK, NEW p \in Pos, SaveBlock(p), NEW q \in Pos
    PROVE  /\ Current(q)' = Current(q)
           /\ memory'[q] = None <=> memory[q] = None
           /\ q = p => memory[q] # None /\ disk'[q] = Content(memory'[q])
           /\ q # p => memory'[q] = memory[q] /\ disk'[q] = disk[q]
<1> DEFINE saved == [memory[p] EXCEPT !.modified = FALSE]
<1>1. memory[p] \in MapBlock /\ memory[p] # None
  BY DEF SaveBlock, InMemory, TypeOK
<1>2. /\ memory' = [memory EXCEPT ![p] = saved]
      /\ disk' = [disk EXCEPT ![p] = Content(memory[p])]
  BY DEF SaveBlock, TypeOK
<1>3. saved \in MapBlock /\ Content(saved) = Content(memory[p])
  BY <1>1 DEF MapBlock, Content
<1>4. saved # None
  BY <1>3, NoneAssumption
<1> HIDE DEF saved
<1>5. CASE q = p
  <2>1. memory'[q] = saved /\ disk'[q] = Content(memory[p])
    BY <1>2, <1>5 DEF TypeOK
  <2>2. Current(q) = Content(memory[p]) /\ Current(q)' = Content(saved)
    BY <1>1, <1>4, <1>5, <2>1 DEF Current, InMemory, Content
  <2> QED
    BY <1>1, <1>3, <1>4, <1>5, <2>1, <2>2
<1>6. CASE q # p
  <2>1. memory'[q] = memory[q] /\ disk'[q] = disk[q]
    BY <1>2, <1>6 DEF TypeOK
  <2>2. Current(q)' = Current(q)
    BY <2>1 DEF Current, InMemory, Content, Blank
  <2> QED
    BY <1>6, <2>1, <2>2
<1> QED
  BY <1>5, <1>6

LEMMA UnloadSame ==
    ASSUME TypeOK, CleanMeansSaved, NEW p \in Pos, UnloadBlock(p), NEW q \in Pos \ rushed
    PROVE  /\ Current(q)' = Current(q)
           /\ q = p => memory'[q] = None /\ disk'[q] = SavedOf(q)
           /\ q # p => memory'[q] = memory[q] /\ disk'[q] = disk[q]
<1>1. memory[p] \in MapBlock /\ memory[p] # None
  BY DEF UnloadBlock, InMemory, TypeOK
<1>2. memory' = [memory EXCEPT ![p] = None] /\ disk' = [disk EXCEPT ![p] = SavedOf(p)]
  BY DEF UnloadBlock
<1>3. CASE q = p
  <2>1. memory'[q] = None /\ disk'[q] = SavedOf(q)
    BY <1>2, <1>3 DEF TypeOK
  <2>2. SavedOf(q) = Content(memory[q])
    BY <1>1, <1>3 DEF SavedOf, CleanMeansSaved, InMemory
  <2>3. SavedOf(q) # None
    BY <1>1, <1>3, <2>2, NoneAssumption DEF Content, Saved, MapBlock
  <2>4. Current(q) = Content(memory[q]) /\ Current(q)' = disk'[q]
    BY <1>1, <1>3, <2>1, <2>3 DEF Current, InMemory, Content
  <2> QED
    BY <1>3, <2>1, <2>2, <2>4
<1>4. CASE q # p
  <2>1. memory'[q] = memory[q] /\ disk'[q] = disk[q]
    BY <1>2, <1>4 DEF TypeOK
  <2>2. Current(q)' = Current(q)
    BY <2>1 DEF Current, InMemory, Content, Blank
  <2> QED
    BY <1>4, <2>1, <2>2
<1> QED
  BY <1>3, <1>4

LEMMA InvStep == IInv /\ [Next]_vars => IInv'
<1> SUFFICES ASSUME IInv, [Next]_vars
             PROVE  CleanMeansSaved' /\ ReadIsSaved' /\ CopiesAgree'
  BY TypeStep DEF IInv
<1> USE DEF IInv
<1>0. ASSUME UNCHANGED <<memory, disk, vmanip, history>>,
             \A u \in EThread : pc'[u] = "read" =>
                 /\ pos'[u] = pos[u]
                 /\ \/ pc[u] = "read" /\ databuf'[u] = databuf[u]
                    \/ databuf'[u] = disk[pos[u]]
      PROVE  CleanMeansSaved' /\ ReadIsSaved' /\ CopiesAgree'
  <2>1. UNCHANGED <<rushed, Lost>> /\ \A q : Current(q)' = Current(q) /\ Content(memory[q])' = Content(memory[q])
    BY <1>0 DEF history, Lost, Current, InMemory, Content, Blank
  <2>2. CleanMeansSaved'
    BY <1>0, <2>1 DEF CleanMeansSaved, InMemory
  <2>3. ReadIsSaved'
    BY <1>0, <2>1 DEF ReadIsSaved, InMemory
  <2>4. CopiesAgree'
    BY <1>0, <2>1 DEF CopiesAgree
  <2> QED
    BY <2>2, <2>3, <2>4
<1>1. ASSUME NEW t \in EThread, NEW p \in Pos, NEW gen \in BOOLEAN, GetBlock(t, p, gen)
      PROVE  CleanMeansSaved' /\ ReadIsSaved' /\ CopiesAgree'
  <2>1. UNCHANGED <<disk, history>>
    BY <1>1 DEF GetBlock
  <2>2. CASE Started(t)
    BY <2>1, <2>2, StartedStep
  <2>3. CASE /\ pc[t] = "idle"
             /\ UNCHANGED <<pc, pos, allow_gen>> \/ Goto(t, "reading", p, gen)
             /\ UNCHANGED <<memory, databuf, vmanip, m_chunks_in_progress>>
    <3>1. \A u \in EThread : pc'[u] = "read" => pc[u] = "read" /\ pos'[u] = pos[u]
      BY <2>3 DEF Goto, TypeOK
    <3> QED
      BY <1>0, <2>1, <2>3, <3>1
  <2> QED
    BY <1>1, <2>2, <2>3, GetBlockStarts
<1>2. ASSUME NEW t \in EThread, ReadDatabase(t)
      PROVE  CleanMeansSaved' /\ ReadIsSaved' /\ CopiesAgree'
  <2>1. \A u \in EThread : pc'[u] = "read" =>
                 /\ pos'[u] = pos[u]
                 /\ \/ pc[u] = "read" /\ databuf'[u] = databuf[u]
                    \/ databuf'[u] = disk[pos[u]]
    BY <1>2 DEF ReadDatabase, Goto, TypeOK
  <2> QED
    BY <1>0, <1>2, <2>1 DEF ReadDatabase
<1>3. ASSUME NEW t \in EThread, DecideAgain(t)
      PROVE  CleanMeansSaved' /\ ReadIsSaved' /\ CopiesAgree'
  BY <1>3, DecideAgainStarts, StartedStep DEF DecideAgain
<1>4. ASSUME NEW t \in EThread, NEW lost \in SUBSET Replaceable, FinishBlockMake(t, lost)
      PROVE  CleanMeansSaved' /\ ReadIsSaved' /\ CopiesAgree'
  <2>1. ASSUME NEW q \in Pos \ rushed
        PROVE  /\ memory'[q] = None <=> memory[q] = None
               /\ Current(q)'.edits \ Lost = Current(q).edits \ Lost
               /\ memory'[q] # None => memory'[q].modified \/ memory'[q] = memory[q]
    BY <1>4, FinishKeeps, BlitKeepsEdits DEF InMemory
  <2>2. UNCHANGED <<disk, rushed, raced, Lost>> /\ Finish(t)
    BY <1>4 DEF FinishBlockMake, history, Lost
  <2>3. CleanMeansSaved'
    BY <2>1, <2>2 DEF CleanMeansSaved, InMemory, Content
  <2>4. ReadIsSaved'
    <3>1. \A u \in EThread : pc'[u] = "read" =>
            pc[u] = "read" /\ databuf'[u] = databuf[u] /\ pos'[u] = pos[u] /\ pos[u] \in Pos
      BY <2>2 DEF Finish, Goto, TypeOK
    <3> QED
      BY <2>1, <2>2, <3>1 DEF ReadIsSaved, InMemory
  <2>5. CopiesAgree'
    <3>1. \A u \in EThread, q \in Pos : vmanip'[u][q] # None => vmanip'[u][q] = vmanip[u][q]
      BY <2>2 DEF Finish, TypeOK, NoCopies
    <3> QED
      BY <2>1, <2>2, <3>1 DEF CopiesAgree
  <2> QED
    BY <2>3, <2>4, <2>5
<1>5. ASSUME NEW t \in EThread, OnGeneratedError(t)
      PROVE  CleanMeansSaved' /\ ReadIsSaved' /\ CopiesAgree'
  <2>1. \A u \in EThread : pc'[u] = "read" =>
            pc[u] = "read" /\ databuf'[u] = databuf[u] /\ pos'[u] = pos[u]
    BY <1>5 DEF OnGeneratedError, Finish, Goto, TypeOK
  <2>2. \A u \in EThread, q \in Pos : vmanip'[u][q] # None => vmanip'[u][q] = vmanip[u][q]
    BY <1>5 DEF OnGeneratedError, Finish, TypeOK, NoCopies
  <2>3. UNCHANGED <<memory, disk, rushed, Lost>>
    BY <1>5 DEF OnGeneratedError, history, Lost
  <2>4. \A q : Current(q)' = Current(q) /\ Content(memory[q])' = Content(memory[q])
    BY <2>3 DEF Current, InMemory, Content, Blank
  <2>5. CleanMeansSaved'
    BY <2>3, <2>4 DEF CleanMeansSaved, InMemory
  <2>6. ReadIsSaved'
    BY <2>1, <2>3 DEF ReadIsSaved, InMemory
  <2>7. CopiesAgree'
    BY <2>2, <2>3, <2>4 DEF CopiesAgree
  <2> QED
    BY <2>5, <2>6, <2>7
<1>6. ASSUME NEW e \in Edit, SetNode(e)
      PROVE  CleanMeansSaved' /\ ReadIsSaved' /\ CopiesAgree'
  <2>1. UNCHANGED <<disk, threadVars, rushed>>
    BY <1>6 DEF SetNode
  <2>2. \A q \in Pos : /\ memory'[q] = None <=> memory[q] = None
                       /\ memory'[q] = memory[q] \/ memory'[q].modified
    BY <1>6, SetNodeAdds
  <2>3. CleanMeansSaved'
    BY <2>1, <2>2 DEF CleanMeansSaved, InMemory, Content
  <2>4. ReadIsSaved'
    BY <2>1, <2>2 DEF ReadIsSaved, InMemory, threadVars, TypeOK
  <2> QED
    BY <1>6, <2>3, <2>4, EditKeepsAgreement
<1>7. ASSUME NEW p \in Pos, EmergeBlock(p)
      PROVE  CleanMeansSaved' /\ ReadIsSaved' /\ CopiesAgree'
  <2>1. LoadedFrom(memory') /\ UNCHANGED <<disk, threadVars, rushed, Lost>>
    <3>1. Emerged(memory, p) \in MapBlock
      BY EmergedType DEF LoadedFrom, TypeOK
    <3> QED
      BY <1>7, <3>1 DEF EmergeBlock, LoadedFrom, TypeOK, history, Lost
  <2>2. ASSUME NEW q \in Pos \ rushed
        PROVE  /\ Current(q)' = Current(q)
               /\ memory[q] # None => memory'[q] = memory[q]
               /\ memory[q] = None /\ memory'[q] # None => memory'[q] = Emerged(memory, q)
    BY <2>1, StartedSame
  <2>3. CleanMeansSaved'
    <3> SUFFICES ASSUME NEW q \in Pos \ rushed, memory'[q] # None, ~memory'[q].modified
                 PROVE  disk[q] = Content(memory'[q])
      BY <2>1 DEF CleanMeansSaved, InMemory, Content
    <3>1. CASE memory[q] # None
      BY <2>2, <3>1 DEF CleanMeansSaved, InMemory
    <3>2. CASE memory[q] = None
      <4>1. memory'[q] = Emerged(memory, q)
        BY <2>2, <3>2
      <4>2. disk[q] # None
        BY <3>2, <4>1 DEF Emerged, Blank
      <4>3. memory'[q] = Clean(disk[q]) /\ disk[q] \in Saved
        BY <3>2, <4>1, <4>2 DEF Emerged, TypeOK
      <4> QED
        BY <4>3 DEF Clean, Content, Saved
    <3> QED
      BY <3>1, <3>2
  <2>4. ReadIsSaved'
    BY <2>1, <2>2 DEF ReadIsSaved, InMemory, threadVars, TypeOK
  <2>5. CopiesAgree'
    BY <2>1, <2>2 DEF CopiesAgree, threadVars
  <2> QED
    BY <2>3, <2>4, <2>5
<1>8. ASSUME NEW p \in Pos, SaveBlock(p)
      PROVE  CleanMeansSaved' /\ ReadIsSaved' /\ CopiesAgree'
  <2>1. UNCHANGED <<threadVars, rushed, Lost>>
    BY <1>8 DEF SaveBlock, history, Lost
  <2>2. ASSUME NEW q \in Pos
        PROVE  /\ Current(q)' = Current(q)
               /\ memory'[q] = None <=> memory[q] = None
               /\ q = p => memory[q] # None /\ disk'[q] = Content(memory'[q])
               /\ q # p => memory'[q] = memory[q] /\ disk'[q] = disk[q]
    BY <1>8, SaveSame
  <2>3. CleanMeansSaved'
    BY <2>1, <2>2 DEF CleanMeansSaved, InMemory, Content
  <2>4. ReadIsSaved'
    BY <2>1, <2>2 DEF ReadIsSaved, InMemory, threadVars, TypeOK
  <2>5. CopiesAgree'
    BY <2>1, <2>2 DEF CopiesAgree, threadVars
  <2> QED
    BY <2>3, <2>4, <2>5
<1>9. ASSUME NEW p \in Pos, UnloadBlock(p)
      PROVE  CleanMeansSaved' /\ ReadIsSaved' /\ CopiesAgree'
  <2>1. /\ UNCHANGED <<threadVars, Lost>> /\ rushed \subseteq rushed'
        /\ p \notin rushed' => ~Outdates(p)
    BY <1>9 DEF UnloadBlock, Lost
  <2>2. ASSUME NEW q \in Pos \ rushed'
        PROVE  /\ Current(q)' = Current(q)
               /\ q = p => memory'[q] = None /\ disk'[q] = SavedOf(q)
               /\ q # p => memory'[q] = memory[q] /\ disk'[q] = disk[q]
    BY <1>9, <2>1, UnloadSame
  <2>3. CleanMeansSaved'
    BY <2>1, <2>2 DEF CleanMeansSaved, InMemory, Content
  <2>4. ReadIsSaved'
    <3> SUFFICES ASSUME NEW u \in EThread, pc[u] = "read", memory'[pos[u]] = None,
                        pos[u] \in Pos \ rushed'
                 PROVE  databuf[u] \in {None, disk'[pos[u]]}
      BY <2>1 DEF ReadIsSaved, InMemory, threadVars, TypeOK
    <3>1. CASE pos[u] = p
      BY <3>1, <2>1, <2>2 DEF Outdates
    <3>2. CASE pos[u] # p
      BY <3>2, <2>1, <2>2 DEF ReadIsSaved, InMemory
    <3> QED
      BY <3>1, <3>2
  <2>5. CopiesAgree'
    BY <2>1, <2>2 DEF CopiesAgree, threadVars
  <2> QED
    BY <2>3, <2>4, <2>5
<1>10. CASE UNCHANGED vars
  BY <1>0, <1>10 DEF vars, threadVars
<1> QED
  BY <1>1, <1>2, <1>3, <1>4, <1>5, <1>6, <1>7, <1>8, <1>9, <1>10 DEF Next, ThreadStep

-----------------------------------------------------------------------------
(* What holds of a block at all times: types, the agreement of what has    *)
(* been read or copied with what is saved or in memory, and that a clean   *)
(* block is saved.                                                         *)
THEOREM Invariance == Spec => []IInv
BY InvInit, InvStep, PTL DEF Spec

(* The state keeps its types; in particular nothing that was read, and no  *)
(* copy, outlives the work it was made for.                                *)
THEOREM TypeCorrect == Spec => []TypeOK
<1>1. IInv => TypeOK
  BY DEF IInv
<1> QED
  BY <1>1, Invariance, PTL

(* A block that counts as saved is in the database as it is in memory, and *)
(* unloading it loses nothing, unless it was unloaded before while a       *)
(* thread had the database's older answer in its hands (timerUpdate).      *)
THEOREM CleanMeansSavedHolds == Spec => []CleanMeansSaved
<1>1. IInv => CleanMeansSaved
  BY DEF IInv
<1> QED
  BY <1>1, Invariance, PTL

-----------------------------------------------------------------------------
(* What a step does to a block, seen by whoever asks for it: it stays      *)
(* generated, and of its edits only those are lost that a thread with a    *)
(* copy of the block did not know of, or has written over.                 *)
Overwritten(p) == IF Copied(p) THEN Replaceable ELSE {}
Kept(p) ==
    /\ Current(p).generated => Current(p)'.generated
    /\ Current(p).edits \ (raced \cup Overwritten(p)) \subseteq Current(p)'.edits

LEMMA SameIsKept ==
    ASSUME NEW p \in Pos, Current(p)' = Current(p)
    PROVE  Kept(p)
BY DEF Kept

LEMMA EveryStepKeeps ==
    ASSUME IInv, [Next]_vars, NEW p \in Pos \ rushed
    PROVE  Kept(p)
<1> USE DEF IInv
<1>0. ASSUME UNCHANGED <<memory, disk>>
      PROVE  Kept(p)
  <2>1. Current(p)' = Current(p)
    BY <1>0 DEF Current, InMemory, Content, Blank
  <2> QED
    BY <2>1, SameIsKept
<1>s. ASSUME LoadedFrom(memory'), disk' = disk
      PROVE  Kept(p)
  BY <1>s, StartedSame, SameIsKept
<1>1. ASSUME NEW t \in EThread, NEW q \in Pos, NEW gen \in BOOLEAN, GetBlock(t, q, gen)
      PROVE  Kept(p)
  <2>1. disk' = disk
    BY <1>1 DEF GetBlock
  <2> QED
    BY <1>0, <1>s, <1>1, <2>1, GetBlockStarts DEF Started
<1>2. ASSUME NEW t \in EThread, ReadDatabase(t)
      PROVE  Kept(p)
  BY <1>0, <1>2 DEF ReadDatabase
<1>3. ASSUME NEW t \in EThread, DecideAgain(t)
      PROVE  Kept(p)
  BY <1>3, <1>s, DecideAgainStarts DEF DecideAgain, Started
<1>4. ASSUME NEW t \in EThread, NEW lost \in SUBSET Replaceable, FinishBlockMake(t, lost)
      PROVE  Kept(p)
  <2>1. /\ Current(p)'.edits \ Lost = Current(p).edits \ Lost
        /\ Current(p).generated => Current(p)'.generated
        /\ Copied(p) \/ Current(p)' = Current(p)
    BY <1>4, FinishKeeps
  <2>2. CASE Copied(p)
    BY <2>1, <2>2 DEF Kept, Overwritten, Lost
  <2> QED
    BY <2>1, <2>2, SameIsKept
<1>5. ASSUME NEW t \in EThread, OnGeneratedError(t)
      PROVE  Kept(p)
  BY <1>0, <1>5 DEF OnGeneratedError
<1>6. ASSUME NEW e \in Edit, SetNode(e)
      PROVE  Kept(p)
  <2>1. /\ Current(p)'.generated = Current(p).generated
        /\ Current(p)'.edits = Current(p).edits \cup {x \in {e} : block_of[x] = p}
    BY <1>6, SetNodeAdds
  <2> QED
    BY <2>1 DEF Kept
<1>7. ASSUME NEW q \in Pos, EmergeBlock(q)
      PROVE  Kept(p)
  <2>1. Emerged(memory, q) \in MapBlock
    BY EmergedType DEF LoadedFrom, TypeOK
  <2>2. LoadedFrom(memory') /\ disk' = disk
    BY <1>7, <2>1 DEF EmergeBlock, LoadedFrom, TypeOK
  <2> QED
    BY <1>s, <2>2
<1>8. ASSUME NEW q \in Pos, SaveBlock(q)
      PROVE  Kept(p)
  BY <1>8, SaveSame, SameIsKept
<1>9. ASSUME NEW q \in Pos, UnloadBlock(q)
      PROVE  Kept(p)
  BY <1>9, UnloadSame, SameIsKept
<1>10. CASE UNCHANGED vars
  BY <1>0, <1>10 DEF vars
<1> QED
  BY <1>1, <1>2, <1>3, <1>4, <1>5, <1>6, <1>7, <1>8, <1>9, <1>10 DEF Next, ThreadStep

(* A block that has been generated stays generated, whenever it is loaded, *)
(* finished, saved and unloaded by whichever threads; left out are only    *)
(* the blocks unloaded in the time between a read and its use.             *)
THEOREM GeneratedForGoodHolds == Spec => GeneratedForGood
<1>1. IInv /\ [Next]_vars =>
        [\A p \in Pos \ rushed : Current(p).generated => Current(p)'.generated]_vars
  BY EveryStepKeeps DEF Kept
<1> QED
  BY <1>1, Invariance, PTL DEF Spec, GeneratedForGood

(* No edit is undone but those that raced with a generator or that it may  *)
(* write over where it has a copy, in all but the blocks unloaded between  *)
(* a read and its use.                                                     *)
THEOREM EditsKeptHolds == Spec => EditsKept
<1>1. IInv /\ [Next]_vars =>
        [\A p \in Pos \ rushed :
            LET overwritten == IF Copied(p) THEN Replaceable ELSE {}
            IN  Current(p).edits \ (raced \cup overwritten) \subseteq Current(p)'.edits]_vars
  BY EveryStepKeeps DEF Kept, Overwritten
<1> QED
  BY <1>1, Invariance, PTL DEF Spec, EditsKept

-----------------------------------------------------------------------------
(* What OneMakerPerChunk needs: it does not depend on when blocks are      *)
(* unloaded.                                                               *)
ThreadsTyped ==
    /\ pc \in [EThread -> {"idle", "reading", "read", "making"}]
    /\ pos \in [EThread -> Pos]

MakerInv == ThreadsTyped /\ OneMakerPerChunk

(* A step of t that does not start or end a generation.                    *)
LEMMA OthersStep ==
    ASSUME MakerInv, NEW t \in EThread, NEW step \in {"idle", "reading", "read"},
           NEW p \in Pos, NEW gen, Goto(t, step, p, gen),
           \A u \in EThread \ {t} : pc[u] = "making" =>
                chunk_of[pos[u]] \in m_chunks_in_progress'
    PROVE  MakerInv'
<1>1. /\ pc' \in [EThread -> {"idle", "reading", "read", "making"}]
      /\ pc'[t] # "making"
      /\ pos' \in [EThread -> Pos]
      /\ \A u \in EThread \ {t} : pc'[u] = pc[u] /\ pos'[u] = pos[u]
  BY DEF MakerInv, ThreadsTyped, Goto
<1>2. \A u \in EThread : pc'[u] = "making" => u # t /\ pc[u] = "making"
  BY <1>1
<1>3. OneMakerPerChunk'
  BY <1>1, <1>2 DEF MakerInv, OneMakerPerChunk
<1> QED
  BY <1>1, <1>3 DEF MakerInv, ThreadsTyped

(* A thread that starts to generate marks its chunk, which no thread had.  *)
LEMMA StartGenMarks ==
    ASSUME MakerInv, NEW t \in EThread, NEW p \in Pos, NEW gen, NEW mem, pc[t] # "making",
           StartGen(t, p, gen, mem)
    PROVE  MakerInv'
<1> DEFINE c == chunk_of[p]
<1>1. \A u \in EThread : pc[u] = "making" =>
        u # t /\ chunk_of[pos[u]] \in m_chunks_in_progress
  BY DEF MakerInv, OneMakerPerChunk
<1>2. m_chunks_in_progress \subseteq m_chunks_in_progress'
  BY DEF StartGen, InitBlockMake
<1>3. CASE Finish(t)
  BY <1>1, <1>2, <1>3, OthersStep, PosAssumption DEF Finish, NoPos
<1>4. CASE ~NotMade(c) /\ Goto(t, "making", p, TRUE)
           /\ m_chunks_in_progress' = m_chunks_in_progress \cup {c}
  <2>1. /\ pc' \in [EThread -> {"idle", "reading", "read", "making"}]
        /\ pos' \in [EThread -> Pos] /\ pos'[t] = p
        /\ \A u \in EThread \ {t} : pc'[u] = pc[u] /\ pos'[u] = pos[u]
    BY <1>4 DEF MakerInv, ThreadsTyped, Goto
  <2>2. c \notin m_chunks_in_progress
    BY <1>4 DEF NotMade
  <2>3. \A u \in EThread \ {t} : pc'[u] = "making" =>
            chunk_of[pos'[u]] \in m_chunks_in_progress /\ chunk_of[pos'[u]] # c
    BY <1>1, <2>1, <2>2
  <2>4. ASSUME NEW u \in EThread, pc'[u] = "making"
        PROVE  /\ chunk_of[pos'[u]] \in m_chunks_in_progress'
               /\ \A v \in EThread \ {u} :
                    pc'[v] = "making" => chunk_of[pos'[v]] # chunk_of[pos'[u]]
    <3>1. CASE u = t
      BY <1>4, <2>1, <2>3, <3>1
    <3>2. CASE u # t
      BY <1>2, <2>1, <2>3, <2>4, <3>2 DEF MakerInv, OneMakerPerChunk
    <3> QED
      BY <3>1, <3>2
  <2> QED
    BY <2>1, <2>4 DEF MakerInv, ThreadsTyped, OneMakerPerChunk
<1> QED
  BY <1>3, <1>4 DEF StartGen, InitBlockMake

LEMMA MakerStep == MakerInv /\ [Next]_vars => MakerInv'
<1> SUFFICES ASSUME MakerInv, [Next]_vars
             PROVE  MakerInv'
  OBVIOUS
<1>0. NoPos \in Pos
  BY PosAssumption DEF NoPos
<1>6. CASE UNCHANGED <<pc, pos, m_chunks_in_progress>>
  BY <1>6 DEF MakerInv, ThreadsTyped, OneMakerPerChunk
<1>1. ASSUME NEW t \in EThread, NEW p \in Pos, NEW gen \in BOOLEAN, GetBlock(t, p, gen)
      PROVE  MakerInv'
  <2>1. pc[t] = "idle"
    BY <1>1 DEF GetBlock
  <2>2. CASE StartGen(t, p, gen, memory)
    BY <2>1, <2>2, StartGenMarks
  <2>3. CASE Goto(t, "reading", p, gen) /\ UNCHANGED m_chunks_in_progress
    BY <2>1, <2>3, OthersStep DEF MakerInv, OneMakerPerChunk
  <2> QED
    BY <1>1, <1>6, <2>2, <2>3 DEF GetBlock, threadVars
<1>2. ASSUME NEW t \in EThread, ReadDatabase(t)
      PROVE  MakerInv'
  BY <1>2, OthersStep DEF ReadDatabase, MakerInv, ThreadsTyped, OneMakerPerChunk
<1>3. ASSUME NEW t \in EThread, DecideAgain(t)
      PROVE  MakerInv'
  <2>1. pc[t] = "read" /\ pos[t] \in Pos
    BY <1>3 DEF DecideAgain, MakerInv, ThreadsTyped
  <2>2. CASE Finish(t) /\ UNCHANGED m_chunks_in_progress
    BY <1>0, <2>1, <2>2, OthersStep DEF Finish, MakerInv, OneMakerPerChunk
  <2>3. ASSUME NEW mem, StartGen(t, pos[t], allow_gen[t], mem)
        PROVE  MakerInv'
    BY <2>1, <2>3, StartGenMarks
  <2> QED
    BY <1>3, <2>2, <2>3 DEF DecideAgain
<1>4. ASSUME NEW t \in EThread, NEW lost \in SUBSET Replaceable, FinishBlockMake(t, lost)
      PROVE  MakerInv'
  <2>1. /\ pc[t] = "making" /\ Goto(t, "idle", NoPos, FALSE)
        /\ m_chunks_in_progress' = m_chunks_in_progress \ {chunk_of[pos[t]]}
    BY <1>4 DEF FinishBlockMake, Finish
  <2>2. \A u \in EThread \ {t} : pc[u] = "making" =>
            chunk_of[pos[u]] \in m_chunks_in_progress'
    BY <2>1 DEF MakerInv, OneMakerPerChunk
  <2> QED
    BY <1>0, <2>1, <2>2, OthersStep
<1>5. ASSUME NEW t \in EThread, OnGeneratedError(t)
      PROVE  MakerInv'
  BY <1>0, <1>5, OthersStep DEF OnGeneratedError, Finish, MakerInv, OneMakerPerChunk
<1>7. ASSUME NEW p \in Pos, EmergeBlock(p) \/ SaveBlock(p) \/ UnloadBlock(p)
      PROVE  MakerInv'
  BY <1>6, <1>7 DEF EmergeBlock, SaveBlock, UnloadBlock, threadVars
<1>8. ASSUME NEW e \in Edit, SetNode(e)
      PROVE  MakerInv'
  BY <1>6, <1>8 DEF SetNode, threadVars
<1> QED
  BY <1>1, <1>2, <1>3, <1>4, <1>5, <1>6, <1>7, <1>8 DEF Next, ThreadStep, vars, threadVars

(* No two threads generate the same chunk at the same time, for any number *)
(* of threads and whatever the server unloads meanwhile.                   *)
THEOREM OneMakerPerChunkHolds == Spec => []OneMakerPerChunk
<1>0. NoPos \in Pos
  BY PosAssumption DEF NoPos
<1>1. Init => MakerInv
  BY <1>0 DEF Init, MakerInv, ThreadsTyped, OneMakerPerChunk
<1>2. MakerInv => OneMakerPerChunk
  BY DEF MakerInv
<1> QED
  BY <1>1, <1>2, MakerStep, PTL DEF Spec
=============================================================================
