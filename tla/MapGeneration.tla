---------------------------- MODULE MapGeneration ----------------------------
(***************************************************************************)
(* Loading and generating the blocks of the map (src/src/emerge.cpp,       *)
(* servermap.cpp, map.cpp).                                                *)
(*                                                                         *)
(* An emerge thread looks for a block in memory, reads it from the         *)
(* database, or generates the chunk that contains it.  It holds the        *)
(* environment mutex only for parts of that work: the database is read,    *)
(* and the generator runs on a copy of the chunk and its border (vmanip),  *)
(* while the server changes, saves and unloads blocks, and while other     *)
(* emerge threads do the same.  A step is one section under the            *)
(* environment mutex, or under the database mutex.                         *)
(*                                                                         *)
(* Of the nodes of a block only those are kept that a player or mod has    *)
(* changed since it was generated: each change is an Edit of one node.     *)
(***************************************************************************)
EXTENDS Naturals, FiniteSets

CONSTANTS
    EThread,        \* emerge threads
    Pos,            \* block positions
    Chunk,
    chunk_of,       \* getContainingChunk of each position
    full_area,      \* of each chunk: its positions and those bordering it
    OverLimit,      \* chunks too near to mapgen_limit to be generated
    Edit,           \* changes to single nodes, each made at most once
    block_of,       \* the block of the node of each edit
    Replaceable,    \* those whose node a generator may write over: ground
                    \* content is carved, air is built and grown into
    None

ASSUME PosAssumption == Pos # {}
ASSUME ChunksAssumption ==
    /\ chunk_of \in [Pos -> Chunk]
    /\ full_area \in [Chunk -> SUBSET Pos]
    /\ \A p \in Pos : p \in full_area[chunk_of[p]]
    /\ OverLimit \subseteq Chunk
    /\ block_of \in [Edit -> Pos]
    /\ Replaceable \subseteq Edit

VARIABLES
    memory,                 \* MapBlocks: [generated, edits, modified], or None
    disk,                   \* saved blocks: [generated, edits], or None
    m_chunks_in_progress,
    pc,                     \* where a thread is
    pos,                    \* the block it is to emerge
    allow_gen,              \* may it generate?
    databuf,                \* what it has read from the database
    vmanip,                 \* of each thread: the copies it generates on
    made,                   \* edits made so far
    raced,                  \* history: those made while a thread had a copy
    rushed                  \* history: blocks unloaded while a thread still had
                            \* something older that it had read of them

threadVars == <<pc, pos, allow_gen, databuf, vmanip>>
history == <<made, raced, rushed>>
vars == <<memory, disk, m_chunks_in_progress, threadVars, history>>

Saved == [generated : BOOLEAN, edits : SUBSET Edit]
MapBlock == [generated : BOOLEAN, edits : SUBSET Edit, modified : BOOLEAN]
NoCopies == [p \in Pos |-> None]
NoPos == CHOOSE p \in Pos : TRUE    \* that of a thread between two blocks

ASSUME NoneAssumption == None \notin MapBlock \cup Saved

TypeOK ==
    /\ memory \in [Pos -> MapBlock \cup {None}]
    /\ disk \in [Pos -> Saved \cup {None}]
    /\ m_chunks_in_progress \subseteq Chunk
    /\ pc \in [EThread -> {"idle", "reading", "read", "making"}]
    /\ pos \in [EThread -> Pos]
    /\ allow_gen \in [EThread -> BOOLEAN]
    /\ databuf \in [EThread -> Saved \cup {None}]
    /\ vmanip \in [EThread -> [Pos -> Saved \cup {None}]]
    /\ made \subseteq Edit /\ raced \subseteq made /\ rushed \subseteq Pos
    /\ \A t \in EThread : /\ pc[t] # "read" => databuf[t] = None
                          /\ pc[t] # "making" => vmanip[t] = NoCopies

Init ==
    /\ memory = [p \in Pos |-> None]
    /\ disk = [p \in Pos |-> None]
    /\ m_chunks_in_progress = {}
    /\ pc = [t \in EThread |-> "idle"]
    /\ pos = [t \in EThread |-> NoPos]
    /\ allow_gen = [t \in EThread |-> FALSE]
    /\ databuf = [t \in EThread |-> None]
    /\ vmanip = [t \in EThread |-> NoCopies]
    /\ made = {} /\ raced = {} /\ rushed = {}

-----------------------------------------------------------------------------
Content(b) == [generated |-> b.generated, edits |-> b.edits]
Clean(s) == [generated |-> s.generated, edits |-> s.edits, modified |-> FALSE]
(* A new MapBlock (reallocate) *)
Blank == [generated |-> FALSE, edits |-> {}, modified |-> TRUE]

InMemory(p) == memory[p] # None
OkInMemory(p) == InMemory(p) /\ memory[p].generated

(* Thread t goes on to another step, with position p at hand. *)
Goto(t, step, p, gen) ==
    /\ pc' = [pc EXCEPT ![t] = step]
    /\ pos' = [pos EXCEPT ![t] = p]
    /\ allow_gen' = [allow_gen EXCEPT ![t] = gen]

(* The thread is done with its block, and forgets all about it. *)
FinishNotCleared(t) ==    \* mutant: databuf.clear() is missing
    /\ Goto(t, "idle", NoPos, FALSE)
    /\ vmanip' = [vmanip EXCEPT ![t] = NoCopies]
    /\ UNCHANGED databuf
Finish(t) ==
    /\ Goto(t, "idle", NoPos, FALSE)
    /\ databuf' = [databuf EXCEPT ![t] = None]
    /\ vmanip' = [vmanip EXCEPT ![t] = NoCopies]

(* Is chunk c not to be generated (now)? *)
NotMadeOverLimit(c) == c \in OverLimit    \* mutant: m_chunks_in_progress is not looked at
NotMade(c) == c \in m_chunks_in_progress \/ c \in OverLimit

(* emergeBlock, when the blocks in memory are those of mem: a block that   *)
(* is not there is loaded or created blank.                                *)
Emerged(mem, p) ==
    CASE mem[p] # None -> mem[p]
      [] mem[p] = None /\ disk[p] # None -> Clean(disk[p])
      [] mem[p] = None /\ disk[p] = None -> Blank

(* initBlockMake: every block of the area is emerged and copied.  A chunk  *)
(* over the limit is refused only after it has been marked as in progress. *)
InitBlockMake(t, p, mem) ==
    LET c == chunk_of[p]
        full == [q \in Pos |-> IF q \in full_area[c] THEN Emerged(mem, q) ELSE mem[q]]
    IN  /\ m_chunks_in_progress' = m_chunks_in_progress \cup {c}
        /\ IF NotMade(c)
           THEN memory' = mem /\ Finish(t)
           ELSE /\ memory' = full
                /\ vmanip' = [vmanip EXCEPT ![t] =
                        [q \in Pos |-> IF q \in full_area[c] THEN Content(full[q]) ELSE None]]
                /\ Goto(t, "making", p, TRUE)
                /\ databuf' = [databuf EXCEPT ![t] = None]

(* The block is there, but not generated: generate it if allowed. *)
StartGen(t, p, gen, mem) ==
    IF gen THEN InitBlockMake(t, p, mem)
    ELSE memory' = mem /\ Finish(t) /\ UNCHANGED m_chunks_in_progress

(* getBlockOrStartGen, first invocation *)
GetBlock(t, p, gen) ==
    /\ pc[t] = "idle"
    /\ \/ OkInMemory(p) /\ UNCHANGED <<memory, m_chunks_in_progress, threadVars>>
       \/ InMemory(p) /\ ~OkInMemory(p) /\ StartGen(t, p, gen, memory)
       \/ /\ ~InMemory(p)
          /\ Goto(t, "reading", p, gen)
          /\ UNCHANGED <<memory, m_chunks_in_progress, databuf, vmanip>>
    /\ UNCHANGED <<disk, history>>

(* m_db.loadBlock, under the database mutex only *)
ReadDatabase(t) ==
    /\ pc[t] = "reading"
    /\ databuf' = [databuf EXCEPT ![t] = disk[pos[t]]]
    /\ Goto(t, "read", pos[t], allow_gen[t])
    /\ UNCHANGED <<memory, disk, m_chunks_in_progress, vmanip, history>>

(* Is what was read from the database put into memory? *)
LoadsAnyway(t) == databuf[t] # None    \* mutant: memory is not looked at again
Loads(t) == ~InMemory(pos[t]) /\ databuf[t] # None

(* getBlockOrStartGen, second invocation, with what the database had       *)
DecideAgain(t) ==
    LET p == pos[t]
        mem == IF Loads(t) THEN [memory EXCEPT ![p] = Clean(databuf[t])] ELSE memory
    IN  /\ pc[t] = "read"
        /\ IF mem[p] # None /\ mem[p].generated
           THEN memory' = mem /\ Finish(t) /\ UNCHANGED m_chunks_in_progress
           ELSE StartGen(t, p, allow_gen[t], mem)
        /\ UNCHANGED <<disk, history>>

(* Block q after the copy of it is written back (blitBackAll) by thread t, *)
(* which in generating has written over the edits in `lost': in the chunk, *)
(* and in its border, where caves and dungeons go on and trees spread.     *)
(* A copy of a block that was not generated holds no node (CONTENT_IGNORE) *)
(* where the generator did not put one, and writes none there.             *)
BlitUnmarked(t, q, lost) ==    \* mutant: raiseModified is missing
    [memory[q] EXCEPT !.generated = @ \/ chunk_of[q] = chunk_of[pos[t]],
                      !.edits = IF vmanip[t][q].generated
                                THEN vmanip[t][q].edits \ lost ELSE @]
Blit(t, q, lost) ==
    [generated |-> memory[q].generated \/ chunk_of[q] = chunk_of[pos[t]],
     edits |-> IF vmanip[t][q].generated THEN vmanip[t][q].edits \ lost ELSE memory[q].edits,
     modified |-> TRUE]

(* finishBlockMake: all copies of blocks that are in memory (still, or     *)
(* again) are written back; those of the chunk itself are generated now.   *)
FinishBlockMake(t, lost) ==
    /\ pc[t] = "making"
    /\ memory' = [q \in Pos |-> IF vmanip[t][q] # None /\ InMemory(q)
                                THEN Blit(t, q, lost) ELSE memory[q]]
    /\ m_chunks_in_progress' = m_chunks_in_progress \ {chunk_of[pos[t]]}
    /\ Finish(t)
    /\ UNCHANGED <<disk, history>>

(* on_generated of the mapgen environment fails: the work is thrown away.  *)
OnGeneratedError(t) ==
    /\ pc[t] = "making"
    /\ Finish(t)
    /\ UNCHANGED <<memory, disk, m_chunks_in_progress, history>>

-----------------------------------------------------------------------------
(* The server, under the environment mutex *)

Copied(p) == \E t \in EThread : pc[t] = "making" /\ vmanip[t][p] # None

(* A player or a mod changes a node of a generated block. *)
SetNode(e) ==
    LET p == block_of[e]
    IN  /\ e \notin made
        /\ OkInMemory(p)
        /\ made' = made \cup {e}
        /\ raced' = raced \cup {x \in {e} : Copied(p)}
        /\ memory' = [memory EXCEPT ![p].edits = @ \cup {e}, ![p].modified = TRUE]
        /\ UNCHANGED <<disk, m_chunks_in_progress, threadVars, rushed>>

(* emergeBlock, as core.load_area uses it *)
EmergeBlock(p) ==
    /\ ~InMemory(p)
    /\ memory' = [memory EXCEPT ![p] = Emerged(memory, p)]
    /\ UNCHANGED <<disk, m_chunks_in_progress, threadVars, history>>

(* ServerMap::save *)
SaveBlock(p) ==
    /\ InMemory(p) /\ memory[p].modified
    /\ disk' = [disk EXCEPT ![p] = Content(memory[p])]
    /\ memory' = [memory EXCEPT ![p].modified = FALSE]
    /\ UNCHANGED <<m_chunks_in_progress, threadVars, history>>

(* What of block p there is to save. *)
SavedNothing(p) == disk[p]    \* mutant: nothing is saved before unloading
SavedOf(p) == IF memory[p].modified THEN Content(memory[p]) ELSE disk[p]

(* Some thread has read block p from the database, and not what is in the  *)
(* database once p is unloaded now.                                        *)
Outdates(p) ==
    \E t \in EThread : pc[t] = "read" /\ pos[t] = p /\ databuf[t] \notin {None, SavedOf(p)}

(* timerUpdate unloads a block, and saves it before if it was modified.    *)
(* No emerge thread holds a reference that would keep it in memory.        *)
UnloadBlock(p) ==
    /\ InMemory(p)
    /\ disk' = [disk EXCEPT ![p] = SavedOf(p)]
    /\ memory' = [memory EXCEPT ![p] = None]
    /\ rushed' = rushed \cup {q \in {p} : Outdates(q)}
    /\ UNCHANGED <<m_chunks_in_progress, threadVars, made, raced>>

-----------------------------------------------------------------------------
ThreadStep(t) ==
    \/ \E p \in Pos, gen \in BOOLEAN : GetBlock(t, p, gen)
    \/ ReadDatabase(t) \/ DecideAgain(t)
    \/ \E lost \in SUBSET Replaceable : FinishBlockMake(t, lost)
    \/ OnGeneratedError(t)

Next ==
    \/ \E t \in EThread : ThreadStep(t)
    \/ \E e \in Edit : SetNode(e)
    \/ \E p \in Pos : EmergeBlock(p) \/ SaveBlock(p) \/ UnloadBlock(p)

Spec == Init /\ [][Next]_vars

-----------------------------------------------------------------------------
(* The block as anyone who asks for it would get it. *)
Current(p) ==
    CASE InMemory(p) -> Content(memory[p])
      [] ~InMemory(p) /\ disk[p] # None -> disk[p]
      [] ~InMemory(p) /\ disk[p] = None -> Content(Blank)

(* No two threads generate the same chunk at the same time, although they  *)
(* leave the environment mutex between marking it and finishing it.        *)
OneMakerPerChunk ==
    \A t \in EThread : pc[t] = "making" =>
        /\ chunk_of[pos[t]] \in m_chunks_in_progress
        /\ \A u \in EThread \ {t} :
              pc[u] = "making" => chunk_of[pos[u]] # chunk_of[pos[t]]

(* A block that counts as saved can be unloaded without loss: the database *)
(* has the same ("We just loaded it, so it's up-to-date", loadBlock).  The *)
(* exception is a block unloaded in the time between the database's answer *)
(* and its use: what is then loaded is older than what was saved.          *)
CleanMeansSaved ==
    \A p \in Pos \ rushed : InMemory(p) /\ ~memory[p].modified =>
        disk[p] = Content(memory[p])

(* Whatever is read, generated, saved and unloaded meanwhile, a block that *)
(* has been generated stays so, with the same exception,                   *)
GeneratedForGood ==
    [][\A p \in Pos \ rushed : Current(p).generated => Current(p)'.generated]_vars

(* and what a player has changed in it is not undone ("don't touch it to   *)
(* prevent data loss", getBlockOrStartGen), unless it was changed while    *)
(* a generator had a copy of it; a generator that has one may also replace *)
(* what it may write over ("is_ground_content", doc/lua_api.md).           *)
EditsKept ==
    [][\A p \in Pos \ rushed :
          LET overwritten == IF Copied(p) THEN Replaceable ELSE {}
          IN  Current(p).edits \ (raced \cup overwritten) \subseteq Current(p)'.edits]_vars
=============================================================================
