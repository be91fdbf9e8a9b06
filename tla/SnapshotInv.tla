----------------------------- MODULE SnapshotInv ------------------------------
(* The versions that the blocks of the metadata area are signed with: the        *)
(* inductive invariant of Snapshot, and that its steps keep it.  SnapshotProofs  *)
(* has the theorems.                                                             *)
EXTENDS Snapshot, TLAPS

\* A mount refuses the chunk o of table t.
Unreadable(t, o) == blk_ver[t[o].b] # t[o].v \/ blk[t[o].b] = Garbage

\* The version that the block of a clean chunk has been signed with.
Signature(o) == IF pc = "meta" /\ o \in dirty THEN Ver ELSE base_t[o].v

\* The chunks of the last commit are signed as its table says; those that were
\* lost are refused.
CommittedSigned ==
    \A o \in DOMAIN committed.table :
       /\ ~ Newer(committed.table[o].v, committed.ver)
       /\ d_page[o] # Garbage /\ o \notin inplace \ dirty_chunks =>
             blk_ver[committed.table[o].b] = committed.table[o].v
       /\ d_page[o] = Garbage \/ o \in inplace \ dirty_chunks =>
             Unreadable(committed.table, o)

\* The volume is mounted, and no error has made it read-only.
InUse == {"idle", "copy", "meta", "tables", "tail", "head", "fin"}

\* The same of the table in memory; the chunks waiting to be written are the ones
\* counted as dirty, until the commit writes them.
MemorySigned ==
    pc \in InUse =>
       /\ dirty_chunks \subseteq dirty
       /\ pc \in {"idle", "copy", "fin"} => dirty_chunks = dirty
       /\ \A o \in DOMAIN base_t :
             /\ page[o] = Garbage => o \notin dirty /\ Unreadable(base_t, o)
             /\ page[o] # Garbage /\ o \notin dirty_chunks =>
                   blk_ver[base_t[o].b] = Signature(o)

--------------------------------------------------------------------------------
(* What the proofs use of the metadata area (see CowMetaProofs).                *)

\* No two chunks of the last commit share a block, and a chunk changed in place
\* is one of them.
CommittedArea ==
    /\ \A o \in DOMAIN committed.table : committed.table[o].b \in Block
    /\ \A o, p \in DOMAIN committed.table :
          committed.table[o].b = committed.table[p].b => o = p
    /\ \A o \in inplace : o \in DOMAIN committed.table
    /\ Stopped => inplace = {}
    /\ d_page \in [DOMAIN committed.table -> Val \cup {Garbage}]
    /\ blk \in [Block -> Val \cup {Garbage}]
    /\ dirty_chunks \subseteq Object

\* The same of the table in memory; a dirty chunk has a block that the last commit
\* does not use, unless it was left in place.
MemoryArea ==
    ~ Stopped =>
       /\ \A o \in DOMAIN base_t : base_t[o].b \in Block
       /\ \A o, p \in DOMAIN base_t : base_t[o].b = base_t[p].b => o = p
       /\ \A o \in inplace : o \in DOMAIN base_t /\ base_t[o].b = committed.table[o].b
       /\ page \in [DOMAIN base_t -> Val \cup {Garbage}]
       /\ dirty_chunks \subseteq DOMAIN base_t
       /\ CowPc \in {"idle", "write"} =>
             \A o \in dirty_chunks \ inplace : \A p \in DOMAIN committed.table :
                base_t[o].b # committed.table[p].b
       /\ CowPc = "idle" => inplace \subseteq dirty_chunks
       /\ CowPc = "commit" => dirty_chunks = {}

SigInv ==
    /\ CommittedArea
    /\ MemoryArea
    /\ blk_ver \in [Block -> Version]
    /\ CommittedSigned
    /\ MemorySigned

--------------------------------------------------------------------------------
(* Steps that write no chunk.                                                   *)

\* The signatures of the last commit stand while its blocks do.
LEMMA SameCommitted ==
    ASSUME CommittedSigned, UNCHANGED <<committed, d_page, blk, blk_ver>>,
           inplace' \ dirty_chunks' = inplace \ dirty_chunks
    PROVE  CommittedSigned'
BY DEF CommittedSigned, Unreadable

\* So do those of the table in memory; what waits to be written when the commit
\* starts is what is dirty.
LEMMA SameMemory ==
    ASSUME MemorySigned, UNCHANGED <<base_t, page, blk, blk_ver, dirty, dirty_chunks>>,
           pc \in InUse, pc # "meta",
           pc' = "meta" => pc \in {"idle", "copy"},
           pc' \in {"idle", "copy", "fin"} => pc \in {"idle", "copy", "fin"}
    PROVE  MemorySigned'
<1>1. \A o \in DOMAIN base_t \ dirty_chunks :
         Signature(o) = base_t[o].v /\ Signature(o)' = base_t[o].v
  BY DEF MemorySigned, Signature
<1>2. \A o : Unreadable(base_t, o)' <=> Unreadable(base_t, o)
  BY DEF Unreadable
<1> QED
  BY <1>1, <1>2 DEF MemorySigned

\* Nothing is said of the memory of a volume that is not in use.
LEMMA NotInUse ==
    ASSUME pc' \in {"down", "mount", "ro"}
    PROVE  MemorySigned'
BY DEF MemorySigned, InUse

--------------------------------------------------------------------------------
(* Changes in memory.                                                           *)

\* What the phases of a commit are for the metadata area.
LEMMA Phases ==
    /\ pc \in {"down", "mount"} => Stopped /\ CowPc = "down"
    /\ pc \in {"idle", "fin"} => ~ Stopped /\ CowPc = "idle"
    /\ pc \in {"copy", "meta"} => ~ Stopped /\ CowPc = "write"
    /\ pc \in {"tables", "tail", "head"} => ~ Stopped /\ CowPc = "commit"
    /\ pc = "ro" => ~ Stopped /\ CowPc = "ro"
BY DEF Stopped, CowPc

\* The first change of a chunk moves it; nothing is written yet.
LEMMA AddChunkSigned ==
    ASSUME SigInv, NEW o \in Object, NEW v \in Val, NEW b, AddChunk(o, v, b)
    PROVE  CommittedSigned' /\ MemorySigned'
<1>1. /\ pc = "idle" /\ pc' = "idle" /\ o \in DOMAIN base_t
      /\ base_t' = [base_t EXCEPT ![o].b = b]
      /\ dirty' = dirty \cup {o} /\ committed' = committed
  BY DEF AddChunk, MoveIblock
<1>2. /\ page' = [page EXCEPT ![o] = v] /\ dirty_chunks' = dirty_chunks \cup {o}
      /\ inplace' = inplace \/ inplace' = inplace \cup {o}
      /\ UNCHANGED <<blk, d_page, blk_ver>>
  BY DEF AddChunk, Cow!AddChunk, Cow!MoveIblock, Cow!durable
<1>3. /\ inplace \subseteq dirty_chunks
      /\ page \in [DOMAIN base_t -> Val \cup {Garbage}]
  BY <1>1, Phases DEF SigInv, MemoryArea
<1>4. CommittedSigned'
  <2>1. inplace' \ dirty_chunks' = inplace \ dirty_chunks
    BY <1>2, <1>3
  <2> QED
    BY <1>1, <1>2, <2>1, SameCommitted DEF SigInv
<1>5. MemorySigned'
  <2>1. /\ dirty_chunks = dirty
        /\ \A p \in DOMAIN base_t :
              /\ page[p] = Garbage => p \notin dirty /\ Unreadable(base_t, p)
              /\ page[p] # Garbage /\ p \notin dirty_chunks =>
                    blk_ver[base_t[p].b] = base_t[p].v
    BY <1>1 DEF SigInv, MemorySigned, Signature, InUse
  <2>2. DOMAIN base_t' = DOMAIN base_t /\ page'[o] # Garbage
    BY <1>1, <1>2, <1>3, SnapshotAssumption
  <2>3. \A p \in DOMAIN base_t : p # o => base_t'[p] = base_t[p] /\ page'[p] = page[p]
    BY <1>1, <1>2, <1>3
  <2>4. \A p \in DOMAIN base_t : p # o => (Unreadable(base_t, p)' <=> Unreadable(base_t, p))
    BY <1>2, <2>3 DEF Unreadable
  <2>5. \A p : Signature(p)' = base_t'[p].v
    BY <1>1 DEF Signature
  <2>6. \A p \in DOMAIN base_t' :
           /\ page'[p] = Garbage => p \notin dirty' /\ Unreadable(base_t, p)'
           /\ page'[p] # Garbage /\ p \notin dirty_chunks' =>
                 blk_ver'[base_t'[p].b] = Signature(p)'
    BY <1>1, <1>2, <2>1, <2>2, <2>3, <2>4, <2>5, ZenonT(30)
  <2> QED
    BY <1>1, <1>2, <2>1, <2>6, Zenon DEF MemorySigned
<1> QED
  BY <1>4, <1>5

\* A dirty chunk changes again where it is.
LEMMA ChangeDirtySigned ==
    ASSUME SigInv, NEW o \in Object, NEW v \in Val, ChangeDirty(o, v)
    PROVE  CommittedSigned' /\ MemorySigned'
<1>1. /\ pc = "idle" /\ o \in dirty_chunks
      /\ page' = [page EXCEPT ![o] = v]
      /\ UNCHANGED <<pc, base_t, dirty, committed, sync_count, raw_exsb>>
      /\ UNCHANGED <<dirty_chunks, inplace, blk, d_page, blk_ver>>
  BY DEF ChangeDirty, Cow!ChangeDirty, Cow!durable, vars, mem
<1>2. /\ dirty_chunks \subseteq DOMAIN base_t
      /\ page \in [DOMAIN base_t -> Val \cup {Garbage}]
  BY <1>1, Phases DEF SigInv, MemoryArea
<1>3. CommittedSigned'
  BY <1>1, SameCommitted DEF SigInv
<1>4. MemorySigned'
  <2>1. /\ dirty_chunks = dirty
        /\ \A p \in DOMAIN base_t :
              /\ page[p] = Garbage => p \notin dirty /\ Unreadable(base_t, p)
              /\ page[p] # Garbage /\ p \notin dirty_chunks =>
                    blk_ver[base_t[p].b] = base_t[p].v
    BY <1>1 DEF SigInv, MemorySigned, Signature, InUse
  <2>2. page'[o] # Garbage /\ \A p \in DOMAIN base_t : p # o => page'[p] = page[p]
    BY <1>1, <1>2, SnapshotAssumption
  <2>3. \A p : /\ Signature(p)' = base_t[p].v
               /\ Unreadable(base_t, p)' <=> Unreadable(base_t, p)
    BY <1>1 DEF Signature, Unreadable
  <2> QED
    BY <1>1, <2>1, <2>2, <2>3 DEF MemorySigned
<1> QED
  BY <1>3, <1>4

\* A special file grows by a chunk that is dirty from the start.
LEMMA ExpandFileSigned ==
    ASSUME SigInv, NEW o \in Object, NEW v \in Val, NEW b, NEW B, ExpandFile(o, v, b, B)
    PROVE  CommittedSigned' /\ MemorySigned'
<1>1. /\ pc = "idle" /\ pc' = "idle" /\ o \notin DOMAIN base_t
      /\ base_t' = [x \in DOMAIN base_t \cup {o} |->
                      IF x = o THEN [b |-> b, v |-> Ver] ELSE base_t[x]]
      /\ dirty' = dirty \cup {o} /\ committed' = committed
  BY DEF ExpandFile, CheckPageOffset
<1>2. /\ page' = [y \in DOMAIN page \cup {o} |-> IF y = o THEN v ELSE page[y]]
      /\ dirty_chunks' = dirty_chunks \cup {o}
      /\ UNCHANGED <<inplace, blk, d_page, blk_ver>>
  BY DEF ExpandFile, Cow!CheckPageOffset, Cow!Insert, Cow!durable
<1>3. /\ inplace \subseteq dirty_chunks
      /\ page \in [DOMAIN base_t -> Val \cup {Garbage}]
  BY <1>1, Phases DEF SigInv, MemoryArea
<1>4. CommittedSigned'
  <2>1. inplace' \ dirty_chunks' = inplace \ dirty_chunks
    BY <1>2, <1>3
  <2> QED
    BY <1>1, <1>2, <2>1, SameCommitted DEF SigInv
<1>5. MemorySigned'
  <2>1. /\ dirty_chunks = dirty
        /\ \A p \in DOMAIN base_t :
              /\ page[p] = Garbage => p \notin dirty /\ Unreadable(base_t, p)
              /\ page[p] # Garbage /\ p \notin dirty_chunks =>
                    blk_ver[base_t[p].b] = base_t[p].v
    BY <1>1 DEF SigInv, MemorySigned, Signature, InUse
  <2>2. DOMAIN base_t' = DOMAIN base_t \cup {o} /\ page'[o] # Garbage
    BY <1>1, <1>2, <1>3, SnapshotAssumption
  <2>3. \A p \in DOMAIN base_t : base_t'[p] = base_t[p] /\ page'[p] = page[p]
    BY <1>1, <1>2, <1>3
  <2>4. \A p \in DOMAIN base_t : Unreadable(base_t, p)' <=> Unreadable(base_t, p)
    BY <1>2, <2>3 DEF Unreadable
  <2>5. \A p : Signature(p)' = base_t'[p].v
    BY <1>1 DEF Signature
  <2>6. \A p \in DOMAIN base_t' :
           /\ page'[p] = Garbage => p \notin dirty' /\ Unreadable(base_t, p)'
           /\ page'[p] # Garbage /\ p \notin dirty_chunks' =>
                 blk_ver'[base_t'[p].b] = Signature(p)'
    BY <1>1, <1>2, <2>1, <2>2, <2>3, <2>4, <2>5, ZenonT(30)
  <2> QED
    BY <1>1, <1>2, <2>1, <2>6, Zenon DEF MemorySigned
<1> QED
  BY <1>4, <1>5

\* The area grows, a commit starts, or the tables and superblocks are written.
LEMMA SameChunksSigned ==
    ASSUME SigInv, (\E B : GrowArea(B)) \/ StartSync \/ TablesOnly
    PROVE  CommittedSigned' /\ MemorySigned'
<1>1. /\ UNCHANGED <<page, blk, blk_ver, d_page, dirty_chunks, inplace, committed>>
      /\ \/ /\ pc \in InUse /\ pc # "meta" /\ UNCHANGED <<base_t, dirty>>
            /\ pc' = "meta" => pc \in {"idle", "copy"}
            /\ pc' \in {"idle", "copy", "fin"} => pc \in {"idle", "copy", "fin"}
         \/ pc' = "mount"
  <2>1. ASSUME NEW B, GrowArea(B)
        PROVE  /\ UNCHANGED <<page, blk, blk_ver, d_page, dirty_chunks, inplace, committed>>
               /\ pc = "idle" /\ UNCHANGED <<pc, base_t, dirty>>
    BY <2>1 DEF GrowArea, CheckMetaSpace, Cow!CheckMetaSpace, Cow!durable
  <2>2. ASSUME StartSync
        PROVE  /\ UNCHANGED <<page, blk, blk_ver, d_page, dirty_chunks, inplace, committed>>
               /\ pc = "idle" /\ pc' \in {"copy", "meta"} /\ UNCHANGED <<base_t, dirty>>
    BY <2>2 DEF StartSync, SyncMetadata, Cow!SyncMetadata, Cow!durable
  <2>3. ASSUME TablesOnly
        PROVE  /\ UNCHANGED <<page, blk, blk_ver, d_page, dirty_chunks, inplace, committed>>
               /\ \/ /\ UNCHANGED <<base_t, dirty>>
                     /\ \/ pc = "copy" /\ pc' = "meta"
                        \/ pc \in {"tables", "tail"} /\ pc' \in {"tail", "head"}
                        \/ pc = "fin" /\ pc' = "idle"
                  \/ pc' = "mount"
    BY <2>3, Zenon DEF TablesOnly, cow, SbRead, SyncExsbCopy, UpdateTranslationTables, WriteTail,
                FinishSync
  <2>4. CASE \E B : GrowArea(B)
    BY <2>1, <2>4 DEF InUse
  <2>5. CASE StartSync
    BY <2>2, <2>5 DEF InUse
  <2>6. CASE TablesOnly
    BY <2>3, <2>6 DEF InUse
  <2> QED
    BY <2>4, <2>5, <2>6
<1>2. CommittedSigned'
  BY <1>1, SameCommitted DEF SigInv
<1>3. MemorySigned'
  BY <1>1, SameMemory, NotInUse DEF SigInv
<1> QED
  BY <1>2, <1>3

--------------------------------------------------------------------------------
(* The commit.                                                                  *)

\* A chunk is written to a block that the last commit does not use, or over its
\* own old content, which a mount then refuses.
LEMMA WriteChunkSigned ==
    ASSUME SigInv, NEW o \in Object, WriteChunk(o), Ver \in Version,
           Newer(Ver, committed.ver)
    PROVE  blk_ver' \in [Block -> Version] /\ CommittedSigned' /\ MemorySigned'
<1>1. /\ pc = "meta" /\ UNCHANGED <<pc, base_t, dirty, committed, sync_count, raw_exsb>>
      /\ blk_ver' = [blk_ver EXCEPT ![base_t[o].b] = Ver]
  BY DEF WriteChunk, vars, mem
<1>2. Stopped = FALSE /\ CowPc = "write"
  BY <1>1, Phases
<1>3. /\ o \in dirty_chunks /\ dirty_chunks' = dirty_chunks \ {o}
      /\ blk' = [blk EXCEPT ![Blocks(base_t)[o]] = page[o]]
      /\ UNCHANGED <<page, d_page, inplace>>
  BY <1>2 DEF WriteChunk, Cow!WriteChunk, Cow!durable
<1>4. /\ dirty_chunks \subseteq DOMAIN base_t
      /\ \A p, q \in DOMAIN base_t : base_t[p].b = base_t[q].b => p = q
      /\ \A p \in inplace : /\ p \in DOMAIN base_t /\ p \in DOMAIN committed.table
                            /\ base_t[p].b = committed.table[p].b
      /\ o \notin inplace => \A p \in DOMAIN committed.table :
                                base_t[o].b # committed.table[p].b
      /\ \A p \in DOMAIN base_t : base_t[p].b \in Block
      /\ \A p \in DOMAIN committed.table : committed.table[p].b \in Block
      /\ blk \in [Block -> Val \cup {Garbage}] /\ blk_ver \in [Block -> Version]
  BY <1>2, <1>3 DEF SigInv, MemoryArea, CommittedArea
<1>5. /\ blk' = [blk EXCEPT ![base_t[o].b] = page[o]]
      /\ blk_ver'[base_t[o].b] = Ver
      /\ \A b \in Block : b # base_t[o].b => blk'[b] = blk[b] /\ blk_ver'[b] = blk_ver[b]
  BY <1>1, <1>3, <1>4, Zenon DEF Blocks
<1>6. blk_ver' \in [Block -> Version]
  BY <1>1, <1>4, ZenonT(30)
<1>7. CommittedSigned'
  <2>1. ASSUME NEW p \in DOMAIN committed.table, committed.table[p].b # base_t[o].b
        PROVE  /\ Unreadable(committed.table, p)' <=> Unreadable(committed.table, p)
               /\ blk_ver'[committed.table[p].b] = blk_ver[committed.table[p].b]
               /\ p # o \/ p \notin inplace
    BY <1>1, <1>4, <1>5, <2>1 DEF Unreadable
  <2>2. ASSUME NEW p \in DOMAIN committed.table, committed.table[p].b = base_t[o].b,
               ~ Newer(committed.table[p].v, committed.ver)
        PROVE  Unreadable(committed.table, p)' /\ p \in inplace \ dirty_chunks'
    <3>1. o \in inplace /\ p = o
      BY <1>3, <1>4, <2>2 DEF SigInv, CommittedArea
    <3>2. blk_ver'[committed.table[p].b] # committed.table[p].v
      BY <1>5, <2>2
    <3> QED
      BY <1>1, <1>3, <3>1, <3>2 DEF Unreadable
  <2> QED
    BY <1>1, <1>3, <2>1, <2>2 DEF SigInv, CommittedSigned
<1>8. MemorySigned'
  <2>1. /\ dirty_chunks \subseteq dirty
        /\ \A p \in DOMAIN base_t :
              /\ page[p] = Garbage => p \notin dirty /\ Unreadable(base_t, p)
              /\ page[p] # Garbage /\ p \notin dirty_chunks =>
                    blk_ver[base_t[p].b] = Signature(p)
    BY <1>1 DEF SigInv, MemorySigned, InUse
  <2>2. \A p \in DOMAIN base_t : p # o =>
           /\ blk'[base_t[p].b] = blk[base_t[p].b]
           /\ blk_ver'[base_t[p].b] = blk_ver[base_t[p].b]
    BY <1>3, <1>4, <1>5
  <2>3. \A p \in DOMAIN base_t : p # o =>
           (Unreadable(base_t, p)' <=> Unreadable(base_t, p))
    BY <1>1, <2>2 DEF Unreadable
  <2>4. Signature(o) = Ver /\ \A p : Signature(p)' = Signature(p)
    BY <1>1, <1>3, <2>1 DEF Signature, Ver
  <2>5. \A p \in DOMAIN base_t :
           /\ page[p] = Garbage => p \notin dirty /\ Unreadable(base_t, p)'
           /\ page[p] # Garbage /\ p \notin dirty_chunks' =>
                 blk_ver'[base_t[p].b] = Signature(p)'
    BY <1>3, <1>5, <2>1, <2>2, <2>3, <2>4
  <2> QED
    BY <1>1, <1>3, <2>1, <2>5 DEF MemorySigned
<1> QED
  BY <1>6, <1>7, <1>8

\* When all chunks are written, their records get the version of the commit.
LEMMA WriteChunksDoneSigned ==
    ASSUME SigInv, WriteChunksDone, \A o \in DOMAIN base_t : base_t[o] \in Record
    PROVE  CommittedSigned' /\ MemorySigned'
<1>1. /\ pc = "meta" /\ pc' = "tables" /\ UNCHANGED <<dirty, committed, blk_ver>>
      /\ base_t' = [o \in DOMAIN base_t |->
                      IF o \in dirty THEN [base_t[o] EXCEPT !.v = Ver] ELSE base_t[o]]
  BY DEF WriteChunksDone, MetaWrite
<1>2. dirty_chunks = {} /\ UNCHANGED <<dirty_chunks, page, blk, d_page, inplace>>
  BY DEF WriteChunksDone, Cow!UpdateBitmaps, Cow!durable
<1>3. CommittedSigned'
  BY <1>1, <1>2, SameCommitted DEF SigInv
<1>4. MemorySigned'
  <2>1. \A o \in DOMAIN base_t :
           /\ page[o] = Garbage => o \notin dirty /\ Unreadable(base_t, o)
           /\ page[o] # Garbage => blk_ver[base_t[o].b] = Signature(o)
    BY <1>1, <1>2 DEF SigInv, MemorySigned, InUse
  <2>2. DOMAIN base_t' = DOMAIN base_t
    BY <1>1
  <2>3. ASSUME NEW o \in DOMAIN base_t
        PROVE  /\ base_t'[o].b = base_t[o].b /\ base_t'[o].v = Signature(o)
               /\ o \notin dirty => base_t'[o] = base_t[o]
    <3>1. CASE o \in dirty
      <4>1. base_t'[o] = [base_t[o] EXCEPT !.v = Ver] /\ Signature(o) = Ver
        BY <1>1, <3>1 DEF Signature
      <4>2. base_t[o] \in [b : Block, v : Version]
        BY DEF Record
      <4> QED
        BY <3>1, <4>1, <4>2
    <3>2. CASE o \notin dirty
      BY <1>1, <3>2 DEF Signature
    <3> QED
      BY <3>1, <3>2
  <2>4. \A o \in DOMAIN base_t : o \notin dirty =>
           (Unreadable(base_t, o)' <=> Unreadable(base_t, o))
    BY <1>1, <1>2, <2>3 DEF Unreadable
  <2>5. \A o : Signature(o)' = base_t'[o].v
    BY <1>1 DEF Signature
  <2>6. \A o \in DOMAIN base_t' :
           /\ page'[o] = Garbage => o \notin dirty' /\ Unreadable(base_t, o)'
           /\ page'[o] # Garbage => blk_ver'[base_t'[o].b] = Signature(o)'
    BY <1>1, <1>2, <2>1, <2>2, <2>3, <2>4, <2>5, ZenonT(30)
  <2> QED
    BY <1>1, <1>2, <2>6 DEF MemorySigned
<1> QED
  BY <1>3, <1>4

\* At the commit point everything in memory is signed as its record says: the
\* table in memory becomes the one of the last commit.
LEMMA CommitSigned ==
    ASSUME SigInv, pc = "head", Commits, UNCHANGED <<page, blk, blk_ver, dirty_chunks>>,
           d_page' = page, inplace' = {}, \A o \in DOMAIN base_t : ~ Newer(base_t[o].v, Ver)
    PROVE  CommittedSigned'
<1>1. committed'.table = base_t /\ committed'.ver = Ver
  BY DEF Commits
<1>2. dirty_chunks = {}
  BY Phases DEF SigInv, MemoryArea
<1>3. \A o \in DOMAIN base_t :
         /\ page[o] = Garbage => Unreadable(base_t, o)
         /\ page[o] # Garbage => blk_ver[base_t[o].b] = base_t[o].v
  BY <1>2 DEF SigInv, MemorySigned, Signature, InUse
<1>4. \A o \in DOMAIN base_t : Unreadable(committed.table, o)' <=> Unreadable(base_t, o)
  BY <1>1 DEF Unreadable
<1> QED
  BY <1>1, <1>3, <1>4 DEF CommittedSigned

LEMMA CommitHeadSigned ==
    ASSUME SigInv, CommitHead, \A o \in DOMAIN base_t : ~ Newer(base_t[o].v, Ver)
    PROVE  CommittedSigned' /\ MemorySigned'
<1>1. /\ pc = "head" /\ pc' = "fin" /\ Commits /\ dirty' = {}
      /\ UNCHANGED <<base_t, sync_count, raw_exsb, blk_ver>>
  BY DEF CommitHead, WriteHead
<1>2. d_page' = page /\ inplace' = {} /\ UNCHANGED <<page, blk, dirty_chunks>>
  BY DEF CommitHead, Cow!Commit, Cow!TablesWritten
<1>3. CommittedSigned'
  BY <1>1, <1>2, CommitSigned
<1>4. MemorySigned'
  <2>1. dirty_chunks = {}
    BY <1>1, Phases DEF SigInv, MemoryArea
  <2>2. \A o \in DOMAIN base_t :
           /\ page[o] = Garbage => Unreadable(base_t, o)
           /\ page[o] # Garbage => blk_ver[base_t[o].b] = base_t[o].v
    BY <1>1, <2>1 DEF SigInv, MemorySigned, Signature, InUse
  <2>3. \A o \in DOMAIN base_t : /\ Unreadable(base_t, o)' <=> Unreadable(base_t, o)
                                 /\ Signature(o)' = base_t[o].v
    BY <1>1, <1>2 DEF Unreadable, Signature
  <2> QED
    BY <1>1, <1>2, <2>1, <2>2, <2>3 DEF MemorySigned
<1> QED
  BY <1>3, <1>4

--------------------------------------------------------------------------------
(* A mount, and failures.                                                       *)

\* A mount reads the chunks of the last commit, and refuses the lost ones: it is
\* the mount of CowMeta.
LEMMA BuildManagerSigned ==
    ASSUME SigInv, BuildManager, base_t' = committed.table,
           raw_exsb'.meta = committed.meta, dirty = {}
    PROVE  CommittedSigned' /\ MemorySigned' /\ Cow!Mount
<1>1. /\ pc = "mount" /\ pc' = "idle" /\ UNCHANGED <<dirty, committed>>
      /\ snapshot_bitmap' = {base_t'[o].b : o \in DOMAIN base_t'}
      /\ next_snapshot_bitmap' = snapshot_bitmap'
      /\ page' = [o \in DOMAIN base_t' |-> ReadPage(base_t', o)]
      /\ bitmap_blocks' = raw_exsb'.meta /\ moved_iblock' = {} /\ cow_blocks' = 0
      /\ dirty_chunks' = {} /\ UNCHANGED <<blk, d_page, inplace, blk_ver>>
  BY DEF BuildManager, BuildSnapshotManager
<1>2. Stopped = TRUE /\ CowPc = "down" /\ Stopped' = FALSE /\ CowPc' = "idle"
  <2>1. Stopped = TRUE /\ CowPc = "down"
    BY <1>1 DEF Stopped, CowPc
  <2>2. Stopped' = FALSE /\ CowPc' = "idle"
    BY <1>1 DEF Stopped, CowPc
  <2> QED
    BY <2>1, <2>2
<1>3. inplace = {}
  BY <1>2 DEF SigInv, CommittedArea
<1>4. \A o \in DOMAIN committed.table :
         /\ page'[o] = (IF d_page[o] = Garbage THEN Garbage ELSE blk[committed.table[o].b])
         /\ page'[o] = Garbage => Unreadable(committed.table, o)
         /\ page'[o] # Garbage => blk_ver[committed.table[o].b] = committed.table[o].v
  BY <1>1, <1>3 DEF SigInv, CommittedSigned, Unreadable, ReadPage
<1>5. CommittedSigned'
  BY <1>1, <1>3, SameCommitted DEF SigInv
<1>6. MemorySigned'
  <2>1. \A o \in DOMAIN base_t' :
           /\ Unreadable(base_t, o)' <=> Unreadable(committed.table, o)
           /\ Signature(o)' = committed.table[o].v
    BY <1>1 DEF Unreadable, Signature
  <2> QED
    BY <1>1, <1>4, <2>1 DEF MemorySigned
<1>7. Cow!Mount
  <2>1. /\ Blocks(IF Stopped THEN committed.table ELSE base_t)' = Blocks(committed.table)
        /\ (IF Stopped THEN committed.meta ELSE raw_exsb.meta)' = committed.meta
        /\ Blocks(committed.table)' = Blocks(committed.table)
    BY <1>1, <1>2 DEF Blocks
  <2>2. /\ DOMAIN Blocks(committed.table) = DOMAIN committed.table
        /\ \A o \in DOMAIN committed.table :
              Blocks(committed.table)[o] = committed.table[o].b
    BY DEF Blocks
  <2>3. snapshot_bitmap' = Cow!Range(Blocks(committed.table))
    BY <1>1, <2>2 DEF Cow!Range
  <2>4. page' = [o \in DOMAIN Blocks(committed.table) |->
                    IF d_page[o] = Garbage THEN Garbage ELSE blk[Blocks(committed.table)[o]]]
    BY <1>1, <1>4, <2>2
  <2> QED
    BY <1>1, <1>2, <2>1, <2>3, <2>4 DEF Cow!Mount, Cow!durable
<1> QED
  BY <1>5, <1>6, <1>7

\* A write that is cut short leaves nothing that a mount would take for a chunk.
LEMMA TornSigned ==
    ASSUME SigInv, ~ Stopped, NEW T, T \subseteq dirty_chunks, Cow!TornWrite(T),
           UNCHANGED <<committed, blk_ver>>
    PROVE  \A o \in DOMAIN committed.table :
              Unreadable(committed.table, o) \/ o \in inplace \cap T =>
                 Unreadable(committed.table, o)'
<1>1. blk' = [b \in Block |-> IF \E o \in T : Blocks(base_t)[o] = b THEN Garbage ELSE blk[b]]
  BY DEF Cow!TornWrite
<1>2. /\ \A o \in DOMAIN committed.table : committed.table[o].b \in Block
      /\ \A o \in inplace : o \in DOMAIN base_t /\ base_t[o].b = committed.table[o].b
  BY DEF SigInv, CommittedArea, MemoryArea
<1>3. ASSUME NEW o \in DOMAIN committed.table
      PROVE  /\ blk[committed.table[o].b] = Garbage \/ o \in inplace \cap T =>
                   blk'[committed.table[o].b] = Garbage
  BY <1>1, <1>2, Zenon DEF Blocks
<1> QED
  BY <1>3 DEF Unreadable

\* Neither an error nor a crash makes a lost chunk readable, or a kept one
\* unreadable.
LEMMA FailureSigned ==
    ASSUME SigInv, Failure, pc = "head" => \A o \in DOMAIN base_t : ~ Newer(base_t[o].v, Ver)
    PROVE  CommittedSigned' /\ MemorySigned'
<1>1. ASSUME FatalError \/ ExsbWriteError \/ MetaWriteError \/ TableWriteError,
             NEW T \in SUBSET dirty_chunks, Cow!WriteError(T)
      PROVE  CommittedSigned' /\ MemorySigned'
  <2>1. pc' = "ro" /\ committed' = committed /\ blk_ver' = blk_ver /\ ~ Stopped
    BY <1>1 DEF Failure, FatalError, ExsbWriteError, MetaWriteError, TableWriteError, Stopped
  <2>2. Cow!TornWrite(T) /\ dirty_chunks' = dirty_chunks \ T /\ UNCHANGED <<d_page, inplace>>
    BY <1>1 DEF Cow!WriteError, Cow!durable
  <2>3. \A o \in DOMAIN committed.table :
           Unreadable(committed.table, o) \/ o \in inplace \cap T =>
              Unreadable(committed.table, o)'
    BY <2>1, <2>2, TornSigned
  <2>4. CommittedSigned'
    BY <2>1, <2>2, <2>3 DEF SigInv, CommittedSigned
  <2> QED
    BY <2>1, <2>4, NotInUse
<1>2. ASSUME LateTableWriteError, Cow!LateWriteError
      PROVE  CommittedSigned' /\ MemorySigned'
  <2>1. pc = "head" /\ pc' = "ro" /\ Commits /\ blk_ver' = blk_ver
    BY <1>2 DEF Failure, LateTableWriteError
  <2>2. d_page' = page /\ inplace' = {} /\ UNCHANGED <<page, blk, dirty_chunks>>
    BY <1>2 DEF Cow!LateWriteError, Cow!TablesWritten
  <2> QED
    BY <2>1, <2>2, CommitSigned, NotInUse
<1>3. ASSUME Crash, ~ Stopped, NEW T \in SUBSET dirty_chunks, Cow!Crash(T)
      PROVE  CommittedSigned' /\ MemorySigned'
  <2>1. pc' = "down" /\ committed' = committed /\ blk_ver' = blk_ver
    BY <1>3 DEF Failure, Crash
  <2>2. /\ Cow!TornWrite(T) /\ inplace' = {} /\ dirty_chunks' = {}
        /\ d_page' = [o \in DOMAIN Blocks(committed.table) |->
                        IF o \in inplace \ (dirty_chunks \ T) THEN Garbage ELSE d_page[o]]
    BY <1>3 DEF Cow!Crash
  <2>3. \A o \in DOMAIN committed.table :
           d_page'[o] = IF o \in inplace \ (dirty_chunks \ T) THEN Garbage ELSE d_page[o]
    BY <2>2 DEF Blocks
  <2>4. \A o \in DOMAIN committed.table :
           Unreadable(committed.table, o) \/ o \in inplace \cap T =>
              Unreadable(committed.table, o)'
    BY <1>3, <2>1, <2>2, TornSigned
  <2>5. CommittedSigned'
    <3> SUFFICES ASSUME NEW o \in DOMAIN committed.table
                 PROVE  /\ ~ Newer(committed.table[o].v, committed.ver)
                        /\ d_page'[o] # Garbage =>
                              blk_ver[committed.table[o].b] = committed.table[o].v
                        /\ d_page'[o] = Garbage => Unreadable(committed.table, o)'
      BY <2>1, <2>2, Zenon DEF CommittedSigned
    <3>1. CASE o \in inplace \ (dirty_chunks \ T)
      BY <2>3, <2>4, <3>1 DEF SigInv, CommittedSigned
    <3>2. CASE o \notin inplace \ (dirty_chunks \ T)
      BY <2>3, <2>4, <3>2 DEF SigInv, CommittedSigned
    <3> QED
      BY <3>1, <3>2
  <2> QED
    BY <2>1, <2>5, NotInUse
<1>4. ASSUME Crash, UNCHANGED cow
      PROVE  CommittedSigned' /\ MemorySigned'
  <2>1. /\ pc' = "down" /\ committed' = committed /\ blk_ver' = blk_ver
        /\ UNCHANGED <<d_page, blk, inplace, dirty_chunks>>
    BY <1>4 DEF Failure, Crash, cow
  <2> QED
    BY <2>1, SameCommitted, NotInUse DEF SigInv
<1> QED
  BY <1>1, <1>2, <1>3, <1>4 DEF Failure

--------------------------------------------------------------------------------
(* Snapshot behaves as its parts.                                               *)

\* Every step is one of the translation tables and superblocks.
LEMMA TablesStep ==
    ASSUME [SnapshotNext]_allvars
    PROVE  [Next]_vars
<1>1. CASE BuildManager
  BY <1>1, ZenonT(30) DEF BuildManager, Next
<1>2. CASE pc = "idle" /\ SnapshotChange
  <2>1. CASE \E o \in Object, v \in Val, b \in raw_exsb.meta : AddChunk(o, v, b)
    BY <2>1 DEF AddChunk, Next, Update
  <2>2. CASE \E o \in Object, v \in Val : ChangeDirty(o, v)
    BY <2>2 DEF ChangeDirty
  <2>3. CASE \E o \in Object, v \in Val, B \in SUBSET (Block \ raw_exsb.meta) :
                \E b \in raw_exsb.meta \cup B : ExpandFile(o, v, b, B)
    BY <2>3 DEF ExpandFile, Next, Update
  <2>4. CASE \E B \in SUBSET (Block \ raw_exsb.meta) : GrowArea(B)
    <3>1. PICK B \in SUBSET (Block \ raw_exsb.meta) : GrowArea(B)
      BY <2>4
    <3>2. CheckMetaSpace(B) /\ B # {}
      BY <3>1 DEF GrowArea, Cow!CheckMetaSpace
    <3>3. B \in (SUBSET (Block \ raw_exsb.meta)) \ {{}}
      BY <3>2
    <3>4. Update
      BY <3>2, <3>3, Zenon DEF Update
    <3> QED
      BY <3>4 DEF Next
  <2> QED
    BY <1>2, <2>1, <2>2, <2>3, <2>4, ZenonT(30) DEF SnapshotChange
<1>3. CASE StartSync \/ WriteChunksDone \/ CommitHead
  BY <1>3 DEF StartSync, WriteChunksDone, CommitHead, Next
<1>4. CASE \E o \in Object : WriteChunk(o)
  BY <1>4 DEF WriteChunk
<1>5. CASE TablesOnly
  BY <1>5 DEF TablesOnly, Next
<1>6. CASE Failure
  BY <1>6 DEF Failure, Next
<1>7. CASE UNCHANGED allvars
  BY <1>7 DEF allvars
<1> QED
  BY <1>1, <1>2, <1>3, <1>4, <1>5, <1>6, <1>7 DEF SnapshotNext

\* A step of the tables and superblocks alone is none of the metadata area.
LEMMA TablesOnlyStutters ==
    ASSUME TablesOnly, raw_exsb \in Exsb
    PROVE  UNCHANGED Cow!vars
<1>1. UNCHANGED cow /\ committed' = committed
  BY DEF TablesOnly, SbRead, SyncExsbCopy, UpdateTranslationTables, WriteTail, FinishSync
<1>2. \/ pc = "down" /\ pc' = "mount"
      \/ /\ base_t' = base_t /\ raw_exsb'.meta = raw_exsb.meta
         /\ \/ pc = "copy" /\ pc' = "meta"
            \/ pc \in {"tables", "tail"} /\ pc' \in {"tail", "head"}
            \/ pc = "fin" /\ pc' = "idle"
  <2>1. [raw_exsb EXCEPT !.ver = Ver].meta = raw_exsb.meta
    BY DEF Exsb
  <2> QED
    BY <2>1, Zenon DEF TablesOnly, SbRead, SyncExsbCopy, UpdateTranslationTables, WriteTail,
                FinishSync
<1>3. Stopped' = Stopped /\ CowPc' = CowPc
  <2>1. CASE pc = "down" /\ pc' = "mount"
    BY <2>1 DEF Stopped, CowPc
  <2>2. CASE pc = "copy" /\ pc' = "meta"
    BY <2>2 DEF Stopped, CowPc
  <2>3. CASE pc \in {"tables", "tail"} /\ pc' \in {"tail", "head"}
    BY <2>3 DEF Stopped, CowPc
  <2>4. CASE pc = "fin" /\ pc' = "idle"
    BY <2>4 DEF Stopped, CowPc
  <2> QED
    BY <1>2, <2>1, <2>2, <2>3, <2>4
<1>4. Stopped \/ (base_t' = base_t /\ raw_exsb'.meta = raw_exsb.meta)
  BY <1>2 DEF Stopped
<1>5. /\ Blocks(IF Stopped THEN committed.table ELSE base_t)' =
            Blocks(IF Stopped THEN committed.table ELSE base_t)
      /\ (IF Stopped THEN committed.meta ELSE raw_exsb.meta)' =
            IF Stopped THEN committed.meta ELSE raw_exsb.meta
      /\ Blocks(committed.table)' = Blocks(committed.table)
  BY <1>1, <1>3, <1>4 DEF Blocks
<1> QED
  BY <1>1, <1>3, <1>5 DEF cow, Cow!vars, Cow!bitmaps, Cow!durable

\* Every step is one of the metadata area, or none of it.
LEMMA AreaStep ==
    ASSUME SigInv, raw_exsb \in Exsb, BuildManager => Cow!Mount, [SnapshotNext]_allvars
    PROVE  [Cow!Next]_(Cow!vars)
<1>1. CASE BuildManager
  BY <1>1 DEF Cow!Next
<1>2. CASE pc = "idle" /\ SnapshotChange
  <2>1. raw_exsb.meta \subseteq Block
    BY DEF Exsb
  <2>2. CowPc = "idle"
    BY <1>2, Phases
  <2>3. ASSUME \E o \in Object, v \in Val, b \in raw_exsb.meta : AddChunk(o, v, b)
        PROVE  Cow!Change
    BY <2>1, <2>3 DEF AddChunk, Cow!Change
  <2>4. ASSUME \E o \in Object, v \in Val : ChangeDirty(o, v)
        PROVE  Cow!Change
    BY <2>4 DEF ChangeDirty, Cow!Change
  <2>5. ASSUME \E o \in Object, v \in Val, B \in SUBSET (Block \ raw_exsb.meta) :
                 \E b \in raw_exsb.meta \cup B : ExpandFile(o, v, b, B)
        PROVE  Cow!Change
    <3>1. PICK o \in Object, v \in Val, B \in SUBSET (Block \ raw_exsb.meta) :
             \E b \in raw_exsb.meta \cup B : ExpandFile(o, v, b, B)
      BY <2>5
    <3>2. PICK b \in raw_exsb.meta \cup B : ExpandFile(o, v, b, B)
      BY <3>1
    <3>3. b \in Block /\ B \in SUBSET Block /\ Cow!CheckPageOffset(o, v, b, B)
      BY <2>1, <3>2 DEF ExpandFile
    <3> QED
      BY <3>3 DEF Cow!Change
  <2>6. ASSUME \E B \in SUBSET (Block \ raw_exsb.meta) : GrowArea(B)
        PROVE  Cow!Change
    <3>1. PICK B \in SUBSET (Block \ raw_exsb.meta) : GrowArea(B)
      BY <2>6
    <3>2. B \in SUBSET Block /\ Cow!CheckMetaSpace(B)
      BY <3>1 DEF GrowArea
    <3> QED
      BY <3>2 DEF Cow!Change
  <2>7. Cow!Change
    BY <1>2, <2>3, <2>4, <2>5, <2>6 DEF SnapshotChange
  <2> QED
    BY <2>2, <2>7 DEF Cow!Next
<1>3. CASE StartSync \/ WriteChunksDone \/ CommitHead
  BY <1>3 DEF StartSync, WriteChunksDone, CommitHead, Cow!Next
<1>4. CASE \E o \in Object : WriteChunk(o)
  BY <1>4 DEF WriteChunk, Cow!Next
<1>5. CASE TablesOnly
  BY <1>5, TablesOnlyStutters
<1>6. CASE Failure
  <2>1. dirty_chunks \subseteq Object
    BY DEF SigInv, CommittedArea
  <2>2. CASE \E T \in SUBSET dirty_chunks : Cow!WriteError(T) \/ Cow!Crash(T)
    <3>1. PICK T \in SUBSET dirty_chunks : Cow!WriteError(T) \/ Cow!Crash(T)
      BY <2>2
    <3>2. T \in SUBSET Object
      BY <2>1
    <3> QED
      BY <3>1, <3>2 DEF Cow!Next
  <2>3. CASE Cow!LateWriteError
    BY <2>3 DEF Cow!Next
  <2>4. CASE Crash /\ Stopped /\ UNCHANGED cow
    <3>1. UNCHANGED cow /\ committed' = committed /\ Stopped /\ pc' = "down"
      BY <2>4 DEF Crash
    <3>2. Stopped = TRUE /\ Stopped' = TRUE /\ CowPc' = CowPc
      BY <3>1 DEF Stopped, CowPc
    <3>3. /\ Blocks(IF Stopped THEN committed.table ELSE base_t)' =
                Blocks(IF Stopped THEN committed.table ELSE base_t)
          /\ (IF Stopped THEN committed.meta ELSE raw_exsb.meta)' =
                IF Stopped THEN committed.meta ELSE raw_exsb.meta
          /\ Blocks(committed.table)' = Blocks(committed.table)
      BY <3>1, <3>2 DEF Blocks
    <3> QED
      BY <3>1, <3>2, <3>3 DEF cow, Cow!vars, Cow!bitmaps, Cow!durable
  <2> QED
    BY <1>6, <2>2, <2>3, <2>4 DEF Failure
<1>7. CASE UNCHANGED allvars
  <2>1. UNCHANGED <<cow, pc, committed, base_t, raw_exsb>>
    BY <1>7 DEF allvars, vars, mem
  <2>2. Stopped' = Stopped /\ CowPc' = CowPc
    BY <2>1 DEF Stopped, CowPc
  <2>3. /\ Blocks(IF Stopped THEN committed.table ELSE base_t)' =
              Blocks(IF Stopped THEN committed.table ELSE base_t)
        /\ (IF Stopped THEN committed.meta ELSE raw_exsb.meta)' =
              IF Stopped THEN committed.meta ELSE raw_exsb.meta
        /\ Blocks(committed.table)' = Blocks(committed.table)
    BY <2>1, <2>2 DEF Blocks
  <2> QED
    BY <2>1, <2>2, <2>3 DEF cow, Cow!vars, Cow!bitmaps, Cow!durable
<1> QED
  BY <1>1, <1>2, <1>3, <1>4, <1>5, <1>6, <1>7 DEF SnapshotNext

\* The invariant holds in the state that mkfs leaves.
LEMMA SigInit ==
    ASSUME SnapshotInit, 0 \in Slots, BasePages(InitTable) \in Nat \ {0}
    PROVE  blk_ver \in [Block -> Version] /\ CommittedSigned /\ MemorySigned
<1>1. /\ pc = "down" /\ inplace = {} /\ committed.ver = <<0, 1>>
      /\ committed.table = slot[0].table
      /\ blk_ver = [b \in Block |-> <<0, 1>>]
  BY DEF SnapshotInit, Init, Cow!Init
<1>2. d_page = [o \in DOMAIN InitTable |-> InitVal]
  BY ZenonT(30) DEF SnapshotInit, Cow!Init
<1>3. committed.table = [o \in DOMAIN InitTable |-> [b |-> InitTable[o], v |-> <<0, 1>>]]
  <2> DEFINE t == [o \in DOMAIN InitTable |-> [b |-> InitTable[o], v |-> <<0, 1>>]]
  <2>1. slot[0] = [sig |-> "base", ver |-> <<0, 1>>, table |-> t, ok |-> TRUE]
    BY DEF SnapshotInit, Init
  <2> HIDE DEF t
  <2>2. committed.table = t
    BY <1>1, <2>1
  <2> QED
    BY <2>2 DEF t
<1>4. blk_ver \in [Block -> Version]
  BY <1>1 DEF Version
<1>5. \A o \in DOMAIN InitTable : /\ committed.table[o].b \in Block
                                  /\ committed.table[o].v = <<0, 1>>
                                  /\ d_page[o] # Garbage
  BY <1>2, <1>3, ConstantsAssumption, SnapshotAssumption
<1>6. ~ Newer(<<0, 1>>, <<0, 1>>)
  BY DEF Newer
<1>7. DOMAIN committed.table = DOMAIN InitTable
  BY <1>3
<1>8. CommittedSigned
  BY <1>1, <1>5, <1>6, <1>7, Zenon DEF CommittedSigned
<1> QED
  BY <1>1, <1>4, <1>8 DEF MemorySigned, InUse

\* What the proofs use of the tables (see TransTablesInv).
TableFacts ==
    /\ raw_exsb \in Exsb
    /\ \A o \in DOMAIN base_t : base_t[o] \in Record
    /\ pc = "mount" => dirty = {}
    /\ pc = "meta" => Ver \in Version /\ Newer(Ver, committed.ver)
    /\ pc = "head" => \A o \in DOMAIN base_t : ~ Newer(base_t[o].v, Ver)

\* Every step keeps the invariant, and is a step of the metadata area or none.
LEMMA SigNext ==
    ASSUME SigInv, TableFacts, [SnapshotNext]_allvars,
           BuildManager => base_t' = committed.table /\ raw_exsb'.meta = committed.meta
    PROVE  /\ blk_ver' \in [Block -> Version] /\ CommittedSigned' /\ MemorySigned'
           /\ [Cow!Next]_(Cow!vars)
<1>1. ASSUME BuildManager
      PROVE  CommittedSigned' /\ MemorySigned' /\ Cow!Mount
  <2>1. dirty = {}
    BY <1>1 DEF TableFacts, BuildManager, BuildSnapshotManager
  <2> QED
    BY <1>1, <2>1, BuildManagerSigned
<1>2. [Cow!Next]_(Cow!vars)
  BY <1>1, AreaStep DEF TableFacts
<1>3. ASSUME pc = "idle" /\ SnapshotChange
      PROVE  CommittedSigned' /\ MemorySigned'
  <2>1. ASSUME NEW o \in Object, NEW v \in Val, NEW B \in SUBSET (Block \ raw_exsb.meta),
               \E b \in raw_exsb.meta \cup B : ExpandFile(o, v, b, B)
        PROVE  CommittedSigned' /\ MemorySigned'
    BY <2>1, ExpandFileSigned
  <2> QED
    BY <1>3, <2>1, AddChunkSigned, ChangeDirtySigned, SameChunksSigned DEF SnapshotChange
<1>4. ASSUME NEW o \in Object, WriteChunk(o)
      PROVE  blk_ver' \in [Block -> Version] /\ CommittedSigned' /\ MemorySigned'
  <2>1. Ver \in Version /\ Newer(Ver, committed.ver)
    BY <1>4 DEF TableFacts, WriteChunk
  <2> QED
    BY <1>4, <2>1, WriteChunkSigned
<1>5. ASSUME WriteChunksDone
      PROVE  CommittedSigned' /\ MemorySigned'
  BY <1>5, WriteChunksDoneSigned DEF TableFacts
<1>6. ASSUME CommitHead
      PROVE  CommittedSigned' /\ MemorySigned'
  <2>1. \A o \in DOMAIN base_t : ~ Newer(base_t[o].v, Ver)
    BY <1>6 DEF TableFacts, CommitHead, WriteHead
  <2> QED
    BY <1>6, <2>1, CommitHeadSigned
<1>7. ASSUME Failure
      PROVE  CommittedSigned' /\ MemorySigned'
  BY <1>7, FailureSigned DEF TableFacts
<1>8. ASSUME StartSync \/ TablesOnly
      PROVE  CommittedSigned' /\ MemorySigned'
  BY <1>8, SameChunksSigned
<1>9. ASSUME UNCHANGED allvars
      PROVE  CommittedSigned' /\ MemorySigned'
  <2>1. /\ UNCHANGED <<pc, base_t, dirty, committed, sync_count, raw_exsb>>
        /\ UNCHANGED <<page, blk, blk_ver, d_page, dirty_chunks, inplace>>
    BY <1>9 DEF allvars, vars, mem, cow
  <2>2. CommittedSigned'
    BY <2>1, SameCommitted DEF SigInv
  <2>3. \A o : /\ Unreadable(base_t, o)' <=> Unreadable(base_t, o)
               /\ Signature(o)' = Signature(o)
    BY <2>1 DEF Unreadable, Signature, Ver
  <2>4. MemorySigned'
    BY <2>1, <2>3 DEF SigInv, MemorySigned
  <2> QED
    BY <2>2, <2>4
<1>10. CommittedSigned' /\ MemorySigned'
  BY <1>1, <1>3, <1>4, <1>5, <1>6, <1>7, <1>8, <1>9 DEF SnapshotNext
<1>11. blk_ver' \in [Block -> Version]
  <2>1. blk_ver' = blk_ver \/ \E o \in Object : WriteChunk(o)
    BY Zenon DEF SnapshotNext, BuildManager, SnapshotChange, AddChunk, ChangeDirty, ExpandFile,
           GrowArea, StartSync, WriteChunksDone, TablesOnly, CommitHead, Failure, allvars
  <2> QED
    BY <1>4, <2>1 DEF SigInv
<1> QED
  BY <1>2, <1>10, <1>11
================================================================================
