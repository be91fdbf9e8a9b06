----------------------------- MODULE CowMetaProofs -----------------------------
(* Proofs about CowMeta, for any set of chunks and blocks and any first layout *)
(* of the metadata area: type correctness, and that the committed snapshot     *)
(* stays intact until the next commit.                                         *)
EXTENDS CowMeta, FiniteSetTheorems, TLAPS

\* A chunk that is not dirty while changes are collected is where the last
\* commit has it.
CleanIsDurable ==
    pc = "idle" => \A o \in DOMAIN table \ dirty :
       o \in DOMAIN d_table /\ table[o] = d_table[o]

\* A dirty chunk has a block that the committed snapshot does not use, unless it
\* was left in place.
DirtyIsMoved ==
    pc \in {"idle", "write"} => \A o \in dirty \ inplace : table[o] \notin Range(d_table)

\* A chunk changed in place is a chunk of the committed snapshot, and dirty until
\* it is written.
InplaceIsDurable ==
    /\ pc = "idle" => inplace \subseteq dirty
    /\ \A o \in inplace : /\ o \in DOMAIN d_table
                          /\ o \in DOMAIN table
                          /\ table[o] = d_table[o]

\* What is not dirty is on the disk.
CleanIsWritten ==
    pc \in {"idle", "write", "commit"} =>
       \A o \in DOMAIN table \ dirty : page[o] # Garbage => blk[table[o]] = page[o]

\* Between vdfs4_update_bitmaps and the end of the commit nothing is dirty or
\* moved, and both bitmaps have the blocks of the tables in memory.
CommitIsClean ==
    pc = "commit" => /\ dirty = {}
                     /\ moved_iblock = {}
                     /\ next_snapshot_bitmap = Range(table)
                     /\ snapshot_bitmap = Range(table)

\* Memory is lost when the volume is not mounted.
DownIsDurable ==
    pc = "down" => table = d_table /\ meta = d_meta /\ inplace = {}

\* The inductive invariant.
CowInv ==
    /\ TypeOK
    /\ BitmapsExact
    /\ WithinArea
    /\ MovedIsDirty
    /\ DurableIntact
    /\ CleanIsDurable
    /\ DirtyIsMoved
    /\ InplaceIsDurable
    /\ CleanIsWritten
    /\ CommitIsClean
    /\ DownIsDurable

--------------------------------------------------------------------------------
USE CowAssumption

\* The state mkfs leaves satisfies the inductive invariant.
LEMMA InitInv == Init => CowInv
<1> SUFFICES ASSUME Init PROVE CowInv
  OBVIOUS
<1>1. TypeOK
  BY DEF Init, TypeOK
<1>2. BitmapsExact
  BY DEF Init, BitmapsExact
<1>3. WithinArea
  BY DEF Init, WithinArea, Range
<1>4. DurableIntact
  BY <1>1 DEF Init, DurableIntact, TypeOK
<1>5. /\ MovedIsDirty /\ CleanIsDurable /\ DirtyIsMoved /\ InplaceIsDurable
      /\ CleanIsWritten /\ CommitIsClean /\ DownIsDurable
  BY DEF Init, MovedIsDirty, CleanIsDurable, DirtyIsMoved, InplaceIsDurable,
         CleanIsWritten, CommitIsClean, DownIsDurable
<1> QED
  BY <1>1, <1>2, <1>3, <1>4, <1>5 DEF CowInv

\* vdfs4_build_snapshot_manager keeps the invariant.
LEMMA MountInv == CowInv /\ Mount => CowInv'
<1> SUFFICES ASSUME CowInv, Mount PROVE CowInv'
  OBVIOUS
<1> USE DEF CowInv, durable
<1>1. TypeOK'
  BY DEF TypeOK, Mount, Range, WithinArea
<1>2. BitmapsExact'
  BY DEF BitmapsExact, Mount, Range
<1>3. WithinArea'
  BY DEF WithinArea, Mount, Range
<1>4. DurableIntact'
  BY DEF DurableIntact, Mount, DownIsDurable
<1>5. CleanIsWritten'
  BY <1>1 DEF CleanIsWritten, Mount, TypeOK
<1>6. (/\ MovedIsDirty /\ CleanIsDurable /\ DirtyIsMoved /\ InplaceIsDurable
       /\ CommitIsClean /\ DownIsDurable)'
  BY DEF Mount, MovedIsDirty, CleanIsDurable, DirtyIsMoved, InplaceIsDurable,
         CommitIsClean, DownIsDurable
<1> QED
  BY <1>1, <1>2, <1>3, <1>4, <1>5, <1>6

\* Moving a chunk before its first change keeps the invariant.
LEMMA AddChunkInv ==
    ASSUME CowInv, NEW o \in Object, NEW v \in Val, NEW b \in Block,
           AddChunk(o, v, b)
    PROVE  CowInv'
<1> USE DEF CowInv, durable, AddChunk, MoveIblock, FreeBlocks
<1>1. o \in DOMAIN d_table /\ table[o] = d_table[o]
  BY DEF CleanIsDurable
<1>2. TypeOK'
  BY DEF TypeOK
<1>3. b \notin Range(table) \/ (b = table[o] /\ table' = table)
  BY DEF TypeOK, BitmapsExact
<1>4. IsInjective(table')
  BY <1>3 DEF TypeOK, BitmapsExact, IsInjective, Range
<1>5. Range(table') = (Range(table) \ {table[o]}) \cup {b}
  BY <1>3 DEF TypeOK, BitmapsExact, IsInjective, Range
<1>6. BitmapsExact'
  <2>1. table[o] \in Range(d_table) /\ table[o] \in Range(table)
    BY <1>1 DEF Range
  <2>2. next_snapshot_bitmap' = Range(table')
    BY <1>3, <1>5, <2>1 DEF BitmapsExact
  <2>3. snapshot_bitmap' = Range(table') \cup Range(d_table)
    BY <1>3, <1>5, <2>1 DEF BitmapsExact
  <2> QED
    BY <1>4, <2>2, <2>3 DEF BitmapsExact
<1>7. WithinArea'
  BY <1>5 DEF WithinArea, Range
<1>8. MovedIsDirty'
  BY DEF MovedIsDirty, TypeOK
<1>9. DurableIntact'
  BY DEF DurableIntact, InplaceIsDurable
<1>10. CleanIsDurable'
  BY DEF CleanIsDurable, TypeOK
<1>11. DirtyIsMoved'
  BY DEF DirtyIsMoved, TypeOK, BitmapsExact
<1>12. InplaceIsDurable'
  BY <1>1 DEF InplaceIsDurable, TypeOK
<1>13. CleanIsWritten'
  BY DEF CleanIsWritten, TypeOK
<1>14. CommitIsClean' /\ DownIsDurable'
  BY DEF CommitIsClean, DownIsDurable
<1> QED
  BY <1>2, <1>6, <1>7, <1>8, <1>9, <1>10, <1>11, <1>12, <1>13, <1>14

\* Changing a dirty chunk again keeps the invariant.
LEMMA ChangeDirtyInv ==
    ASSUME CowInv, NEW o \in Object, NEW v \in Val, ChangeDirty(o, v)
    PROVE  CowInv'
<1> USE DEF CowInv, durable, bitmaps, ChangeDirty
<1>1. TypeOK'
  BY DEF TypeOK
<1>2. BitmapsExact' /\ WithinArea' /\ MovedIsDirty'
  BY DEF BitmapsExact, WithinArea, MovedIsDirty
<1>3. DurableIntact' /\ CleanIsDurable' /\ DirtyIsMoved' /\ InplaceIsDurable'
  BY DEF DurableIntact, CleanIsDurable, DirtyIsMoved, InplaceIsDurable
<1>4. CleanIsWritten'
  BY DEF CleanIsWritten, TypeOK
<1>5. CommitIsClean' /\ DownIsDurable'
  BY DEF CommitIsClean, DownIsDurable
<1> QED
  BY <1>1, <1>2, <1>3, <1>4, <1>5

\* Growing a special file, and the area with it, keeps the invariant.
LEMMA CheckPageOffsetInv ==
    ASSUME CowInv, NEW o \in Object, NEW v \in Val, NEW b \in Block,
           NEW B \in SUBSET Block, CheckPageOffset(o, v, b, B)
    PROVE  CowInv'
<1> USE DEF CowInv, durable, CheckPageOffset, ExpandArea, Insert
<1>1. o \notin DOMAIN table /\ o \notin dirty /\ o \notin inplace
  BY DEF TypeOK, InplaceIsDurable
<1>2. TypeOK'
  BY DEF TypeOK
<1>3. b \notin Range(table) /\ b \notin Range(d_table)
  BY DEF BitmapsExact
<1>4. IsInjective(table')
  BY <1>3 DEF TypeOK, BitmapsExact, IsInjective, Range
<1>5. Range(table') = Range(table) \cup {b}
  <2>1. \A x \in DOMAIN table : x # o /\ table'[x] = table[x]
    BY <1>1 DEF TypeOK
  <2>2. DOMAIN table' = DOMAIN table \cup {o} /\ table'[o] = b
    OBVIOUS
  <2> HIDE DEF CheckPageOffset
  <2> QED
    BY <2>1, <2>2 DEF Range
<1>6. BitmapsExact'
  <2>1. /\ snapshot_bitmap' = snapshot_bitmap \cup {b}
        /\ next_snapshot_bitmap' = next_snapshot_bitmap \cup {b}
        /\ pc' = pc
        /\ d_table' = d_table
    OBVIOUS
  <2> HIDE DEF CheckPageOffset
  <2> QED
    BY <1>4, <1>5, <2>1 DEF BitmapsExact
<1>7. WithinArea'
  BY <1>5 DEF WithinArea, Range
<1>8. MovedIsDirty'
  <2>1. \A x \in dirty : x # o /\ table'[x] = table[x]
    BY <1>1 DEF TypeOK
  <2>2. table'[o] = b
    OBVIOUS
  <2>3. dirty' = dirty \cup {o} /\ moved_iblock' = moved_iblock \cup {b} /\ pc = "idle"
    OBVIOUS
  <2> HIDE DEF CheckPageOffset
  <2> QED
    BY <2>1, <2>2, <2>3 DEF MovedIsDirty
<1>9. DurableIntact'
  BY <1>1 DEF DurableIntact
<1>10. CleanIsDurable'
  BY DEF CleanIsDurable, TypeOK
<1>11. DirtyIsMoved'
  BY <1>1, <1>3 DEF DirtyIsMoved, TypeOK
<1>12. InplaceIsDurable'
  BY <1>1 DEF InplaceIsDurable, TypeOK
<1>13. CleanIsWritten'
  BY DEF CleanIsWritten, TypeOK
<1>14. CommitIsClean' /\ DownIsDurable'
  BY DEF CommitIsClean, DownIsDurable
<1> QED
  BY <1>2, <1>6, <1>7, <1>8, <1>9, <1>10, <1>11, <1>12, <1>13, <1>14

\* Growing the area alone keeps the invariant.
LEMMA CheckMetaSpaceInv ==
    ASSUME CowInv, NEW B \in SUBSET Block, CheckMetaSpace(B)
    PROVE  CowInv'
<1> USE DEF CowInv, durable, bitmaps, CheckMetaSpace, ExpandArea
<1>1. TypeOK' /\ WithinArea'
  BY DEF TypeOK, WithinArea
<1>2. BitmapsExact' /\ MovedIsDirty' /\ DurableIntact' /\ CleanIsDurable'
  BY DEF BitmapsExact, MovedIsDirty, DurableIntact, CleanIsDurable
<1>3. DirtyIsMoved' /\ InplaceIsDurable' /\ CleanIsWritten'
  BY DEF DirtyIsMoved, InplaceIsDurable, CleanIsWritten
<1>4. CommitIsClean' /\ DownIsDurable'
  BY DEF CommitIsClean, DownIsDurable
<1> QED
  BY <1>1, <1>2, <1>3, <1>4

\* The start of a commit keeps the invariant.
LEMMA SyncMetadataInv == CowInv /\ SyncMetadata => CowInv'
<1> SUFFICES ASSUME CowInv, SyncMetadata PROVE CowInv'
  OBVIOUS
<1> USE DEF CowInv, durable, bitmaps, SyncMetadata
<1>1. TypeOK' /\ WithinArea'
  BY DEF TypeOK, WithinArea
<1>2. BitmapsExact' /\ MovedIsDirty' /\ DurableIntact' /\ CleanIsDurable'
  BY DEF BitmapsExact, MovedIsDirty, DurableIntact, CleanIsDurable
<1>3. DirtyIsMoved' /\ InplaceIsDurable' /\ CleanIsWritten'
  BY DEF DirtyIsMoved, InplaceIsDurable, CleanIsWritten
<1>4. CommitIsClean' /\ DownIsDurable'
  BY DEF CommitIsClean, DownIsDurable
<1> QED
  BY <1>1, <1>2, <1>3, <1>4

\* Writing a chunk changes no block of the committed snapshot, except the block
\* of a chunk that was left in place.
LEMMA WriteChunkInv ==
    ASSUME CowInv, NEW o \in Object, WriteChunk(o)
    PROVE  CowInv'
<1> USE DEF CowInv, durable, bitmaps, WriteChunk
<1>1. TypeOK' /\ WithinArea'
  BY DEF TypeOK, WithinArea
<1>2. BitmapsExact' /\ MovedIsDirty' /\ CleanIsDurable'
  BY DEF BitmapsExact, MovedIsDirty, CleanIsDurable
<1>3. DurableIntact'
  <2> SUFFICES ASSUME NEW x \in DOMAIN d_table, d_page[x] # Garbage,
                      x \notin inplace \ dirty'
               PROVE  blk'[d_table[x]] = d_page[x]
    BY DEF DurableIntact
  <2>1. blk[d_table[x]] = d_page[x]
    BY DEF DurableIntact
  <2>2. CASE o \in inplace
    <3>1. table[o] = d_table[o] /\ o \in DOMAIN d_table /\ x # o
      BY <2>2 DEF InplaceIsDurable
    <3>2. d_table[x] # table[o]
      BY <3>1 DEF BitmapsExact, IsInjective
    <3> QED
      BY <2>1, <3>2 DEF TypeOK
  <2>3. CASE o \notin inplace
    <3>1. d_table[x] # table[o]
      BY <2>3 DEF DirtyIsMoved, Range
    <3> QED
      BY <2>1, <3>1 DEF TypeOK
  <2> QED
    BY <2>2, <2>3
<1>4. DirtyIsMoved' /\ InplaceIsDurable'
  BY DEF DirtyIsMoved, InplaceIsDurable
<1>5. CleanIsWritten'
  BY DEF CleanIsWritten, TypeOK, BitmapsExact, IsInjective
<1>6. CommitIsClean' /\ DownIsDurable'
  BY DEF CommitIsClean, DownIsDurable
<1> QED
  BY <1>1, <1>2, <1>3, <1>4, <1>5, <1>6

\* vdfs4_update_bitmaps keeps the invariant.
LEMMA UpdateBitmapsInv == CowInv /\ UpdateBitmaps => CowInv'
<1> SUFFICES ASSUME CowInv, UpdateBitmaps PROVE CowInv'
  OBVIOUS
<1> USE DEF CowInv, durable, UpdateBitmaps
<1>1. TypeOK' /\ WithinArea'
  BY DEF TypeOK, WithinArea
<1>2. BitmapsExact' /\ MovedIsDirty' /\ DurableIntact' /\ CleanIsDurable'
  BY DEF BitmapsExact, MovedIsDirty, DurableIntact, CleanIsDurable
<1>3. DirtyIsMoved' /\ InplaceIsDurable' /\ CleanIsWritten'
  BY DEF DirtyIsMoved, InplaceIsDurable, CleanIsWritten
<1>4. CommitIsClean' /\ DownIsDurable'
  BY DEF CommitIsClean, DownIsDurable, BitmapsExact
<1> QED
  BY <1>1, <1>2, <1>3, <1>4

\* The write of the tables makes the state in memory the committed one.
LEMMA CommitInv == CowInv /\ (Commit \/ LateWriteError) => CowInv'
<1> SUFFICES ASSUME CowInv, Commit \/ LateWriteError PROVE CowInv'
  OBVIOUS
<1> USE DEF CowInv, bitmaps, Commit, LateWriteError, TablesWritten
<1>1. TypeOK' /\ WithinArea'
  BY DEF TypeOK, WithinArea
<1>2. BitmapsExact'
  BY DEF BitmapsExact, CommitIsClean
<1>3. MovedIsDirty'
  BY DEF MovedIsDirty, CommitIsClean
<1>4. DurableIntact'
  BY DEF DurableIntact, CleanIsWritten, CommitIsClean, TypeOK
<1>5. CleanIsDurable' /\ InplaceIsDurable' /\ DirtyIsMoved'
  BY DEF CleanIsDurable, InplaceIsDurable, DirtyIsMoved, CommitIsClean
<1>6. CleanIsWritten' /\ CommitIsClean' /\ DownIsDurable'
  BY DEF CleanIsWritten, CommitIsClean, DownIsDurable
<1> QED
  BY <1>1, <1>2, <1>3, <1>4, <1>5, <1>6

\* A write cut short damages no block of the committed snapshot, except the
\* blocks of chunks that were left in place.
LEMMA TornWriteSpares ==
    ASSUME CowInv, NEW T \in SUBSET Object, TornWrite(T),
           NEW o \in DOMAIN d_table, d_page[o] # Garbage,
           o \notin inplace \ (dirty \ T)
    PROVE  blk'[d_table[o]] = d_page[o]
<1> USE DEF CowInv
<1>1. blk[d_table[o]] = d_page[o]
  BY DEF DurableIntact
<1>2. ASSUME NEW x \in T PROVE table[x] # d_table[o]
  <2>1. x \in dirty /\ pc = "write"
    BY <1>2 DEF TornWrite
  <2>2. CASE x \in inplace
    BY <2>1, <2>2, <1>2 DEF InplaceIsDurable, BitmapsExact, IsInjective
  <2>3. CASE x \notin inplace
    BY <2>1, <2>3 DEF DirtyIsMoved, Range
  <2> QED
    BY <2>2, <2>3
<1> QED
  BY <1>1, <1>2 DEF TornWrite, TypeOK

\* A failed write, after which the volume is read-only, keeps the invariant.
LEMMA WriteErrorInv ==
    ASSUME CowInv, NEW T \in SUBSET Object, WriteError(T)
    PROVE  CowInv'
<1> USE DEF CowInv, durable, bitmaps, WriteError
<1>1. TypeOK' /\ WithinArea'
  BY DEF TypeOK, WithinArea, TornWrite
<1>2. BitmapsExact' /\ MovedIsDirty' /\ CleanIsDurable'
  BY DEF BitmapsExact, MovedIsDirty, CleanIsDurable
<1>3. DurableIntact'
  BY TornWriteSpares DEF DurableIntact
<1>4. DirtyIsMoved' /\ InplaceIsDurable' /\ CleanIsWritten'
  BY DEF DirtyIsMoved, InplaceIsDurable, CleanIsWritten
<1>5. CommitIsClean' /\ DownIsDurable'
  BY DEF CommitIsClean, DownIsDurable
<1> QED
  BY <1>1, <1>2, <1>3, <1>4, <1>5

\* A crash keeps the invariant: what it may have damaged is known to be lost.
LEMMA CrashInv ==
    ASSUME CowInv, NEW T \in SUBSET Object, Crash(T)
    PROVE  CowInv'
<1> USE DEF CowInv, Crash
<1>1. TypeOK' /\ WithinArea'
  BY DEF TypeOK, WithinArea, TornWrite
<1>2. BitmapsExact' /\ MovedIsDirty' /\ CleanIsDurable'
  BY DEF BitmapsExact, MovedIsDirty, CleanIsDurable
<1>3. DurableIntact'
  <2> SUFFICES ASSUME NEW o \in DOMAIN d_table, d_page'[o] # Garbage
               PROVE  blk'[d_table[o]] = d_page'[o]
    BY DEF DurableIntact
  <2>1. o \notin inplace \ (dirty \ T) /\ d_page'[o] = d_page[o]
    OBVIOUS
  <2> QED
    BY <2>1, TornWriteSpares
<1>4. DirtyIsMoved' /\ InplaceIsDurable' /\ CleanIsWritten'
  BY DEF DirtyIsMoved, InplaceIsDurable, CleanIsWritten
<1>5. CommitIsClean' /\ DownIsDurable'
  BY DEF CommitIsClean, DownIsDurable
<1> QED
  BY <1>1, <1>2, <1>3, <1>4, <1>5

\* Nothing changes in a stuttering step.
LEMMA StutterInv == CowInv /\ UNCHANGED vars => CowInv'
BY DEF CowInv, vars, bitmaps, durable, TypeOK, BitmapsExact, WithinArea,
       MovedIsDirty, DurableIntact, CleanIsDurable, DirtyIsMoved,
       InplaceIsDurable, CleanIsWritten, CommitIsClean, DownIsDurable

\* Every step keeps the inductive invariant.
LEMMA CowNext == CowInv /\ [Next]_vars => CowInv'
<1> SUFFICES ASSUME CowInv, [Next]_vars PROVE CowInv'
  OBVIOUS
<1>1. CASE Mount
  BY <1>1, MountInv
<1>2. CASE \E o \in Object, v \in Val, b \in Block : AddChunk(o, v, b)
  BY <1>2, AddChunkInv
<1>3. CASE \E o \in Object, v \in Val : ChangeDirty(o, v)
  BY <1>3, ChangeDirtyInv
<1>4. CASE \E o \in Object, v \in Val, b \in Block, B \in SUBSET Block :
             CheckPageOffset(o, v, b, B)
  BY <1>4, CheckPageOffsetInv
<1>5. CASE \E B \in SUBSET Block : CheckMetaSpace(B)
  BY <1>5, CheckMetaSpaceInv
<1>6. CASE SyncMetadata
  BY <1>6, SyncMetadataInv
<1>7. CASE \E o \in Object : WriteChunk(o)
  BY <1>7, WriteChunkInv
<1>8. CASE UpdateBitmaps
  BY <1>8, UpdateBitmapsInv
<1>9. CASE Commit \/ LateWriteError
  BY <1>9, CommitInv
<1>10. CASE \E T \in SUBSET Object : WriteError(T)
  BY <1>10, WriteErrorInv
<1>11. CASE \E T \in SUBSET Object : Crash(T)
  BY <1>11, CrashInv
<1>12. CASE UNCHANGED vars
  BY <1>12, StutterInv
<1> QED
  BY <1>1, <1>2, <1>3, <1>4, <1>5, <1>6, <1>7, <1>8, <1>9, <1>10, <1>11, <1>12
  DEF Next, Change

\* CowInv is an invariant of the copy-on-write metadata area.
THEOREM CowInvariant == Spec => []CowInv
  BY InitInv, CowNext, PTL DEF Spec

\* Every variable keeps its type.
THEOREM TypeCorrect == Spec => []TypeOK
<1>1. CowInv => TypeOK
  BY DEF CowInv
<1> QED
  BY CowInvariant, <1>1, PTL

\* The blocks of the committed snapshot keep their content until the next
\* commit, whatever the commit in progress, an error or a crash writes; only a
\* chunk changed in place is lost.
THEOREM CommittedSnapshotIntact == Spec => []DurableIntact
<1>1. CowInv => DurableIntact
  BY DEF CowInv
<1> QED
  BY CowInvariant, <1>1, PTL

\* No block is leaked or shared: the bitmaps are exactly the blocks of the
\* tables, and no two chunks have the same block.
THEOREM BitmapsCorrect == Spec => []BitmapsExact
<1>1. CowInv => BitmapsExact
  BY DEF CowInv
<1> QED
  BY CowInvariant, <1>1, PTL

\* A chunk is moved once per commit: between two commits the blocks set aside
\* by moves are exactly blocks of dirty chunks.
THEOREM MovesCorrect == Spec => []MovedIsDirty
<1>1. CowInv => MovedIsDirty
  BY DEF CowInv
<1> QED
  BY CowInvariant, <1>1, PTL

\* Every block that the tables in memory or the committed tables name is in the
\* metadata area they belong to.
THEOREM AreaHoldsTables == Spec => []WithinArea
<1>1. CowInv => WithinArea
  BY DEF CowInv
<1> QED
  BY CowInvariant, <1>1, PTL

--------------------------------------------------------------------------------
\* An injective function has as many values as arguments.
LEMMA RangeCardinality ==
    ASSUME NEW f, IsInjective(f), IsFiniteSet(DOMAIN f), f \in [DOMAIN f -> Range(f)]
    PROVE  IsFiniteSet(Range(f)) /\ Cardinality(Range(f)) = Cardinality(DOMAIN f)
<1>1. f \in Bijection(DOMAIN f, Range(f))
  BY DEF Bijection, Injection, Surjection, Range
<1> QED
  BY <1>1, FS_Bijection DEF ExistsBijection

\* cow_blocks counts the blocks taken by moves, and the area only grows between
\* commits.
CountInv ==
    /\ d_meta \subseteq meta
    /\ pc = "idle" =>
          Cardinality(snapshot_bitmap) = Cardinality(DOMAIN table) + cow_blocks
    /\ pc = "commit" => cow_blocks = 0

\* Every step keeps the count.
LEMMA CountNext == CowInv /\ CowInv' /\ CountInv /\ [Next]_vars => CountInv'
<1> SUFFICES ASSUME CowInv, CowInv', CountInv, [Next]_vars PROVE CountInv'
  OBVIOUS
<1> USE DEF CowInv, CountInv, durable, bitmaps
<1>1. /\ IsFiniteSet(DOMAIN table) /\ IsFiniteSet(DOMAIN d_table)
      /\ IsFiniteSet(snapshot_bitmap)
  BY FS_Subset DEF TypeOK
<1>2. /\ Cardinality(DOMAIN table) \in Nat /\ Cardinality(DOMAIN d_table) \in Nat
      /\ Cardinality(snapshot_bitmap) \in Nat /\ cow_blocks \in Nat
  BY <1>1, FS_CardinalityType DEF TypeOK
<1>3. CASE Mount
  <2>1. d_table \in [DOMAIN d_table -> Range(d_table)]
    BY DEF TypeOK, Range
  <2>2. Cardinality(Range(d_table)) = Cardinality(DOMAIN d_table)
    BY <1>1, <2>1, RangeCardinality DEF BitmapsExact
  <2> QED
    BY <1>2, <1>3, <2>2 DEF Mount
<1>4. ASSUME NEW o \in Object, NEW v \in Val, NEW b \in Block, AddChunk(o, v, b)
      PROVE  CountInv'
  <2> USE <1>4 DEF AddChunk, MoveIblock, FreeBlocks
  <2>1. DOMAIN table' = DOMAIN table
    BY DEF TypeOK
  <2>2. CASE b \in FreeBlocks /\ snapshot_bitmap' = snapshot_bitmap \cup {b}
             /\ cow_blocks' = cow_blocks + 1
    <3>1. Cardinality(snapshot_bitmap') = Cardinality(snapshot_bitmap) + 1
      BY <1>1, <2>2, FS_AddElement
    <3> QED
      BY <1>2, <2>1, <2>2, <3>1
  <2>3. CASE snapshot_bitmap' = snapshot_bitmap /\ cow_blocks' = cow_blocks
    BY <2>1, <2>3
  <2> QED
    BY <2>2, <2>3
<1>5. CASE \E o \in Object, v \in Val : ChangeDirty(o, v)
  BY <1>5 DEF ChangeDirty
<1>6. ASSUME NEW o \in Object, NEW v \in Val, NEW b \in Block,
             NEW B \in SUBSET Block, CheckPageOffset(o, v, b, B)
      PROVE  CountInv'
  <2> USE <1>6 DEF CheckPageOffset, ExpandArea, Insert
  <2>1. /\ DOMAIN table' = DOMAIN table \cup {o} /\ o \notin DOMAIN table
        /\ snapshot_bitmap' = snapshot_bitmap \cup {b} /\ b \notin snapshot_bitmap
    OBVIOUS
  <2>2. /\ Cardinality(DOMAIN table') = Cardinality(DOMAIN table) + 1
        /\ Cardinality(snapshot_bitmap') = Cardinality(snapshot_bitmap) + 1
    BY <1>1, <2>1, FS_AddElement
  <2> QED
    BY <1>2, <2>2
<1>7. CASE \E B \in SUBSET Block : CheckMetaSpace(B)
  BY <1>7 DEF CheckMetaSpace, ExpandArea
<1>8. CASE SyncMetadata \/ UpdateBitmaps \/ \E o \in Object : WriteChunk(o)
  BY <1>8 DEF SyncMetadata, UpdateBitmaps, WriteChunk
<1>9. CASE Commit \/ LateWriteError
  <2>1. table \in [DOMAIN table -> Range(table)]
    BY DEF TypeOK, Range
  <2>2. Cardinality(Range(table)) = Cardinality(DOMAIN table)
    BY <1>1, <2>1, RangeCardinality DEF BitmapsExact
  <2> QED
    BY <1>2, <1>9, <2>2 DEF Commit, LateWriteError, TablesWritten, CommitIsClean
<1>10. CASE \E T \in SUBSET Object : WriteError(T) \/ Crash(T)
  BY <1>10 DEF WriteError, Crash
<1>11. CASE UNCHANGED vars
  BY <1>11 DEF vars
<1> QED
  BY <1>3, <1>4, <1>5, <1>6, <1>7, <1>8, <1>9, <1>10, <1>11 DEF Next, Change

\* The estimate that is_lackage_meta_free_blocks_to_use makes without looking at
\* the bitmap is the exact number of free blocks.
THEOREM LackageEstimateCorrect == Spec => []LackageEstimateExact
<1>1. Init => CountInv
  BY DEF Init, CountInv
<1>2. CowInv /\ CountInv => LackageEstimateExact
  <2> SUFFICES ASSUME CowInv, CountInv, pc = "idle"
               PROVE  MetaAreaFreeBlocks - cow_blocks
                        = Cardinality(meta \ snapshot_bitmap)
    BY DEF LackageEstimateExact
  <2>1. IsFiniteSet(meta) /\ IsFiniteSet(DOMAIN table) /\ IsFiniteSet(snapshot_bitmap)
    BY FS_Subset DEF CowInv, TypeOK
  <2>2. meta \cap snapshot_bitmap = snapshot_bitmap
    BY DEF CowInv, CountInv, BitmapsExact, WithinArea
  <2>3. Cardinality(meta \ snapshot_bitmap)
          = Cardinality(meta) - Cardinality(snapshot_bitmap)
    BY <2>1, <2>2, FS_Difference
  <2>4. /\ Cardinality(meta) \in Nat /\ Cardinality(DOMAIN table) \in Nat
        /\ Cardinality(snapshot_bitmap) \in Nat /\ cow_blocks \in Nat
    BY <2>1, FS_CardinalityType DEF CowInv, TypeOK
  <2> QED
    BY <2>3, <2>4 DEF CountInv, MetaAreaFreeBlocks
<1> QED
  BY <1>1, <1>2, CountNext, CowInvariant, PTL DEF Spec
================================================================================
