-------------------------------- MODULE CowMeta --------------------------------
(* Copy-on-write of the metadata area (snapshot.c): the bitmaps that say which *)
(* blocks the committed and the next snapshot use, the move of a chunk to a    *)
(* free block before its first change, the growth of special files and of the  *)
(* area, and the write-out of the changed chunks by a commit.  The write of    *)
(* the translation tables, which TransTables models in detail, is one step.    *)
(*                                                                             *)
(* Every chunk takes one block.  Which free block is taken (the hints and the  *)
(* alignment of get_new_meta_iblock) is left open.                             *)
EXTENDS Integers, FiniteSets, Functions

CONSTANTS Object,     \* metadata chunks
          Block,      \* blocks the metadata area may ever have
          Val,        \* contents of a chunk
          Garbage,    \* content of a block whose write was cut short
          InitTable,  \* translation table written by mkfs: chunk -> block
          InitMeta,   \* metadata area made by mkfs
          SpaceBitmap, \* the chunks of the free space bitmap
          InitVal     \* content of every chunk written by mkfs

ASSUME CowAssumption ==
    /\ IsFiniteSet(Object)
    /\ IsFiniteSet(Block)
    /\ DOMAIN InitTable \subseteq Object
    /\ InitMeta \subseteq Block
    /\ SpaceBitmap \subseteq Object
    /\ InitTable \in [DOMAIN InitTable -> InitMeta]
    /\ IsInjective(InitTable)
    /\ Garbage \notin Val
    /\ InitVal \in Val

VARIABLES table,      \* snapshot->base_t: chunk -> block
          snapshot_bitmap,       \* snapshot->snapshot_bitmap
          next_snapshot_bitmap,  \* snapshot->next_snapshot_bitmap
          moved_iblock,          \* snapshot->moved_iblock
          cow_blocks,            \* snapshot->cow_blocks
          bitmap_blocks,         \* blocks the bitmaps cover (bitmap_size_in_bits)
          meta,       \* metadata area of the exsb in memory (meta, meta_tbc)
          page,       \* page cache: content of every chunk
          dirty,      \* chunks whose pages are dirty
          blk,        \* disk: content of every block
          pc,         \* where the mount or the commit has got to
          d_table,    \* the translation table a mount would find
          d_meta,     \* the metadata area a mount would find
          d_page,     \* history: the contents the last commit stands for,
                      \* Garbage for a chunk that was lost
          inplace     \* history: chunks changed in place since the last commit

bitmaps == <<snapshot_bitmap, next_snapshot_bitmap, moved_iblock, cow_blocks,
             bitmap_blocks>>
durable == <<d_table, d_meta, d_page>>
vars == <<table, bitmaps, meta, page, dirty, blk, pc, durable, inplace>>

Init ==
    /\ table = InitTable
    /\ snapshot_bitmap = {}
    /\ next_snapshot_bitmap = {}
    /\ moved_iblock = {}
    /\ cow_blocks = 0
    /\ bitmap_blocks = {}
    /\ meta = InitMeta
    /\ page = [o \in DOMAIN InitTable |-> InitVal]
    /\ dirty = {}
    /\ blk = [b \in Block |-> InitVal]
    /\ pc = "down"
    /\ d_table = table
    /\ d_meta = meta
    /\ d_page = page
    /\ inplace = {}

--------------------------------------------------------------------------------
\* vdfs4_build_snapshot_manager: both bitmaps start as the blocks of the tables
\* found (build_snapshot_bitmaps); pages are read from their blocks.  A chunk
\* overwritten in place before a crash is refused (see Snapshot).
Mount ==
    /\ pc = "down"
    /\ table' = d_table
    /\ meta' = d_meta
    /\ bitmap_blocks' = d_meta
    /\ snapshot_bitmap' = Range(d_table)
    /\ next_snapshot_bitmap' = Range(d_table)
    /\ moved_iblock' = {}
    /\ cow_blocks' = 0
    /\ page' = [o \in DOMAIN d_table |->
                  IF d_page[o] = Garbage THEN Garbage ELSE blk[d_table[o]]]
    /\ dirty' = {}
    /\ pc' = "idle"
    /\ UNCHANGED <<blk, durable, inplace>>

\* Mutant of FreeBlocks: a block the next snapshot does not use, though the
\* committed one may.
FreeInNext == bitmap_blocks \ next_snapshot_bitmap

\* get_new_meta_iblock: a block free in the committed snapshot and not taken
\* since.
FreeBlocks == bitmap_blocks \ snapshot_bitmap

\* Mutant of MoveIblock: the old block stays taken in the next snapshot.
MoveIblockLeaks(o, b) ==
    /\ moved_iblock' = moved_iblock \cup {b}
    /\ table' = [table EXCEPT ![o] = b]
    /\ \/ /\ b \in FreeBlocks
          /\ snapshot_bitmap' = snapshot_bitmap \cup {b}
          /\ next_snapshot_bitmap' = next_snapshot_bitmap \cup {b}
          /\ cow_blocks' = cow_blocks + 1
          /\ UNCHANGED inplace
       \/ /\ FreeBlocks = {}
          /\ b = table[o]
          /\ inplace' = inplace \cup {o}
          /\ UNCHANGED <<snapshot_bitmap, next_snapshot_bitmap, cow_blocks>>

\* move_iblock: to block b, or to nowhere when the area is full.
MoveIblock(o, b) ==
    /\ moved_iblock' = moved_iblock \cup {b}
    /\ table' = [table EXCEPT ![o] = b]
    /\ \/ /\ b \in FreeBlocks
          /\ snapshot_bitmap' = snapshot_bitmap \cup {b}
          /\ next_snapshot_bitmap' = (next_snapshot_bitmap \cup {b}) \ {table[o]}
          /\ cow_blocks' = cow_blocks + 1
          /\ UNCHANGED inplace
       \/ /\ FreeBlocks = {}
          /\ b = table[o]
          /\ inplace' = inplace \cup {o}
          /\ UNCHANGED <<snapshot_bitmap, next_snapshot_bitmap, cow_blocks>>

\* vdfs4_add_chunk_bnode, vdfs4_add_chunk_bitmap: the first change of a clean
\* chunk moves it, unless its block has been moved to already.
AddChunk(o, v, b) ==
    /\ pc = "idle"
    /\ o \in DOMAIN table \ dirty
    /\ page[o] # Garbage
    /\ table[o] \notin moved_iblock
    /\ MoveIblock(o, b)
    /\ page' = [page EXCEPT ![o] = v]
    /\ dirty' = dirty \cup {o}
    /\ UNCHANGED <<bitmap_blocks, meta, blk, pc, durable>>

\* A dirty chunk is changed again where it is.
ChangeDirty(o, v) ==
    /\ pc = "idle"
    /\ o \in dirty
    /\ page' = [page EXCEPT ![o] = v]
    /\ UNCHANGED <<table, bitmaps, meta, dirty, blk, pc, durable, inplace>>

\* Mutant of MetaAreaFreeBlocks: the last index taken for the number of chunks.
MetaAreaFreeBlocksOff == Cardinality(meta) - (Cardinality(DOMAIN table) - 1)

\* meta_area_free_blocks: does not look at the blocks taken by moves.
MetaAreaFreeBlocks == Cardinality(meta) - Cardinality(DOMAIN table)

\* expand_area: the free space manager gives the blocks of B and marks them in
\* its bitmap, a chunk of which has become dirty in the same transaction.
ExpandArea(B) ==
    /\ B \subseteq Block \ meta
    /\ B # {} => SpaceBitmap \cap dirty # {}
    /\ meta' = meta \cup B

\* expand_special_file: how the area may grow before one more chunk is added.
\* B is empty when it is large enough, or cannot grow but a free block is left.
ExpandSpecialFile(B) ==
    LET short == MetaAreaFreeBlocks - 1 < Cardinality(meta) \div 3
    IN  \/ ~short /\ B = {}
        \/ short /\ B # {}
        \/ short /\ B = {} /\ FreeBlocks # {}

\* insert_new_iblocks: a new entry of the table, or of the page cache.
Insert(f, o, x) == [y \in DOMAIN f \cup {o} |-> IF y = o THEN x ELSE f[y]]

\* vdfs4_check_page_offset of a chunk past the end of its file, and the first
\* vdfs4_add_chunk of the new pages in the same transaction.  The bitmaps are
\* extended to the whole area (expand_translation_tables); the new block must
\* be free in them (insert_new_iblocks).
CheckPageOffset(o, v, b, B) ==
    /\ pc = "idle"
    /\ o \in Object \ DOMAIN table
    /\ ExpandSpecialFile(B)
    /\ ExpandArea(B)
    /\ bitmap_blocks' = meta'
    /\ b \in bitmap_blocks' \ snapshot_bitmap
    /\ snapshot_bitmap' = snapshot_bitmap \cup {b}
    /\ next_snapshot_bitmap' = next_snapshot_bitmap \cup {b}
    /\ moved_iblock' = moved_iblock \cup {b}
    /\ table' = Insert(table, o, b)
    /\ page' = Insert(page, o, v)
    /\ dirty' = dirty \cup {o}
    /\ UNCHANGED <<cow_blocks, blk, pc, durable, inplace>>

\* vdfs4_check_meta_space: the area grows early, the bitmaps do not; or
\* vdfs4_check_page_offset grows the area and then fails to grow the file.
CheckMetaSpace(B) ==
    /\ pc = "idle"
    /\ MetaAreaFreeBlocks <= Cardinality(meta) \div 3
    /\ B # {}
    /\ ExpandArea(B)
    /\ UNCHANGED <<table, bitmaps, page, dirty, blk, pc, durable, inplace>>

--------------------------------------------------------------------------------
\* vdfs4_sync_metadata
SyncMetadata ==
    /\ pc = "idle"
    /\ dirty # {}
    /\ pc' = "write"
    /\ UNCHANGED <<table, bitmaps, meta, page, dirty, blk, durable, inplace>>

\* vdfs4_meta_write: one dirty chunk reaches the block its record names.
WriteChunk(o) ==
    /\ pc = "write"
    /\ o \in dirty
    /\ blk' = [blk EXCEPT ![table[o]] = page[o]]
    /\ dirty' = dirty \ {o}
    /\ UNCHANGED <<table, bitmaps, meta, page, pc, durable, inplace>>

\* Mutant of UpdateBitmaps: moved_iblock is not cleared.
UpdateBitmapsKeepMoved ==
    /\ pc = "write"
    /\ dirty = {}
    /\ snapshot_bitmap' = next_snapshot_bitmap
    /\ cow_blocks' = 0
    /\ pc' = "commit"
    /\ UNCHANGED <<table, next_snapshot_bitmap, moved_iblock, bitmap_blocks, meta,
                   page, dirty, blk, durable, inplace>>

\* vdfs4_update_bitmaps: the next snapshot becomes the current one, before the
\* tables are written.
UpdateBitmaps ==
    /\ pc = "write"
    /\ dirty = {}
    /\ snapshot_bitmap' = next_snapshot_bitmap
    /\ moved_iblock' = {}
    /\ cow_blocks' = 0
    /\ pc' = "commit"
    /\ UNCHANGED <<table, next_snapshot_bitmap, bitmap_blocks, meta, page, dirty,
                   blk, durable, inplace>>

\* Mutant of TablesWritten: the grown area is not committed with the tables.
TablesWithoutArea ==
    /\ d_table' = table
    /\ d_page' = page
    /\ inplace' = {}
    /\ UNCHANGED d_meta

\* The tables reach the disk (see TransTables).
TablesWritten ==
    /\ d_table' = table
    /\ d_meta' = meta
    /\ d_page' = page
    /\ inplace' = {}
Commit ==
    /\ pc = "commit"
    /\ TablesWritten
    /\ pc' = "idle"
    /\ UNCHANGED <<table, bitmaps, meta, page, dirty, blk>>

--------------------------------------------------------------------------------
\* The write of the chunks of T is cut short.
TornWrite(T) ==
    /\ T \subseteq (IF pc = "write" THEN dirty ELSE {})
    /\ blk' = [b \in Block |-> IF \E o \in T : table[o] = b THEN Garbage ELSE blk[b]]

\* vdfs4_fatal_error, after a failed write or an inconsistency met by any
\* operation: the volume is read-only.
WriteError(T) ==
    /\ pc \in {"idle", "write", "commit"}
    /\ TornWrite(T)
    /\ dirty' = dirty \ T
    /\ pc' = "ro"
    /\ UNCHANGED <<table, bitmaps, meta, page, durable, inplace>>

\* The failed table write has reached the disk all the same.
LateWriteError ==
    /\ pc = "commit"
    /\ TablesWritten
    /\ pc' = "ro"
    /\ UNCHANGED <<table, bitmaps, meta, page, dirty, blk>>

\* Power is lost, or the volume is unmounted.  A chunk that was being changed
\* in place is lost if its block has been written.
Crash(T) ==
    /\ pc # "down"
    /\ TornWrite(T)
    /\ pc' = "down"
    /\ table' = d_table
    /\ meta' = d_meta
    /\ d_page' = [o \in DOMAIN d_table |->
                    IF o \in inplace \ (dirty \ T) THEN Garbage ELSE d_page[o]]
    /\ page' = d_page'
    /\ snapshot_bitmap' = {}
    /\ next_snapshot_bitmap' = {}
    /\ moved_iblock' = {}
    /\ cow_blocks' = 0
    /\ bitmap_blocks' = {}
    /\ dirty' = {}
    /\ inplace' = {}
    /\ UNCHANGED <<d_table, d_meta>>

\* What the file system does to the metadata between two commits.
Change ==
    \/ \E o \in Object, v \in Val, b \in Block : AddChunk(o, v, b)
    \/ \E o \in Object, v \in Val : ChangeDirty(o, v)
    \/ \E o \in Object, v \in Val, b \in Block, B \in SUBSET Block :
          CheckPageOffset(o, v, b, B)
    \/ \E B \in SUBSET Block : CheckMetaSpace(B)

Next ==
    \/ Mount
    \/ SyncMetadata
    \/ \E o \in Object : WriteChunk(o)
    \/ UpdateBitmaps \/ Commit
    \/ LateWriteError
    \/ \E T \in SUBSET Object : WriteError(T) \/ Crash(T)
    \/ pc = "idle" /\ Change

Spec == Init /\ [][Next]_vars
--------------------------------------------------------------------------------
TypeOK ==
    /\ DOMAIN table \in SUBSET Object
    /\ table \in [DOMAIN table -> Block]
    /\ snapshot_bitmap \in SUBSET Block
    /\ next_snapshot_bitmap \in SUBSET Block
    /\ moved_iblock \in SUBSET Block
    /\ cow_blocks \in Nat
    /\ bitmap_blocks \in SUBSET Block
    /\ meta \in SUBSET Block
    /\ page \in [DOMAIN table -> Val \cup {Garbage}]
    /\ dirty \in SUBSET DOMAIN table
    /\ blk \in [Block -> Val \cup {Garbage}]
    /\ pc \in {"down", "idle", "write", "commit", "ro"}
    /\ DOMAIN d_table \in SUBSET Object
    /\ d_table \in [DOMAIN d_table -> Block]
    /\ d_meta \in SUBSET Block
    /\ d_page \in [DOMAIN d_table -> Val \cup {Garbage}]
    /\ inplace \in SUBSET Object

\* The blocks of the committed snapshot keep their content until the next
\* commit, whatever is written meanwhile: only a chunk that move_iblock left
\* in its place, the area being full, is lost if a crash follows its write.
DurableIntact ==
    \A o \in DOMAIN d_table :
       d_page[o] # Garbage /\ o \notin inplace \ dirty => blk[d_table[o]] = d_page[o]

\* While changes are collected the bitmaps are exact: next_snapshot_bitmap has
\* the blocks of the tables in memory, snapshot_bitmap those and the ones of
\* the committed tables.  No block is leaked and none is shared.
BitmapsExact ==
    /\ pc \in {"idle", "write"} =>
          /\ next_snapshot_bitmap = Range(table)
          /\ snapshot_bitmap = Range(table) \cup Range(d_table)
    /\ IsInjective(table)
    /\ IsInjective(d_table)

\* The two tests that keep a chunk from being moved twice before a commit, the
\* dirty flag of its pages and the moved_iblock bit of its block, agree.
MovedIsDirty ==
    pc = "idle" => moved_iblock = {table[o] : o \in dirty}

\* Every block a table names is inside the metadata area of the superblock
\* committed with it.
WithinArea ==
    /\ Range(table) \subseteq meta
    /\ Range(d_table) \subseteq d_meta
    /\ bitmap_blocks \subseteq meta

\* The estimate of is_lackage_meta_free_blocks_to_use, which starts a commit
\* when space runs short, is the number of blocks of the area that are free.
LackageEstimateExact ==
    pc = "idle" =>
       MetaAreaFreeBlocks - cow_blocks = Cardinality(meta \ snapshot_bitmap)

\* insert_new_iblocks: "get_new_meta_iblock() cannot return error here, because
\* earlier we checked that there is enough space (expand_special_file)".
InsertFindsBlock ==
    pc = "idle" /\ DOMAIN table # Object =>
       (ExpandSpecialFile({}) => meta \ snapshot_bitmap # {})
================================================================================
