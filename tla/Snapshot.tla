-------------------------------- MODULE Snapshot --------------------------------
(* The snapshot manager as a whole: the translation tables and superblocks of  *)
(* TransTables and the copy-on-write metadata area of CowMeta move together.   *)
(* A commit writes the chunks, then the table, then the superblock; a mount    *)
(* reads chunks through the tables it recovered and rejects a chunk that was   *)
(* not signed with the version its translation record has.                     *)
EXTENDS TransTables, Functions

CONSTANTS Val, Garbage, InitVal  \* as in CowMeta

ASSUME SnapshotAssumption ==
    /\ IsFiniteSet(Block)
    /\ IsInjective(InitTable)
    /\ Garbage \notin Val
    /\ InitVal \in Val

VARIABLES snapshot_bitmap, next_snapshot_bitmap, moved_iblock, cow_blocks,
          bitmap_blocks, page, blk, d_page, inplace,  \* as in CowMeta
          dirty_chunks,   \* chunks whose pages are dirty (dirty of CowMeta)
          blk_ver         \* disk: version a block's content was signed with

cow == <<snapshot_bitmap, next_snapshot_bitmap, moved_iblock, cow_blocks,
         bitmap_blocks, page, blk, d_page, inplace, dirty_chunks>>
allvars == <<vars, cow, blk_ver>>

Blocks(t) == [o \in DOMAIN t |-> t[o].b]
Stopped == pc \in {"down", "mount"}
CowPc == CASE Stopped -> "down"
           [] pc \in {"idle", "fin"} -> "idle"
           [] pc \in {"copy", "meta"} -> "write"
           [] pc \in {"tables", "tail", "head"} -> "commit"
           [] pc = "ro" -> "ro"

Cow == INSTANCE CowMeta
          WITH table <- Blocks(IF Stopped THEN committed.table ELSE base_t),
               meta <- IF Stopped THEN committed.meta ELSE raw_exsb.meta,
               d_table <- Blocks(committed.table),
               d_meta <- committed.meta,
               dirty <- dirty_chunks,
               pc <- CowPc

SnapshotInit ==
    /\ Init
    /\ Cow!Init
    /\ blk_ver = [b \in Block |-> <<0, 1>>]

--------------------------------------------------------------------------------
\* Mutant of ReadPage: the version is not compared.
ReadUnchecked(t, o) == blk[t[o].b]

\* A page read through table t, refused when its version is another one.
ReadPage(t, o) == IF blk_ver[t[o].b] = t[o].v THEN blk[t[o].b] ELSE Garbage

\* The mount builds the bitmaps from the tables it has just loaded, and reads
\* the pages through them.
BuildManager ==
    /\ BuildSnapshotManager
    /\ snapshot_bitmap' = {base_t'[o].b : o \in DOMAIN base_t'}
    /\ next_snapshot_bitmap' = snapshot_bitmap'
    /\ page' = [o \in DOMAIN base_t' |-> ReadPage(base_t', o)]
    /\ bitmap_blocks' = raw_exsb'.meta
    /\ moved_iblock' = {}
    /\ cow_blocks' = 0
    /\ dirty_chunks' = {}
    /\ UNCHANGED <<blk, d_page, inplace, blk_ver>>

AddChunk(o, v, b) ==
    /\ MoveIblock(o, b)
    /\ Cow!AddChunk(o, v, b)
    /\ UNCHANGED blk_ver

ChangeDirty(o, v) ==
    /\ pc = "idle"
    /\ UNCHANGED <<vars, blk_ver>>
    /\ Cow!ChangeDirty(o, v)

ExpandFile(o, v, b, B) ==
    /\ CheckPageOffset(o, b, B)
    /\ Cow!CheckPageOffset(o, v, b, B)
    /\ UNCHANGED blk_ver

GrowArea(B) ==
    /\ CheckMetaSpace(B)
    /\ Cow!CheckMetaSpace(B)
    /\ UNCHANGED blk_ver

\* A chunk is written signed with the version of the running commit.
WriteChunk(o) ==
    /\ pc = "meta"
    /\ UNCHANGED vars
    /\ Cow!WriteChunk(o)
    /\ blk_ver' = [blk_ver EXCEPT ![base_t[o].b] = Ver]

WriteChunksDone ==
    /\ MetaWrite
    /\ Cow!UpdateBitmaps
    /\ UNCHANGED blk_ver

CommitHead ==
    /\ WriteHead
    /\ Cow!Commit
    /\ UNCHANGED blk_ver

\* Steps of the tables and superblocks alone.
TablesOnly ==
    /\ \/ SbRead \/ SyncExsbCopy \/ UpdateTranslationTables
       \/ \E i \in Slots : WriteTail(i)
       \/ FinishSync
    /\ UNCHANGED <<cow, blk_ver>>

StartSync == SyncMetadata /\ Cow!SyncMetadata /\ UNCHANGED blk_ver

Failure ==
    /\ \/ /\ FatalError \/ ExsbWriteError \/ MetaWriteError \/ TableWriteError
          /\ \E T \in SUBSET dirty_chunks : Cow!WriteError(T)
       \/ LateTableWriteError /\ Cow!LateWriteError
       \/ Crash /\ ~Stopped /\ \E T \in SUBSET dirty_chunks : Cow!Crash(T)
       \/ Crash /\ Stopped /\ UNCHANGED cow
    /\ UNCHANGED blk_ver

\* What the file system does to the metadata between two commits.
SnapshotChange ==
    \/ \E o \in Object, v \in Val, b \in raw_exsb.meta : AddChunk(o, v, b)
    \/ \E o \in Object, v \in Val : ChangeDirty(o, v)
    \/ \E o \in Object, v \in Val, B \in SUBSET (Block \ raw_exsb.meta) :
          \E b \in raw_exsb.meta \cup B : ExpandFile(o, v, b, B)
    \/ \E B \in SUBSET (Block \ raw_exsb.meta) : GrowArea(B)

SnapshotNext ==
    \/ BuildManager
    \/ pc = "idle" /\ SnapshotChange
    \/ StartSync
    \/ \E o \in Object : WriteChunk(o)
    \/ WriteChunksDone \/ TablesOnly \/ CommitHead \/ Failure

SnapshotSpec == SnapshotInit /\ [][SnapshotNext]_allvars
--------------------------------------------------------------------------------
\* Whenever power fails, a mount reads every chunk of the last commit with its
\* committed content, and the version in the page is the one the recovered
\* translation record asks for (otherwise vdfs4 refuses the page).  A chunk
\* overwritten in place, the metadata area being full, is the exception.
MetadataSurvives ==
    LET r == Recovered.table
    IN  \A o \in DOMAIN d_page :
           d_page[o] # Garbage /\ o \notin inplace \ dirty_chunks =>
              /\ o \in DOMAIN r
              /\ blk[r[o].b] = d_page[o]
              /\ blk_ver[r[o].b] = r[o].v

\* The metadata area of the recovered superblock holds all blocks that the
\* recovered tables name.
RecoveredInArea ==
    LET r == Recovered
    IN  \A o \in DOMAIN r.table : r.table[o].b \in r.meta

\* A page dropped from the page cache can be read again: the block its record
\* names holds the content and the version last written, while it is clean.
CleanReadable ==
    pc = "idle" =>
       \A o \in DOMAIN base_t \ dirty_chunks :
          page[o] # Garbage =>
             /\ blk[base_t[o].b] = page[o]
             /\ blk_ver[base_t[o].b] = base_t[o].v

\* The composed system behaves as each of its parts.
CowPart == Cow!Spec
================================================================================
