---------------------------- MODULE SnapshotProofs -----------------------------
(* Theorems about Snapshot: the translation tables and the metadata area move    *)
(* together as CowMeta has them move, and whatever a crash interrupts, a mount   *)
(* reads every chunk of the last commit with its content and its version.        *)
EXTENDS SnapshotInv, TransTablesProofs

\* The proofs about the metadata area, under the mapping of Snapshot.
P == INSTANCE CowMetaProofs
        WITH table <- Blocks(IF Stopped THEN committed.table ELSE base_t),
             meta <- IF Stopped THEN committed.meta ELSE raw_exsb.meta,
             d_table <- Blocks(committed.table),
             d_meta <- committed.meta,
             dirty <- dirty_chunks,
             pc <- CowPc

\* The inductive invariant.
SnapInv ==
    /\ TablesInv
    /\ P!CowInv
    /\ blk_ver \in [Block -> Version]
    /\ CommittedSigned
    /\ MemorySigned

--------------------------------------------------------------------------------
(* The metadata area.                                                           *)

LEMMA CowFinite == ASSUME NEW S PROVE P!IsFiniteSet(S) <=> IsFiniteSet(S)
BY DEF P!IsFiniteSet, IsFiniteSet

LEMMA CowInjective == ASSUME NEW f PROVE P!IsInjective(f) <=> IsInjective(f)
BY DEF P!IsInjective, IsInjective

\* The assumptions of CowMeta are met.
LEMMA CowAssumed ==
    /\ P!IsFiniteSet(Object) /\ P!IsFiniteSet(Block) /\ P!IsInjective(InitTable)
    /\ DOMAIN InitTable \subseteq Object /\ InitMeta \subseteq Block
    /\ SpaceBitmap \subseteq Object /\ InitTable \in [DOMAIN InitTable -> InitMeta]
    /\ Garbage \notin Val /\ InitVal \in Val
BY ConstantsAssumption, SnapshotAssumption, CowFinite, CowInjective

\* The steps of the metadata area keep its invariant.
LEMMA CowStep ==
    ASSUME P!CowInv, [P!Next]_(P!vars)
    PROVE  P!CowInv'
BY CowAssumed, P!CowNext

LEMMA CowStart == P!Init => P!CowInv
BY CowAssumed, P!InitInv

\* The two instances of CowMeta are one.
LEMMA SameArea ==
    /\ Cow!Init <=> P!Init
    /\ UNCHANGED Cow!vars => UNCHANGED P!vars
    /\ Cow!Next => P!Next
<1>1. Cow!Init <=> P!Init
  BY DEF Cow!Init, P!Init
<1>2. UNCHANGED Cow!vars => UNCHANGED P!vars
  BY DEF Cow!vars, P!vars, Cow!bitmaps, P!bitmaps, Cow!durable, P!durable
<1>3. Cow!Mount => P!Mount
  BY DEF Cow!Mount, P!Mount, Cow!Range, P!Range, Cow!durable, P!durable
<1>4. ASSUME NEW S
      PROVE  Cow!Cardinality(S) = P!Cardinality(S)
  BY DEF Cow!Cardinality, P!Cardinality
<1>5. ASSUME NEW o, NEW v, NEW b
      PROVE  Cow!AddChunk(o, v, b) => P!AddChunk(o, v, b)
  BY DEF Cow!AddChunk, P!AddChunk, Cow!MoveIblock, P!MoveIblock, Cow!FreeBlocks,
         P!FreeBlocks, Cow!durable, P!durable
<1>6. ASSUME NEW o, NEW v
      PROVE  Cow!ChangeDirty(o, v) => P!ChangeDirty(o, v)
  BY DEF Cow!ChangeDirty, P!ChangeDirty, Cow!bitmaps, P!bitmaps, Cow!durable, P!durable
<1>7. ASSUME NEW o, NEW v, NEW b, NEW B
      PROVE  Cow!CheckPageOffset(o, v, b, B) => P!CheckPageOffset(o, v, b, B)
  BY <1>4 DEF Cow!CheckPageOffset, P!CheckPageOffset, Cow!ExpandSpecialFile,
         P!ExpandSpecialFile, Cow!ExpandArea, P!ExpandArea, Cow!Insert, P!Insert,
         Cow!FreeBlocks, P!FreeBlocks, Cow!MetaAreaFreeBlocks, P!MetaAreaFreeBlocks,
         Cow!durable, P!durable
<1>8. ASSUME NEW B
      PROVE  Cow!CheckMetaSpace(B) => P!CheckMetaSpace(B)
  BY <1>4 DEF Cow!CheckMetaSpace, P!CheckMetaSpace, Cow!ExpandArea, P!ExpandArea,
         Cow!MetaAreaFreeBlocks, P!MetaAreaFreeBlocks, Cow!bitmaps, P!bitmaps,
         Cow!durable, P!durable
<1>9. Cow!SyncMetadata => P!SyncMetadata
  BY DEF Cow!SyncMetadata, P!SyncMetadata, Cow!bitmaps, P!bitmaps, Cow!durable, P!durable
<1>10. ASSUME NEW o
       PROVE  Cow!WriteChunk(o) => P!WriteChunk(o)
  BY DEF Cow!WriteChunk, P!WriteChunk, Cow!bitmaps, P!bitmaps, Cow!durable, P!durable
<1>11. Cow!UpdateBitmaps => P!UpdateBitmaps
  BY DEF Cow!UpdateBitmaps, P!UpdateBitmaps, Cow!durable, P!durable
<1>12. (Cow!Commit => P!Commit) /\ (Cow!LateWriteError => P!LateWriteError)
  BY DEF Cow!Commit, P!Commit, Cow!LateWriteError, P!LateWriteError,
         Cow!TablesWritten, P!TablesWritten, Cow!bitmaps, P!bitmaps
<1>13. ASSUME NEW T
       PROVE  Cow!WriteError(T) => P!WriteError(T)
  BY DEF Cow!WriteError, P!WriteError, Cow!TornWrite, P!TornWrite, Cow!bitmaps,
         P!bitmaps, Cow!durable, P!durable
<1>14. ASSUME NEW T
       PROVE  Cow!Crash(T) => P!Crash(T)
  BY DEF Cow!Crash, P!Crash, Cow!TornWrite, P!TornWrite
<1>15. Cow!Change => P!Change
  BY <1>5, <1>6, <1>7, <1>8 DEF Cow!Change, P!Change
<1>16. Cow!Next => P!Next
  BY <1>3, <1>9, <1>10, <1>11, <1>12, <1>13, <1>14, <1>15 DEF Cow!Next, P!Next
<1> QED
  BY <1>1, <1>2, <1>16

--------------------------------------------------------------------------------
(* What the metadata area says of the tables.                                   *)

\* The blocks of the last commit.
LEMMA CommittedFacts ==
    ASSUME P!CowInv
    PROVE  CommittedArea
<1>1. /\ DOMAIN Blocks(committed.table) = DOMAIN committed.table
      /\ \A o \in DOMAIN committed.table :
            Blocks(committed.table)[o] = committed.table[o].b
  BY DEF Blocks
<1>2. P!TypeOK /\ P!IsInjective(Blocks(committed.table)) /\ P!InplaceIsDurable
  BY DEF P!CowInv, P!BitmapsExact
<1>3. /\ Blocks(committed.table) \in [DOMAIN Blocks(committed.table) -> Block]
      /\ d_page \in [DOMAIN Blocks(committed.table) -> Val \cup {Garbage}]
      /\ blk \in [Block -> Val \cup {Garbage}]
      /\ \A o \in inplace : o \in DOMAIN Blocks(committed.table)
      /\ DOMAIN Blocks(IF Stopped THEN committed.table ELSE base_t) \in SUBSET Object
      /\ dirty_chunks \in SUBSET DOMAIN Blocks(IF Stopped THEN committed.table ELSE base_t)
  BY <1>2 DEF P!TypeOK, P!InplaceIsDurable
<1>4. \A o, p \in DOMAIN committed.table :
         committed.table[o].b = committed.table[p].b => o = p
  BY <1>1, <1>2 DEF P!IsInjective
<1>5. Stopped => inplace = {}
  BY Phases DEF P!CowInv, P!DownIsDurable, Stopped
<1> QED
  BY <1>1, <1>3, <1>4, <1>5 DEF CommittedArea

\* Those of the tables in memory.
LEMMA MemoryFacts ==
    ASSUME P!CowInv
    PROVE  MemoryArea
<1> SUFFICES ASSUME ~ Stopped
             PROVE  MemoryArea
  BY DEF MemoryArea
<1>1. /\ DOMAIN Blocks(committed.table) = DOMAIN committed.table
      /\ \A o \in DOMAIN committed.table :
            Blocks(committed.table)[o] = committed.table[o].b
  BY DEF Blocks
<1>2. /\ DOMAIN Blocks(base_t) = DOMAIN base_t
      /\ \A o \in DOMAIN base_t : Blocks(base_t)[o] = base_t[o].b
  BY DEF Blocks
<1>3. (IF Stopped THEN committed.table ELSE base_t) = base_t
  OBVIOUS
<1>4. P!TypeOK /\ P!BitmapsExact /\ P!InplaceIsDurable /\ P!DirtyIsMoved /\ P!CommitIsClean
  BY DEF P!CowInv
<1>5. /\ Blocks(base_t) \in [DOMAIN Blocks(base_t) -> Block]
      /\ page \in [DOMAIN Blocks(base_t) -> Val \cup {Garbage}]
      /\ dirty_chunks \in SUBSET DOMAIN Blocks(base_t)
  BY <1>3, <1>4 DEF P!TypeOK
<1>6. P!IsInjective(Blocks(base_t))
  BY <1>3, <1>4 DEF P!BitmapsExact
<1>7. \A o, p \in DOMAIN base_t : base_t[o].b = base_t[p].b => o = p
  BY <1>2, <1>6 DEF P!IsInjective
<1>8. /\ CowPc = "idle" => inplace \subseteq dirty_chunks
      /\ \A o \in inplace : /\ o \in DOMAIN Blocks(committed.table)
                            /\ o \in DOMAIN Blocks(base_t)
                            /\ Blocks(base_t)[o] = Blocks(committed.table)[o]
  BY <1>3, <1>4 DEF P!InplaceIsDurable
<1>9. CowPc \in {"idle", "write"} =>
         \A o \in dirty_chunks \ inplace : Blocks(base_t)[o] \notin P!Range(Blocks(committed.table))
  BY <1>3, <1>4 DEF P!DirtyIsMoved
<1>10. CowPc \in {"idle", "write"} =>
          \A o \in dirty_chunks \ inplace : \A p \in DOMAIN committed.table :
             base_t[o].b # committed.table[p].b
  BY <1>1, <1>2, <1>5, <1>9 DEF P!Range
<1>11. CowPc = "commit" => dirty_chunks = {}
  BY <1>4 DEF P!CommitIsClean
<1> QED
  BY <1>1, <1>2, <1>5, <1>7, <1>8, <1>10, <1>11 DEF MemoryArea

--------------------------------------------------------------------------------
(* The inductive invariant is kept.                                             *)

\* The versions of the records and of the running commit.
LEMMA TablesFacts ==
    ASSUME TablesInv, CommittedSigned
    PROVE  TableFacts
<1>1. PICK h \in Halves : InvAt(h)
  BY DEF TablesInv
<1>2. TypeOK /\ Memory(h)
  BY <1>1 DEF InvAt
<1>3. /\ raw_exsb \in Exsb /\ committed.ver \in Version
      /\ \A o \in DOMAIN base_t : base_t[o] \in Record
  BY <1>2 DEF TypeOK, IsTable
<1>4. pc = "mount" => dirty = {}
  BY <1>2 DEF Memory
<1>5. pc \in {"meta", "head"} => Ver \in Version /\ Newer(Ver, committed.ver)
  <2>1. pc \in {"meta", "head"} => pc \in Uncommitted
    BY DEF Uncommitted, Collecting, Writing
  <2>2. pc \in Uncommitted => Mounted
    BY <1>2 DEF Memory
  <2> QED
    BY <1>2, <2>1, <2>2, VerIsNewer
<1>6. pc = "head" => \A o \in DOMAIN base_t : ~ Newer(base_t[o].v, Ver)
  <2> SUFFICES ASSUME pc = "head", NEW o \in DOMAIN base_t
               PROVE  ~ Newer(base_t[o].v, Ver)
    OBVIOUS
  <2>1. Changes /\ \A p \in dirty : base_t[p].v = Ver
    BY <1>2 DEF Memory, Uncommitted, Writing
  <2>2. base_t[o].v \in Version
    BY <1>3 DEF Record
  <2>3. CASE o \in dirty
    BY <1>5, <1>3, <2>1, <2>3, NewerOrder
  <2>4. CASE o \notin dirty
    <3>1. ~ Newer(base_t[o].v, committed.ver)
      BY <2>1, <2>4 DEF Changes, CommittedSigned
    <3> QED
      BY <1>3, <1>5, <2>2, <3>1, NewerOrder
  <2> QED
    BY <2>3, <2>4
<1> QED
  BY <1>3, <1>4, <1>5, <1>6 DEF TableFacts

LEMMA SnapNext ==
    ASSUME Fits, SnapInv, [SnapshotNext]_allvars
    PROVE  SnapInv' /\ [Cow!Next]_(Cow!vars)
<1>1. SigInv
  BY CommittedFacts, MemoryFacts DEF SnapInv, SigInv
<1>2. TableFacts
  BY TablesFacts DEF SnapInv
<1>3. BuildManager => base_t' = committed.table /\ raw_exsb'.meta = committed.meta
  BY BuildsLastCommit DEF SnapInv, BuildManager
<1>4. /\ blk_ver' \in [Block -> Version] /\ CommittedSigned' /\ MemorySigned'
      /\ [Cow!Next]_(Cow!vars)
  BY <1>1, <1>2, <1>3, SigNext
<1>5. TablesInv'
  BY TablesStep, NextInv DEF SnapInv
<1>6. [P!Next]_(P!vars)
  BY <1>4, SameArea
<1>7. P!CowInv'
  BY <1>6, CowStep DEF SnapInv
<1> QED
  BY <1>4, <1>5, <1>7 DEF SnapInv

LEMMA SnapInit ==
    ASSUME Fits, SnapshotInit
    PROVE  SnapInv
<1>1. TablesInv
  BY InitInv, HalvesFit DEF SnapshotInit, TablesInv, Halves
<1>2. P!CowInv
  BY SameArea, CowStart DEF SnapshotInit
<1>3. 0 \in Slots
  BY HalvesFit DEF Halves
<1>4. BasePages(InitTable) \in Nat \ {0}
  BY PagesFit, ConstantsAssumption
<1> QED
  BY <1>1, <1>2, <1>3, <1>4, SigInit DEF SnapInv

--------------------------------------------------------------------------------
(* Theorems.                                                                    *)

\* The inductive invariant of the snapshot manager holds in every reachable state.
THEOREM SnapshotInvariant ==
    ASSUME Room
    PROVE  SnapshotSpec => []SnapInv
<1>1. Fits
  BY RoomFits
<1>2. SnapshotInit => SnapInv
  BY <1>1, SnapInit
<1>3. SnapInv /\ [SnapshotNext]_allvars => SnapInv'
  BY <1>1, SnapNext
<1> QED
  BY <1>2, <1>3, PTL DEF SnapshotSpec

\* Whenever power fails, a mount reads every chunk of the last commit with the
\* content it was committed with and accepts its version, whatever chunk, table
\* or superblock write was under way; a chunk overwritten in place is excepted.
THEOREM MetadataAlwaysSurvives ==
    ASSUME Room
    PROVE  SnapshotSpec => []MetadataSurvives
<1>1. SnapInv => MetadataSurvives
  <2> SUFFICES ASSUME SnapInv
               PROVE  MetadataSurvives
    OBVIOUS
  <2>1. Recovered.table = committed.table
    BY RoomFits, MountFinds DEF SnapInv, RecoveryIsCommitted
  <2>2. /\ DOMAIN Blocks(committed.table) = DOMAIN committed.table
        /\ \A o \in DOMAIN committed.table : Blocks(committed.table)[o] = committed.table[o].b
    BY DEF Blocks
  <2>3. DOMAIN d_page = DOMAIN committed.table
    BY CommittedFacts DEF SnapInv, CommittedArea
  <2>4. \A o \in DOMAIN d_page : d_page[o] # Garbage /\ o \notin inplace \ dirty_chunks =>
           blk[Blocks(committed.table)[o]] = d_page[o]
    BY <2>2, <2>3 DEF SnapInv, P!CowInv, P!DurableIntact
  <2> QED
    BY <2>1, <2>2, <2>3, <2>4 DEF MetadataSurvives, SnapInv, CommittedSigned
<1> QED
  BY <1>1, SnapshotInvariant, PTL

\* The superblock and the tables that a mount finds belong together: the area of
\* the one holds every block that the others name.
THEOREM RecoveredAlwaysInArea ==
    ASSUME Room
    PROVE  SnapshotSpec => []RecoveredInArea
<1>1. SnapInv => RecoveredInArea
  <2> SUFFICES ASSUME SnapInv
               PROVE  RecoveredInArea
    OBVIOUS
  <2>1. Recovered.table = committed.table /\ Recovered.meta = committed.meta
    BY RoomFits, MountFinds DEF SnapInv, RecoveryIsCommitted
  <2>2. /\ DOMAIN Blocks(committed.table) = DOMAIN committed.table
        /\ \A o \in DOMAIN committed.table : Blocks(committed.table)[o] = committed.table[o].b
    BY DEF Blocks
  <2>3. \A o \in DOMAIN committed.table : Blocks(committed.table)[o] \in committed.meta
    BY <2>2 DEF SnapInv, P!CowInv, P!WithinArea, P!Range
  <2> QED
    BY <2>1, <2>2, <2>3 DEF RecoveredInArea
<1> QED
  BY <1>1, SnapshotInvariant, PTL

\* A clean page that the page cache drops can be read again from the block of its
\* record, and the version check of the read accepts it.
THEOREM CleanAlwaysReadable ==
    ASSUME Room
    PROVE  SnapshotSpec => []CleanReadable
<1>1. SnapInv => CleanReadable
  <2> SUFFICES ASSUME SnapInv, pc = "idle"
               PROVE  CleanReadable
    BY DEF CleanReadable
  <2>1. /\ DOMAIN Blocks(base_t) = DOMAIN base_t
        /\ \A o \in DOMAIN base_t : Blocks(base_t)[o] = base_t[o].b
    BY DEF Blocks
  <2>2. ~ Stopped /\ CowPc = "idle" /\ (IF Stopped THEN committed.table ELSE base_t) = base_t
    BY Phases
  <2>3. \A o \in DOMAIN base_t \ dirty_chunks :
           page[o] # Garbage => blk[Blocks(base_t)[o]] = page[o]
    BY <2>1, <2>2 DEF SnapInv, P!CowInv, P!CleanIsWritten
  <2>4. \A o \in DOMAIN base_t \ dirty_chunks :
           page[o] # Garbage => blk_ver[base_t[o].b] = base_t[o].v
    BY DEF SnapInv, MemorySigned, InUse, Signature
  <2> QED
    BY <2>1, <2>3, <2>4 DEF CleanReadable
<1> QED
  BY <1>1, SnapshotInvariant, PTL

\* The snapshot manager implements the metadata area of CowMeta: each of its steps
\* is one of the area's or leaves it alone, so that what a mount reads through the
\* recovered tables and versions is what CowMeta's mount reads.
THEOREM ImplementsCowMeta ==
    ASSUME Room
    PROVE  SnapshotSpec => CowPart
<1>1. Fits
  BY RoomFits
<1>2. SnapshotInit => Cow!Init
  BY DEF SnapshotInit
<1>3. SnapInv /\ [SnapshotNext]_allvars => [Cow!Next]_(Cow!vars)
  BY <1>1, SnapNext
<1> QED
  BY <1>2, <1>3, SnapshotInvariant, PTL DEF SnapshotSpec, CowPart, Cow!Spec
================================================================================
