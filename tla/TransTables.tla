------------------------------ MODULE TransTables ------------------------------
(* The on-disk translation tables of the VDFS4 snapshot manager and the        *)
(* extended superblock (exsb) that is committed with them: how a commit writes *)
(* them (snapshot.c, data.c), what a crash leaves behind, and how a mount      *)
(* finds the last committed state again (snapshot.c, super.c).                 *)
(*                                                                             *)
(* The tables area has two halves of Half pages.  A commit writes either a     *)
(* full base table to the start of the half not in use, or one extended table  *)
(* (the records changed since the last commit) to the next page of the half in *)
(* use.  A table carries the version <<mount count, sync count>>.  A metadata  *)
(* chunk (a bnode, or a page of a bitmap) is an Object, its translation record *)
(* is a block of the metadata area and the version the chunk was signed with.  *)
EXTENDS Integers, FiniteSets, FiniteSetsExt

CONSTANTS Object,          \* metadata chunks
          Block,           \* blocks of the metadata area
          InitTable,       \* translation table written by mkfs: chunk -> block
          InitMeta,        \* metadata area made by mkfs
          SpaceBitmap,     \* the chunks of the free space bitmap
          ExtTables,       \* VDFS4_SNAPSHOT_EXT_TABLES
          ExtRecords,      \* records that fit in one extended table page
          RecordsPerPage,  \* base table records per page
          Half,            \* exsb.tables.length / 2
          MaxMount,        \* bound: mounts that commit
          MaxSync          \* bound: commits of each mount

VARIABLES slot,       \* disk: pages of the tables area
          exsb,       \* disk: first extended superblock
          exsb_copy,  \* disk: second extended superblock
          base_t,     \* snapshot->base_t: chunk -> [b, v]
          extended_table,          \* snapshot->extended_table: chunk -> block
          exteneded_table_count,   \* snapshot->exteneded_table_count
          use_base_table,          \* snapshot->use_base_table
          iblock,     \* snapshot->iblock: where the next extended table goes
          sync_count, \* snapshot->sync_count
          raw_exsb,   \* exsb of sbi->raw_superblock
          exsb_dirty, \* flag EXSB_DIRTY
          dirty,      \* chunks counted in snapshot->dirty_pages_count
          pc,         \* where the mount or the commit has got to
          out,        \* the table vdfs4_update_translation_tables is writing
          committed   \* history: table, metadata area and version of the last commit

disk == <<slot, exsb, exsb_copy>>
mem == <<base_t, extended_table, exteneded_table_count, use_base_table, iblock,
         sync_count, raw_exsb, exsb_dirty, dirty, out>>
vars == <<disk, mem, pc, committed>>

Zero == <<0, 0>>
Version == Nat \X Nat
Newer(v, w) == \/ v[1] > w[1]
               \/ v[1] = w[1] /\ v[2] > w[2]

Record == [b : Block, v : Version]
IsTable(t) == DOMAIN t \in SUBSET Object /\ t \in [DOMAIN t -> Record]
IsRecords(t) == DOMAIN t \in SUBSET Object /\ t \in [DOMAIN t -> Block]
NoRecords == [o \in {} |-> 0]

\* Pages of base_t on disk: the head page and the tail pages.
BasePages(t) ==
    (Cardinality(DOMAIN t) + RecordsPerPage - 1) \div RecordsPerPage

ASSUME ConstantsAssumption ==
    /\ IsFiniteSet(Object)
    /\ DOMAIN InitTable \subseteq Object
    /\ DOMAIN InitTable # {}
    /\ InitMeta \subseteq Block
    /\ SpaceBitmap \subseteq Object
    /\ InitTable \in [DOMAIN InitTable -> InitMeta]
    /\ ExtTables \in Nat \ {0}
    /\ ExtRecords \in Nat
    /\ RecordsPerPage \in Nat \ {0}
    /\ Half \in Nat
    /\ MaxMount \in Nat
    /\ MaxSync \in [1 .. MaxMount -> Nat]

Slots == 0 .. 2 * Half - 1

\* A page of the tables area; ok is FALSE when a crash tore its write, so that
\* the checksum fails.
IsPage(p) ==
    /\ p \in [sig : {"none", "base", "tail", "ext"}, ver : Version,
              table : {p.table}, ok : BOOLEAN]
    /\ p.sig \in {"base", "tail"} => IsTable(p.table)
    /\ p.sig \in {"none", "ext"} => IsRecords(p.table)
NoPage == [sig |-> "none", ver |-> Zero, table |-> NoRecords, ok |-> FALSE]
Exsb == [ver : Version, meta : SUBSET Block, ok : BOOLEAN]
NoOut == [base |-> FALSE, at |-> 0, tail |-> {}]

\* Mutant of Ver: the sync count of the superblock in memory, not the running one.
VerOfExsb == raw_exsb.ver

\* The version the running mount signs tables and pages with
\* (vdfs4_generate_version).
Ver == <<raw_exsb.ver[1], sync_count>>

--------------------------------------------------------------------------------
\* What a mount reads

\* vdfs4_verify_exsb
Verify(e) == e.ver # Zero /\ e.ok

\* vdfs4_extended_sb_read: a damaged exsb is replaced by the other one.
ReadExsb(e, c) == IF Verify(e) THEN e ELSE c
ReadExsbCopy(e, c) == IF Verify(c) THEN c ELSE e

\* get_table_version
TableVersion(s, i) == IF s[i].sig = "base" THEN s[i].ver ELSE Zero

\* validate_base_table: the checksum covers the head and every tail page.
ValidBase(s, i) ==
    /\ s[i].sig = "base"
    /\ s[i].ok
    /\ \A k \in 1 .. BasePages(s[i].table) - 1 :
          /\ i + k \in DOMAIN s
          /\ s[i + k].sig = "tail"
          /\ s[i + k].ok
          /\ s[i + k].ver = s[i].ver
          /\ s[i + k].table = s[i].table

\* load_base_table: the half with the newer base table, the opposite one when
\* that table is damaged; -1 when the mount fails.
FirstChoice(s) ==
    IF Newer(TableVersion(s, 0), TableVersion(s, Half)) THEN 0 ELSE Half
LoadBase(s) ==
    LET first == FirstChoice(s)
        opposite == Half - first
    IN  IF TableVersion(s, first) = Zero THEN -1
        ELSE IF ValidBase(s, first) THEN first
        ELSE IF TableVersion(s, opposite) # Zero /\ ValidBase(s, opposite)
        THEN opposite ELSE -1

\* Mutant of ExtFollows: the sync count is not compared.
ExtOfSameMount(s, i, v) ==
    /\ i \in DOMAIN s
    /\ s[i].sig = "ext"
    /\ s[i].ok
    /\ s[i].ver[1] = v[1]

\* validate_extended_table and the version test of the mount loop.
ExtFollows(s, i, v) ==
    /\ i \in DOMAIN s
    /\ s[i].sig = "ext"
    /\ s[i].ok
    /\ s[i].ver = v

\* Mutant of ExtStart: the base table is taken to be one page.
ExtAfterOnePage(s, h) == h + 1

\* How many extended tables vdfs4_build_snapshot_manager replays over the base
\* table of half h, and where the first of them is.
ExtStart(s, h) == h + BasePages(s[h].table)
ExtCount(s, h) ==
    Max({n \in 0 .. ExtTables :
            \A k \in 1 .. n :
               ExtFollows(s, ExtStart(s, h) + k - 1,
                          <<s[h].ver[1], s[h].ver[2] + k>>)})

\* Mutant of Replay: the extended tables are counted but not applied.
ReplayNothing(s, h) == s[h].table

\* parse_extended_table, over all the extended tables replayed: the last one
\* that has a record of the chunk gives its block and its version.
Replay(s, h) ==
    LET ext(k) == s[ExtStart(s, h) + k - 1]
        has(o) == {k \in 1 .. ExtCount(s, h) : o \in DOMAIN ext(k).table}
    IN  [o \in DOMAIN s[h].table |->
            IF has(o) = {} THEN s[h].table[o]
            ELSE LET k == Max(has(o))
                 IN  [b |-> ext(k).table[o], v |-> ext(k).ver]]

\* restore_exsb: which of the two copies the base table of version v belongs to.
SameExsb(e, c) == e.ver = c.ver
UseCopy(e, c, v) == ~ SameExsb(e, c) /\ v = c.ver
DropCopy(e, c, v) == ~ SameExsb(e, c) /\ v # c.ver

\* vdfs4_sync_exsb called from the mount: sync_count is still 0.
Resigned(e) == [e EXCEPT !.ver = <<e.ver[1], 0>>]
RestoredExsb(e, c, v) == IF SameExsb(e, c) THEN e
                         ELSE IF UseCopy(e, c, v) THEN Resigned(c) ELSE Resigned(e)

\* The state a mount would come up with, as a function of the disk alone.
Recovered ==
    LET e == ReadExsb(exsb, exsb_copy)
        c == ReadExsbCopy(exsb, exsb_copy)
        h == LoadBase(slot)
    IN  [table |-> Replay(slot, h),
         meta |-> RestoredExsb(e, c, slot[h].ver).meta,
         ver |-> <<slot[h].ver[1], slot[h].ver[2] + ExtCount(slot, h)>>]

--------------------------------------------------------------------------------
Init ==
    /\ slot = [i \in Slots |->
          IF i >= BasePages(InitTable) THEN NoPage
          ELSE [sig |-> IF i = 0 THEN "base" ELSE "tail",
                ver |-> <<0, 1>>,
                table |-> [o \in DOMAIN InitTable |->
                             [b |-> InitTable[o], v |-> <<0, 1>>]],
                ok |-> TRUE]]
    /\ exsb = [ver |-> <<0, 1>>, meta |-> InitMeta, ok |-> TRUE]
    /\ exsb_copy = exsb
    /\ base_t = NoRecords
    /\ extended_table = NoRecords
    /\ exteneded_table_count = 0
    /\ use_base_table = FALSE
    /\ iblock = 0
    /\ sync_count = 0
    /\ raw_exsb = exsb
    /\ exsb_dirty = FALSE
    /\ dirty = {}
    /\ pc = "down"
    /\ out = NoOut
    /\ committed = [table |-> slot[0].table, meta |-> InitMeta, ver |-> <<0, 1>>]

--------------------------------------------------------------------------------
\* Mount

\* vdfs4_extended_sb_read: read both superblocks, repair a damaged one.
SbRead ==
    /\ pc = "down"
    /\ Verify(exsb) \/ Verify(exsb_copy)
    /\ exsb' = ReadExsb(exsb, exsb_copy)
    /\ exsb_copy' = ReadExsbCopy(exsb, exsb_copy)
    /\ raw_exsb' = exsb'
    /\ pc' = "mount"
    /\ UNCHANGED <<slot, base_t, extended_table, exteneded_table_count,
                   use_base_table, iblock, sync_count, exsb_dirty, dirty, out,
                   committed>>

\* restore_exsb: make the two superblocks agree with the base table found.
RestoreExsb(v) ==
    /\ exsb' = IF UseCopy(exsb, exsb_copy, v) THEN Resigned(exsb_copy) ELSE exsb
    /\ exsb_copy' =
          IF DropCopy(exsb, exsb_copy, v) THEN Resigned(exsb) ELSE exsb_copy

\* vdfs4_build_snapshot_manager, and the new mount count set by
\* vdfs4_fill_super in memory only.
BuildSnapshotManager ==
    /\ pc = "mount"
    /\ LET h == LoadBase(slot)
           n == ExtCount(slot, h)
           e == RestoredExsb(exsb, exsb_copy, slot[h].ver)
       IN  /\ h # -1
           /\ e.ver[1] < MaxMount
           /\ RestoreExsb(slot[h].ver)
           /\ base_t' = Replay(slot, h)
           /\ exteneded_table_count' = n
           /\ iblock' = ExtStart(slot, h) + n
           /\ raw_exsb' = [e EXCEPT !.ver = <<e.ver[1] + 1, e.ver[2]>>]
    /\ extended_table' = NoRecords
    /\ exsb_dirty' = TRUE
    /\ pc' = "idle"
    /\ UNCHANGED <<slot, use_base_table, sync_count, dirty, out, committed>>

--------------------------------------------------------------------------------
\* Changes in memory, inside a transaction

\* update_extended_table
UpdateExtendedTable(o, b) ==
    IF use_base_table
    THEN UNCHANGED <<use_base_table, extended_table>>
    ELSE IF Cardinality(DOMAIN extended_table) + 1 > ExtRecords
    THEN /\ use_base_table' = TRUE
         /\ UNCHANGED extended_table
    ELSE /\ extended_table' = [x \in DOMAIN extended_table \cup {o} |->
                                 IF x = o THEN b ELSE extended_table[x]]
         /\ UNCHANGED use_base_table

\* move_iblock of a chunk that is not yet dirty, called by
\* vdfs4_add_chunk_no_lock; the block is the chunk's own when the area is full.
MoveIblock(o, b) ==
    /\ pc = "idle"
    /\ o \in DOMAIN base_t \ dirty
    /\ base_t' = [base_t EXCEPT ![o].b = b]
    /\ UpdateExtendedTable(o, b)
    /\ dirty' = dirty \cup {o}
    /\ UNCHANGED <<disk, exteneded_table_count, iblock, sync_count, raw_exsb,
                   exsb_dirty, pc, out, committed>>

\* expand_area: the blocks of B come from the free space manager, which marks
\* them in its bitmap (vdfs4_fsm_get_free_block), so a chunk of the bitmap has
\* become dirty in the same transaction.
ExpandArea(B) ==
    /\ B # {} => SpaceBitmap \cap dirty # {}
    /\ raw_exsb' = [raw_exsb EXCEPT !.meta = @ \cup B]
    /\ exsb_dirty' = (exsb_dirty \/ B # {})

\* Mutant of CheckPageOffset: the new chunk becomes a record of the extended
\* table, the base table is not forced.
CheckPageOffsetExt(o, b, B) ==
    /\ pc = "idle"
    /\ o \in Object \ DOMAIN base_t
    /\ base_t' = [x \in DOMAIN base_t \cup {o} |->
                    IF x = o THEN [b |-> b, v |-> Ver] ELSE base_t[x]]
    /\ ExpandArea(B)
    /\ UpdateExtendedTable(o, b)
    /\ dirty' = dirty \cup {o}
    /\ UNCHANGED <<disk, exteneded_table_count, iblock, sync_count, pc, out,
                   committed>>

\* vdfs4_check_page_offset for a chunk past the end of its special file: the
\* file grows (insert_new_iblocks), after growing the metadata area by B if it
\* runs short (expand_special_file).  The base table must be written.
CheckPageOffset(o, b, B) ==
    /\ pc = "idle"
    /\ o \in Object \ DOMAIN base_t
    /\ base_t' = [x \in DOMAIN base_t \cup {o} |->
                    IF x = o THEN [b |-> b, v |-> Ver] ELSE base_t[x]]
    /\ ExpandArea(B)
    /\ use_base_table' = TRUE
    /\ dirty' = dirty \cup {o}
    /\ UNCHANGED <<disk, extended_table, exteneded_table_count, iblock,
                   sync_count, pc, out, committed>>

\* vdfs4_check_meta_space, or expand_special_file that fails after it has grown
\* the area: the metadata area grows by the blocks of B.
CheckMetaSpace(B) ==
    /\ pc = "idle"
    /\ ExpandArea(B)
    /\ UNCHANGED <<disk, base_t, extended_table, exteneded_table_count,
                   use_base_table, iblock, sync_count, dirty, pc, out, committed>>

--------------------------------------------------------------------------------
\* Commit: vdfs4_sync_metadata

\* Mutant of SyncMetadata: the second superblock is never written.
SyncMetadataNoCopy ==
    /\ pc = "idle"
    /\ dirty # {}
    /\ sync_count < MaxSync[raw_exsb.ver[1]]
    /\ exsb_dirty' \in {exsb_dirty, TRUE}
    /\ pc' = "meta"
    /\ UNCHANGED <<disk, base_t, extended_table, exteneded_table_count,
                   use_base_table, iblock, sync_count, raw_exsb, dirty, out,
                   committed>>

\* Start, with something to write; the write statistics of a partition, or a
\* new inode generation, may have made the superblock dirty.
SyncMetadata ==
    /\ pc = "idle"
    /\ dirty # {}
    /\ sync_count < MaxSync[raw_exsb.ver[1]]
    /\ exsb_dirty' \in {exsb_dirty, TRUE}
    /\ pc' = IF exsb_dirty' THEN "copy" ELSE "meta"
    /\ UNCHANGED <<disk, base_t, extended_table, exteneded_table_count,
                   use_base_table, iblock, sync_count, raw_exsb, dirty, out,
                   committed>>

\* vdfs4_sync_exsb(sbi, 1): the second superblock goes first.
SyncExsbCopy ==
    /\ pc = "copy"
    /\ raw_exsb' = [raw_exsb EXCEPT !.ver = Ver]
    /\ exsb_copy' = raw_exsb'
    /\ use_base_table' = TRUE
    /\ pc' = "meta"
    /\ UNCHANGED <<slot, exsb, base_t, extended_table, exteneded_table_count,
                   iblock, sync_count, exsb_dirty, dirty, out, committed>>

\* Mutant of MetaWrite: the records keep the version of the chunk's last write.
MetaWriteUnsigned ==
    /\ pc = "meta"
    /\ pc' = "tables"
    /\ UNCHANGED <<disk, mem, committed>>

\* vdfs4_meta_write: every dirty chunk is signed (vdfs4_sign_mapping_pages) and
\* written to its new block.
MetaWrite ==
    /\ pc = "meta"
    /\ base_t' = [o \in DOMAIN base_t |->
                    IF o \in dirty THEN [base_t[o] EXCEPT !.v = Ver] ELSE base_t[o]]
    /\ pc' = "tables"
    /\ UNCHANGED <<disk, extended_table, exteneded_table_count, use_base_table,
                   iblock, sync_count, raw_exsb, exsb_dirty, dirty, out, committed>>

\* Mutants of WriteBaseTable, NextHalf and TailPages: one extended table too
\* many; the half in use; the last tail page is forgotten.
WriteBaseTableLate == exteneded_table_count > ExtTables \/ use_base_table
SameHalf == IF iblock >= Half THEN Half ELSE 0
TailPagesShort(at) == {at + k : k \in 1 .. BasePages(base_t) - 2}

\* First part of vdfs4_update_translation_tables: which table, and where.
WriteBaseTable == exteneded_table_count >= ExtTables \/ use_base_table
NextHalf == IF iblock >= Half THEN 0 ELSE Half
TailPages(at) == {at + k : k \in 1 .. BasePages(base_t) - 1}
UpdateTranslationTables ==
    /\ pc = "tables"
    /\ IF WriteBaseTable
       THEN /\ out' = [base |-> TRUE, at |-> NextHalf, tail |-> TailPages(NextHalf)]
            /\ use_base_table' = FALSE
            /\ exteneded_table_count' = 0
            /\ pc' = IF TailPages(NextHalf) = {} THEN "head" ELSE "tail"
       ELSE /\ out' = [base |-> FALSE, at |-> iblock, tail |-> {}]
            /\ exteneded_table_count' = exteneded_table_count + 1
            /\ pc' = "head"
            /\ UNCHANGED use_base_table
    /\ UNCHANGED <<disk, base_t, extended_table, iblock, sync_count, raw_exsb,
                   exsb_dirty, dirty, committed>>

TailPage == [sig |-> "tail", ver |-> Ver, table |-> base_t, ok |-> TRUE]
HeadPage == [sig |-> IF out.base THEN "base" ELSE "ext", ver |-> Ver,
             table |-> IF out.base THEN base_t ELSE extended_table, ok |-> TRUE]

\* The tail pages of a base table are written before its head, in any order.
WriteTail(i) ==
    /\ pc = "tail"
    /\ i \in out.tail
    /\ slot' = [slot EXCEPT ![i] = TailPage]
    /\ out' = [out EXCEPT !.tail = @ \ {i}]
    /\ pc' = IF out'.tail = {} THEN "head" ELSE "tail"
    /\ UNCHANGED <<exsb, exsb_copy, base_t, extended_table, exteneded_table_count,
                   use_base_table, iblock, sync_count, raw_exsb, exsb_dirty, dirty,
                   committed>>

\* The write of the head page, or of the extended table, is the commit point.
Commits == committed' = [table |-> base_t, meta |-> raw_exsb.meta, ver |-> Ver]
WriteHead ==
    /\ pc = "head"
    /\ slot' = [slot EXCEPT ![out.at] = HeadPage]
    /\ Commits
    /\ iblock' = out.at + (IF out.base THEN BasePages(base_t) ELSE 1)
    /\ dirty' = {}
    /\ extended_table' = NoRecords
    /\ out' = NoOut
    /\ pc' = "fin"
    /\ UNCHANGED <<exsb, exsb_copy, base_t, exteneded_table_count, use_base_table,
                   sync_count, raw_exsb, exsb_dirty>>

\* The end of vdfs4_sync_metadata: vdfs4_sync_exsb(sbi, 0) if the superblock is
\* dirty, then the next sync count.
FinishSync ==
    /\ pc = "fin"
    /\ IF exsb_dirty
       THEN /\ raw_exsb' = [raw_exsb EXCEPT !.ver = Ver]
            /\ exsb' = raw_exsb'
       ELSE UNCHANGED <<raw_exsb, exsb>>
    /\ exsb_dirty' = FALSE
    /\ sync_count' = sync_count + 1
    /\ pc' = "idle"
    /\ UNCHANGED <<slot, exsb_copy, base_t, extended_table, exteneded_table_count,
                   use_base_table, iblock, dirty, out, committed>>

--------------------------------------------------------------------------------
\* Failures

\* A page whose write was cut short holds neither its old nor its new content;
\* its descriptor, in the first sector, is one of the two.
Torn(old, new) == {[old EXCEPT !.ok = FALSE], [new EXCEPT !.ok = FALSE]}

\* vdfs4_fatal_error, called by any operation that meets an inconsistency, makes
\* the volume read-only.
FatalError ==
    /\ pc = "idle"
    /\ pc' = "ro"
    /\ UNCHANGED <<disk, mem, committed>>

\* A write of metadata pages failed.
MetaWriteError ==
    /\ pc = "meta"
    /\ pc' = "ro"
    /\ UNCHANGED <<disk, mem, committed>>

\* vdfs4_sync_exsb fails before it writes anything.
ExsbWriteError ==
    /\ pc \in {"copy", "fin"}
    /\ pc = "fin" => exsb_dirty
    /\ raw_exsb' = [raw_exsb EXCEPT !.ver = Ver]
    /\ exsb_dirty' = (pc = "copy")
    /\ use_base_table' = (use_base_table \/ pc = "copy")
    /\ sync_count' = IF pc = "fin" THEN sync_count + 1 ELSE sync_count
    /\ pc' = "ro"
    /\ UNCHANGED <<disk, base_t, extended_table, exteneded_table_count, iblock,
                   dirty, out, committed>>

\* A table write failed for the fourth time: the page holds its old content or
\* is damaged, or, a tail page, has been written after all.
TableWriteError ==
    /\ \/ /\ pc = "tail"
          /\ \E i \in out.tail :
                \E p \in {slot[i], TailPage} \cup Torn(slot[i], TailPage) :
                   slot' = [slot EXCEPT ![i] = p]
       \/ /\ pc = "head"
          /\ \E p \in {slot[out.at]} \cup Torn(slot[out.at], HeadPage) :
                slot' = [slot EXCEPT ![out.at] = p]
    /\ pc' = "ro"
    /\ UNCHANGED <<exsb, exsb_copy, mem, committed>>

\* The device reports an error for a head page that has reached the disk.
LateTableWriteError ==
    /\ pc = "head"
    /\ slot' = [slot EXCEPT ![out.at] = HeadPage]
    /\ Commits
    /\ pc' = "ro"
    /\ UNCHANGED <<exsb, exsb_copy, mem>>

\* What the write in progress may leave on the disk.
TornWrite ==
    \/ /\ pc = "mount"
       /\ LoadBase(slot) # -1
       /\ LET v == slot[LoadBase(slot)].ver
          IN  \/ /\ UseCopy(exsb, exsb_copy, v)
                 /\ exsb' = [exsb EXCEPT !.ok = FALSE]
                 /\ UNCHANGED <<slot, exsb_copy>>
              \/ /\ DropCopy(exsb, exsb_copy, v)
                 /\ exsb_copy' = [exsb_copy EXCEPT !.ok = FALSE]
                 /\ UNCHANGED <<slot, exsb>>
    \/ /\ pc = "copy"
       /\ exsb_copy' = [exsb_copy EXCEPT !.ok = FALSE]
       /\ UNCHANGED <<slot, exsb>>
    \/ /\ pc = "tail"
       /\ \E i \in out.tail : \E p \in Torn(slot[i], TailPage) :
             slot' = [slot EXCEPT ![i] = p]
       /\ UNCHANGED <<exsb, exsb_copy>>
    \/ /\ pc = "head"
       /\ \E p \in Torn(slot[out.at], HeadPage) :
             slot' = [slot EXCEPT ![out.at] = p]
       /\ UNCHANGED <<exsb, exsb_copy>>
    \/ /\ pc = "fin"
       /\ exsb_dirty
       /\ exsb' = [exsb EXCEPT !.ok = FALSE]
       /\ UNCHANGED <<slot, exsb_copy>>

\* Power is lost, or the volume is unmounted: memory is gone.
Crash ==
    /\ pc # "down"
    /\ UNCHANGED disk \/ TornWrite
    /\ base_t' = NoRecords
    /\ extended_table' = NoRecords
    /\ exteneded_table_count' = 0
    /\ use_base_table' = FALSE
    /\ iblock' = 0
    /\ sync_count' = 0
    /\ raw_exsb' = exsb'
    /\ exsb_dirty' = FALSE
    /\ dirty' = {}
    /\ out' = NoOut
    /\ pc' = "down"
    /\ UNCHANGED committed

--------------------------------------------------------------------------------
Update ==
    \/ \E o \in Object, b \in raw_exsb.meta : MoveIblock(o, b)
    \/ \E o \in Object, B \in SUBSET (Block \ raw_exsb.meta) :
          \E b \in raw_exsb.meta \cup B : CheckPageOffset(o, b, B)
    \/ \E B \in (SUBSET (Block \ raw_exsb.meta)) \ {{}} : CheckMetaSpace(B)

Next ==
    \/ SbRead \/ BuildSnapshotManager
    \/ Update
    \/ SyncMetadata \/ SyncExsbCopy \/ MetaWrite \/ UpdateTranslationTables
    \/ \E i \in Slots : WriteTail(i)
    \/ WriteHead \/ FinishSync
    \/ FatalError \/ ExsbWriteError \/ MetaWriteError
    \/ TableWriteError \/ LateTableWriteError
    \/ Crash

Spec == Init /\ [][Next]_vars

--------------------------------------------------------------------------------
TypeOK ==
    /\ DOMAIN slot = Slots
    /\ \A i \in Slots : IsPage(slot[i])
    /\ exsb \in Exsb
    /\ exsb_copy \in Exsb
    /\ IsTable(base_t)
    /\ IsRecords(extended_table)
    /\ exteneded_table_count \in 0 .. ExtTables
    /\ use_base_table \in BOOLEAN
    /\ iblock \in Nat
    /\ sync_count \in Nat
    /\ raw_exsb \in Exsb
    /\ exsb_dirty \in BOOLEAN
    /\ dirty \in SUBSET Object
    /\ pc \in {"down", "mount", "idle", "copy", "meta", "tables", "tail", "head",
               "fin", "ro"}
    /\ out \in [base : BOOLEAN, at : Nat, tail : SUBSET Nat]
    /\ committed \in [table : {committed.table}, meta : SUBSET Block,
                       ver : Version]
    /\ IsTable(committed.table)

\* Whatever a crash left behind, vdfs4_extended_sb_read finds a usable extended
\* superblock and load_base_table a usable base table.
Mountable ==
    /\ Verify(exsb) \/ Verify(exsb_copy)
    /\ LoadBase(slot) # -1

\* A mount finds exactly the translation table and the metadata area of the
\* last commit: base table, replayed extended tables and extended superblock
\* belong together, whichever write the crash interrupted.
RecoveryIsCommitted == Mountable => Recovered = committed

\* The extended tables a mount replays only have records of chunks that the
\* base table knows (VDFS4_BUG_ON of parse_extended_table).
ReplayInBounds ==
    LET h == LoadBase(slot)
    IN  h # -1 => \A k \in 1 .. ExtCount(slot, h) :
           DOMAIN slot[ExtStart(slot, h) + k - 1].table \subseteq DOMAIN slot[h].table

\* Between commits the writer's idea of the tables area is the one a mount
\* would form: the next free page, the number of extended tables, and every
\* record not changed since.
WriterMatchesDisk ==
    pc = "idle" =>
       LET h == LoadBase(slot)
       IN  /\ iblock = ExtStart(slot, h) + ExtCount(slot, h)
           /\ exteneded_table_count = ExtCount(slot, h)
           /\ \A o \in DOMAIN base_t \ dirty : base_t[o] = Replay(slot, h)[o]

\* The tables area has room for two base tables, each with its own extended
\* tables (calculate_translation_tables_size): a base table being written never
\* overwrites the one a mount would use.
TwoTableSets == pc \in {"tail", "head"} /\ out.base => LoadBase(slot) # out.at

\* Every commit has a newer version than the one before, also when the mount
\* count of a crashed mount, never saved, is used again.
VersionGrows ==
    [][committed' # committed => Newer(committed'.ver, committed.ver)]_vars

\* The tables and the superblock together are one atomic store.
Store == INSTANCE AtomicStore
            WITH live <- IF pc \in {"down", "mount"}
                         THEN [table |-> committed.table, meta |-> committed.meta]
                         ELSE [table |-> base_t, meta |-> raw_exsb.meta],
                 durable <- [table |-> committed.table, meta |-> committed.meta],
                 up <- pc \notin {"down", "mount"}
AtomicCommit == Store!Spec
================================================================================
