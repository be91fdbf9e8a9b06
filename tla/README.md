# Verification of VDFS4

VDFS4 is a copy-on-write file system: a Linux driver (`src/linux/fs/vdfs4`) and
the tools that make its images (`src/vdfs-tools`). This directory holds TLA+
models of the driver and of image making, the TLC configurations that check them
on small instances, and proofs checked by TLAPS. Names in the models are those of
the source where there is one (including `exteneded_table_count`).

## The system

All metadata (catalog, extents and xattr B-trees, the free space bitmap and the
inode bitmap) lives in *special files*, split into chunks: a bnode or a bitmap
page. Chunks are stored in the *metadata area*, and a *translation table* says
where each one is and with which version it was signed. A change never
overwrites a committed chunk: the chunk is moved to a free block first. A commit
writes the dirty chunks, then the table, and so replaces the snapshot at once.

| Part | Source | Model |
| --- | --- | --- |
| translation tables, extended superblock, recovery | `snapshot.c`, `super.c`, `data.c` | `TransTables`, `AtomicStore`; `TransTablesInv`, `TransTablesProofs` |
| copy-on-write metadata area, snapshot bitmaps | `snapshot.c`, `data.c` | `CowMeta`; `CowMetaProofs` |
| the snapshot manager as a whole, page versions | `snapshot.c`, `data.c`, `bnode.c` | `Snapshot`; `SnapshotInv`, `SnapshotProofs` |
| free space manager | `fsm.c` | `FreeSpace` |
| extents, delayed allocation, fallocate, truncate | `extents.c`, `inode.c`, `file.c` | `FileExtents` |
| B-trees and bnodes, of driver and tools | `btree.c`, `bnode.c`, `lib/btree.c`, `lib/bnode.c` | `Bnode`, `BTree`, `TreeImage` |
| catalog, hard links, attributes | `cattree.c`, `xattr.c` | `Catalog` |
| directory operations, inode numbers, orphans, eviction | `inode.c`, `orphan.c`, `super.c` | `Namespace` |
| transactions, locks, delayed commit | `snapshot.c`, `super.c`, `file.c` | `Transactions`; `TransactionsProofs` |
| reading packed files | `data.c`, `inode.c` | `ChunkRead`; `ChunkReadProofs` |
| packing files into an image | `lib/compress.c`, `lib/disk_op.c`, `mkfs.c` | `Packing`, `TunedFile`; `TunedFileProofs` |
| the catalog mkfs builds | `mkfs.c`, `lib/cattree.c`, `lib/hlink.c` | `Init` of `Namespace` |
| authentication, ioctl, options, tracing, hardware driver | `authentication.c`, `ioctl.c`, ... | not modelled |

The parts rest on each other in this order: the snapshot manager makes a commit of
all metadata atomic (`AtomicStore`); the models above it therefore take a commit
as one step that copies memory to disk, and a crash as a step back to that copy.
`Namespace` uses the B-trees as an ordered map, which is what `TreeIsMap` shows
them to be. That a commit falls only between whole changes is
`CommitsWholeChanges`.

## Modules

### TransTables

The tables area has two halves of `Half` pages. A commit writes a full *base
table* to the start of the half not in use, or, if few records changed, one
*extended table* to the next page of the half in use. `slot` is the area on
disk; `exsb` and `exsb_copy` are the two extended superblocks, which carry the
extents of the metadata area. `base_t`, `extended_table`,
`exteneded_table_count`, `use_base_table`, `iblock` and `sync_count` are the
fields of `struct vdfs4_snapshot_info`. `pc` is where the mount or the commit
has got to; `committed` is a history variable.

| Action | Code |
| --- | --- |
| `SbRead`, `BuildSnapshotManager` | `vdfs4_extended_sb_read`; `vdfs4_build_snapshot_manager` with `load_base_table`, `restore_exsb` and the replay of extended tables |
| `MoveIblock`, `CheckPageOffset`, `CheckMetaSpace` | effect of `vdfs4_add_chunk_no_lock`, `vdfs4_check_page_offset`, `vdfs4_check_meta_space` on the tables |
| `SyncMetadata`, `SyncExsbCopy`, `MetaWrite`, `UpdateTranslationTables`, `WriteTail`, `WriteHead`, `FinishSync` | the steps of `vdfs4_sync_metadata`, one per write that can be interrupted |
| `FatalError`, `MetaWriteError`, `ExsbWriteError`, `TableWriteError`, `LateTableWriteError` | failed writes; the volume becomes read-only |
| `Crash` | power failure or unmount; the write in progress may be torn |

`Recovered` computes from the disk alone what a mount would come up with. Table
writes are `PREFLUSH | FUA`, so a write that was acknowledged is durable; a torn
page keeps its old or new descriptor (first sector) and fails its checksum. Only
read-write volumes mounted with `dncs` are modelled; these are the ones whose
tables change.

### CowMeta

`table` is the translation table as a map from chunks to blocks, `blk` the
content of the blocks, `page` the page cache. `snapshot_bitmap`,
`next_snapshot_bitmap`, `moved_iblock` and `cow_blocks` are the fields of the
snapshot manager; `bitmap_blocks` is the part of the area the bitmaps cover. A
chunk is one block and any free block may be chosen. When the area is full,
`move_iblock` leaves a chunk where it is; the history variable `inplace`
remembers these chunks, since a crash may lose them (the code accepts this).
The write of the tables is one step, `Commit`.

### Snapshot

Composes the two with `blk_ver`, the version each block was signed with. Every
step is a step of `TransTables`, of `CowMeta` (through the mapping of `INSTANCE`)
or of both. Reading a page through a record with another version fails, as in
`vdfs4_validate_bitmap` and the check of bnodes.

### AtomicStore

What the snapshot manager promises: one durable copy of the metadata, replaced
as a whole by a commit and by nothing else. `TransTables` implements it.

### FreeSpace and FileExtents

Every function of `fsm.c` runs under `fsm->lock`, so `FreeSpace` has one operator
per function, from one manager record to the next: the bitmap, the nodes of free
extents (`area`), the nodes freed since the last commit (`next`), the counters of
`sb_info`, the counters of used blocks per erase block. The order of nodes in a
list is left open. `FileExtents` has the files: `fork`, `exttree`,
`total_block_count`, size and the list of runtime extents, and per file the system
call in progress and who holds `truncate_mutex`.

What a commit writes of an inode is its catalog record. `record` is that record,
or empty while the inode is marked dirty: only `mark_inode_dirty` of the code makes
it so, and `Commit` and `vdfs4_write_inode` write only such inodes. These paths
change an inode without marking it: a writeback that fails after it has inserted
some extents (`inode.c:2079`), the undoing of a fallocate (`inode.c:3435`), a
truncation that lets a commit in (`file.c:50`) and one that fails (`file.c:66`). The overflow tree, which is metadata of its
own, is committed as it is. The history variable `harm` records what comes of it:
`unmarked`, a crash went back to a commit that missed such a change (blocks leak,
counts are wrong); `pushed`, the record still had an extent in the fork that had been
pushed out into the tree, so that it is there twice; `remove`, a removal from the
tree failed, which `truncate_exttree` does not look at (`file.c:88`), and the next
turn frees the blocks again. After the last two the model makes no further calls.
`SpaceAccounted`, `EachBlockOneOwner` and `ExtentsOrdered` say which of their parts
hold without, and which with, each of these.

| Action | Code |
| --- | --- |
| `Overwrite`, `vdfs4_get_block_prep_da` | a buffered write reserves its block |
| `vdfs4_writepages`, `vdfs4_allocate_space`, `vdfs4_get_block_da` | allocation at writeback, one turn of the loop per step; then for single pages that it left |
| `vdfs4_direct_IO` | a direct write maps its block at once |
| `vdfs4_fallocate`, `FallocateAllocate`, `FallocateFinish`, `FallocateUndo` | fallocate; its lock is free between the steps |
| `vdfs4_truncate_blocks`, `truncate_exttree`, `TruncateYield`, `TruncateResume`, `truncate_fork`, `TruncateFails`, `vdfs4_update_inode` | truncation, one extent per step |
| `vdfs4_setattr`, `vdfs4_write_inode` | an inode is marked for another reason; the flusher writes it |
| `expand_area`, `Commit`, `Crash` | the metadata area grows; `vdfs4_commit_free_space`, rebuilding and discarding; power failure |

### Bnode, BTree, TreeImage

`Bnode` is the page of a bnode: records in a heap, ordered by a table of offsets,
with the free space the descriptor claims. `BTree` is the algorithm, one operator
per function of `btree.c` and `bnode.c`. An operation holds the lock of its tree,
so it is a function of the tree; `mem` says how many bnodes it can still get
memory for, and whether there is memory for the notes of index records to insert
(`put_add_index_work`). `TreeImage` has the actions: `MkfsInsert` and `MkfsRemove` of the
tools, `Mount`, and `vdfs4_btree_insert` and `vdfs4_btree_remove` of the driver. A
split whose index record finds no bnode, or whose note is dropped, leaves a
*dangling* bnode, which the code tolerates; `short` remembers that this happened.

### Catalog and Namespace

`Catalog` is the catalog as a map from `<<parent_id, name, object_id>>` to records,
with inode links and hard links as the code stores them. `Namespace` has one
action per directory operation, for attributes, look-up, open and release, the
four steps of an eviction (a commit may come between them), commits, crashes, and
`vdfs4_process_orphan_inodes`. `fuel` is which insertion of the
call fails, `full` whether all later ones fail too. An error path inserts records
itself: when `transform_into_hlink` (`inode.c:3008`) or `vdfs4_rename`
(`inode.c:2713`) cannot put a record back, the inode is left without one. `harm` is
the set of such inodes; the properties then hold for all others. `names`
is what the completed calls left: the reference the catalog is compared with. The
initial state is what `insert_metadata` of mkfs makes of a source tree.

### Transactions

Tasks are sequences of steps (`pc`): writers, nested changes, truncation, fsync,
the flusher, the worker of the delayed commit, and an administrator who remounts
and unmounts. The locks are `transaction_lock`, `writeback_lock`, `s_umount`, a
page lock and `truncate_mutex`; `count` is `journal_info`. A waiting writer of a
semaphore keeps new readers out, as in the kernel. `dirty` is who changed metadata
since the last commit. A truncation gives way wherever it runs, also for a file that
`sync_inodes_sb` evicts inside `vdfs4_sync_fs`. There the task keeps
`transaction_lock` and waits for the delayed commit, which needs it
(`file.c:50-55`): `WaitsForItself` describes this deadlock of the code, and
`CallsReturn` and `EventuallyCommitted` say that there is no other.

### ChunkRead, Packing, TunedFile

`ChunkRead`: readers of one chunk, page by page and with read-ahead; page locks and
flags, the shared pages of compressed blocks, private pages when one cannot be
had at once, `MAX_READPAGE_TUNED_RETRIES`, the pool of mapped buffers, the paths of
software, hardware, uncompressed and inline chunks. `good` tells whether a page
holds what it should. Error paths that keep locks are modelled as they are: when a
block cannot be looked up or a page not be had in the middle of a chunk, the exit of
`vdfs4_read_chunk` locks pages its task holds already (`data.c:2130`), the reader is
`hung`; an inline read without memory returns with its page locked
(`inode.c:1448`), the page is `Left`. `ReadsEnd` excepts these readers, and those that
wait for a page in `NeverUnlocked`, and nobody else.

`Packing`: `tune_files` hands files to file threads, these hand chunks to chunk
threads, which append to two temporary files; the file thread writes chunks, table
and descriptor to the end of the image; `fill_image_data` stores what was not
packed, and the metadata follows. A cell of `image` is a unit of some file's chunk,
of a table or of padding, so a wrong offset shows. A failed read of a chunk ends the
call while its chunk threads still run; a failed write leaves what it wrote at the
end of the image (`spoilt` has `"data"`); without memory for the copy of the table
`compress_file` ends with `write_file_mutex` locked (`lib/compress.c:1040`; `spoilt`
has `"mutex"`). After that `PackingEnds` allows file threads to wait for this mutex.

`TunedFile` composes them: a file of the finished image is opened
(`vdfs4_file_open`, with the descriptor and table that `Packing` wrote) and one
chunk of it is read.

## Runs

| Run | Result | Shows |
| --- | --- | --- |
| `tables` | pass | base and extended tables over both halves: always mountable, a mount finds exactly the last commit, versions grow, refinement of `AtomicStore` |
| `tables_growth` | pass | the same while the base table grows from one page to two; replayed records are in bounds |
| `cow` | pass | the committed snapshot stays intact; the bitmaps, the moved blocks and the free-block estimate are exact |
| `snapshot` | pass | chunks, versions, tables and superblock agree after a crash anywhere; the composition behaves as `CowMeta` |
| `space` | pass | bitmap, free tree, reserve, extents and discards agree after every call, failure, commit and crash; no block is leaked, shared, or reused before its commit, but for what `harm` names |
| `btree` | pass | the B-tree is an ordered map, its checkers find nothing, its bitmap is right, with any allocation failing |
| `namespace` | pass | look-up and readdir find exactly the names; link counts, inode numbers, attributes and the orphan chain agree; every mount cleans up; all but for inodes in `harm` |
| `locks` | pass | commits see whole changes; every change is committed and all calls return, but for `WaitsForItself` |
| `reads` | pass | every file is found in the image and mkfs ends; pages become valid only with the right data, the buffer pool suffices, every read ends; but for locks that error paths keep |
| `half_boundary` | violation | a base table written over the only valid one, see findings |
| `insert_space` | violation | growth admitted with no free block, see findings |
| `node_limit` | violation | reserved space that is not found, see findings |

Deadlock is checked in `tables`, `tables_growth`, `cow` and `snapshot`: a crash is
always possible while the volume is up and a mount after it, up to the bound on
mounts, so this says little beyond that the volume can be mounted again. The other
runs end when the bound on calls is reached; there `CallsReturn`, `ReadsEnd` and
`PackingEnds` say that nobody is left waiting.

### Bounds

- `MaxMount`, `MaxSync`: mounts that commit, and commits of each mount. In `tables`
  two mounts and five commits each: both halves are used, a full set of extended
  tables is left behind and reused, and a second mount meets each of these
  states. A mount that crashes before its first commit does not count.
- `ExtTables` is 1 or 2 for 8, `ExtRecords` 1, `RecordsPerPage` 1: overflow of an
  extended table, and a base table of two pages, need only two chunks.
- `Half` is 4 in the passing runs: larger than a base table and its extended
  tables. `half_boundary` has equality.
- `cow`: two chunks, an area that grows from one block to up to four, two
  contents. This meets a full area and changes in place, growth of file and area
  in either order, moves of both chunks, and every kind of loss.
- `snapshot`: the same with up to three blocks and one content; versions tell old
  and new blocks apart.
- In both, the blocks the area grows by are a symmetry set: no definition tells
  them apart, and all properties are safety properties.

- `space`: a file of up to three blocks, of which mkfs has given it the second
  (`Image`), and one of one block, on a volume of nine; `ForkExtents` 1 for 9,
  `MaxNodes` 2 for 20480. The second extent of a file goes to the overflow tree, or
  pushes the first one there; a third free extent has no node, and `SuperPage` and
  `EraseSize` of two blocks make alignment and discards happen. Two calls;
  writeback, commits and crashes are not counted. All three kinds of harm occur
  within them. The same instance passes with three calls, a volume of seven blocks
  and `AreaStep` {2} (2.9 million states, 13 minutes).
- `btree`: bnodes of three records and seven keys, so that mkfs makes three levels;
  one key has a longer record. `Reserve` 1 per level for 4. `Memory` is no bnode,
  one, or enough, and enough without memory for notes. All orders of insertion,
  then four calls.
- `namespace`: two names, inode numbers up to 4, three source trees (a file with names
  in two directories; a file whose second name lies outside; a file with one name),
  three calls, one crash, and any number of commits and evictions. In one of the
  calls (`MaxFaults`) the first to fifth insertion fails, alone or with all that
  follow (`MaxFuel` 5): a call has at most three insertions, and its undoing
  two more. Three calls suffice for an orphan whose name is taken again and for
  two orphans removed in either order; numbers run out and are reused.
- `locks`: two users, the flusher, the worker and the administrator, three calls.
- `reads`: two files of two chunks of two pages, two file and two chunk threads, one
  failing read, write or allocation while packing; then two readers, two calls, two faults, one pair of
  buffers and two retries. The eleven inputs choose chunks that are packed, kept
  and padded, files packed before, executable, identical, hard-linked and inline.

### Fairness

Only `locks` and `reads` have liveness properties.

- `Transactions`: weak fairness for each task's next step (the kernel schedules
  runnable tasks; semaphores are handed over and a waiting writer keeps readers
  out), for the flusher while there are dirty pages, and for the timer. In the code
  `mod_delayed_work` sets the timer anew with every transaction, so the commit comes
  once transactions pause; in the model `MaxCalls` makes them pause.
- `ChunkRead`: weak fairness for each reader's next step and for the device, which
  always ends some request that is pending; it may report an error, but is not
  bound to.
- `Packing`: weak fairness for some thread's next step. All waits of mkfs are
  `pthread_cond_timedwait` in a loop, so a thread that can go on does, even if a
  signal was missed.

## Proofs

The theorems hold for every value of the constants that the named assumptions allow
(`ConstantsAssumption`, `CowAssumption`, `SnapshotAssumption`, `ChunkReadAssumption`,
`PackingAssumption`, `TransactionsAssumption`; TLC evaluates each in some run). The
bounds on calls, commits and faults are among these constants.

| Modules | Theorems | Inductive invariant |
| --- | --- | --- |
| `CowMetaProofs` | `TypeCorrect`, `CommittedSnapshotIntact`, `BitmapsCorrect`, `MovesCorrect`, `AreaHoldsTables`, `LackageEstimateCorrect` | `CowInv` (`CowInvariant`), `CountInv` |
| `TransTablesInv`, `TransTablesProofs` | `TypeCorrect`, `AlwaysMountable`, `MountFindsLastCommit`, `ReplayStaysInBounds`, `WriterAndDiskAgree`, `BaseTablesAlternate`, `VersionsGrow`, `TablesAreAtomicStore` | `TablesInv` (`LastCommitInOneHalf`) |
| `SnapshotInv`, `SnapshotProofs` | `MetadataAlwaysSurvives`, `RecoveredAlwaysInArea`, `CleanAlwaysReadable`, `ImplementsCowMeta` | `SnapInv` (`SnapshotInvariant`) |
| `ChunkReadProofs`, `TunedFileProofs` | `UptodateIsAlwaysUnpacked`, `MapAlwaysFindsBuffer` | `ReadInv`, `PoolInv` |
| `TransactionsProofs` | `CommitsAreWhole` | `LockInv` (`LocksFollowCalls`) |

**Metadata area.** `DurableIntact` alone is not inductive: a write goes to the block
that `table` names, so one has to know that a dirty chunk that is not `inplace` has
been moved outside the blocks of the committed table (`DirtyIsMoved`), that a clean
chunk is where the committed table has it (`CleanIsDurable`), that a chunk changed in
place has not moved (`InplaceIsDurable`), and that chunks written during a commit
have reached their blocks (`CleanIsWritten`) before the tables name them
(`CommitIsClean`). There is one lemma per action. The estimate needs a second
invariant, `CountInv`, and the fact that an injective table has as many blocks as
chunks (`RangeCardinality`). `TypeOK` of `CowMeta` is not among the invariants of
`cow`, since it is proved.

**Tables.** All theorems have the hypothesis `Room`: the largest base table and its
extended tables fill less than a half. It is true in `tables`, `tables_growth` and
`snapshot` and fails in `half_boundary`, where `TwoTableSets` is violated: it is the
condition mkfs has to provide. `TablesInv` says that some half has the last commit:
a valid base table, the extended tables committed since in the pages after it, which
replayed give `committed.table` (`Replayed`), nothing anywhere with a newer version, a
superblock of this commit that `restore_exsb` will prefer, and memory that agrees
with where the commit in progress has got to (`Memory`). `TransTablesInv` has the
lemmas and the steps that do not write tables, `TransTablesProofs` those that do.
What a mount finds follows from the invariant once (`MountFinds`).

**Both together.** `SnapshotProofs` takes the invariant of the tables as it is and
that of `CowMeta` under the mapping of `Snapshot` (an `INSTANCE` of `CowMetaProofs`),
shows that each step of the composition is a step of both (`ImplementsCowMeta`), and
adds the versions: every committed block that was not changed in place has the
version its record asks for (`CommittedSigned`), and so has every clean block of the
tables in memory (`MemorySigned`).

**Reading.** `ReadInv` says which pages a reader holds at each point, that locked
pages are cached, and that pages about to become valid hold unpacked data; it covers
the error paths, the pages they leave locked included. `PoolInv` counts slots of the
semaphore and bits of the pool. Packing leaves the readers alone (`SameReads`).

**Locks.** `LockInv` ties what a task holds and its nesting count to the rest of its
call, which is one of finitely many kinds (`Has`); a commit holds both semaphores as
a writer, so nobody else is inside.

Only model-checked: the liveness properties, which are out of the provers' reach;
`FilesAreFound`; and the properties of `space`, `btree` and `namespace`. The latter
rest on folds, searches and recursion over sequences and trees of any size, about
which the provers have no induction.

## Findings

- `half_boundary`: `vdfs4_update_translation_tables` (`snapshot.c:1034`) decides
  from the end of the last table which half is in use. A base table and eight
  extended tables that fill the first half end exactly at its boundary, and the
  next base table overwrites the first half. `calculate_translation_tables_size`
  in mkfs intends "two base tables and two set of the extended tables". It takes
  a base table as large as mkfs planned, as on a volume of 3 to 4 MB.
- `insert_space`: the comment at `snapshot.c:1266` says that
  `get_new_meta_iblock` cannot fail because `expand_special_file` checked the
  space. The check ignores moved blocks unless an expansion was tried and failed.

- `node_limit`: `vdfs4_allocate_space` says of a delayed block without space that "it
  shouldn't happen because space was reserved early in aio_write"
  (`inode.c:2049`). The reserve counts blocks, the tree of free extents has at most
  `VDFS4_FSM_MAX_FREE_NODES` nodes. With more free extents than nodes a rebuilt tree
  may hold only extents that wait for the commit, and the writer ends in
  `VDFS4_BUG` with `truncate_mutex` held. It takes a very fragmented volume.

Also seen, without a run:

- `vdfs.txt` says the *older* base table is taken at load and that a base table
  follows "more than 8" extended tables; the code takes the newer one, and writes a
  base table at 8.
- `disable_file_compression` (`lib/compress.c:2242`) marks the record it finds by
  path. For a hard link that is the record of the link, not of the inode, and the
  file is packed although the loop is for "files that musn't be compressed"
  (`lib/compress.c:2145`). Modelled; content is not affected.
- A file of which zlib's output just fills the buffer is reported with size 0 and
  stored as empty packed inline data (`lib/compress.c:1466`, `mkfs.c:457`).
  `FilesAreFound` leaves such a file out.
- `vdfs4_setxattr` removes the old value before `xattrtree_insert` refuses a value
  that is one byte too long for it (`xattr.c:523`, `xattr.c:66`): the call fails and
  the attribute is gone. Modelled; no property says otherwise.
- After an open that failed on the table of a packed file, later opens succeed and
  read the packed bytes (`inode.c:4024`). `UptodateIsUnpacked` leaves it out.
- Error paths that leave something behind, each modelled and excepted by name in the
  properties it touches: inodes changed and not marked dirty, and an ignored failure
  of `vdfs4_exttree_remove` (`harm` of `FileExtents`); records that cannot be put back
  (`harm` of `Namespace`); a truncation that gives way inside a commit
  (`WaitsForItself`); pages left locked by failed reads (`NeverUnlocked`);
  `write_file_mutex` kept by `compress_file` (`spoilt`).

## Not modelled, and limits

Snapshot manager:

- A superblock write whose bio fails is not reported by `vdfs4_write_page`; in the
  model the superblock is written or the commit stops.
- After a fatal error the volume stays read-only until the next mount (the default
  configuration panics). Remounting it read-write is not modelled.
- Sizes in bytes (such as the limit in `expand_translation_tables`), alignment,
  allocation hints, fragmentation of the area.
- Counters do not wrap.
- The commit that `is_commit_required` starts early is in `Transactions` only; in the
  other models commits may happen at any time.

Space and trees:

- Block contents; a discard that fails.
- Calls after truncation freed an extent twice, or after a crash found one in the
  fork and in the tree: `FileExtents` stops there.
- What follows a removal that failed half way: `TreeImage` stops there. A neighbour
  that cannot be read ends in `VDFS4_BUG` or is not modelled.
- The cache of bnodes and its eviction.

Namespace:

- Removals fail only where the record is missing or where the code then makes the
  volume read-only; the insertion that undoes a failed removal of
  `vdfs4_cross_rename` (`inode.c:2871`) is therefore not reached.
- An inode in `harm` stays in memory, and is not evicted, until the crash.
- The inode link of a directory lies among its entries and may hide the one with
  the directory's own name; `LookupFindsNames` leaves such entries out (`OwnName`).
- A readdir that continues after its entry was deleted; the counters of files and
  folders.

Transactions:

- Two volumes sharing `journal_info`.
- Metadata changed by writeback of mapped stores alone does not start the timer;
  `EventuallyCommitted` is about changes made in transactions.

Packed files:

- Profiled files (`VDFS4_SQUEEZE`), encryption, signatures and hashes; a path listed
  twice; `set_type_status` on an open file.
- In `lib/compress.c`: a compressor that fails with `errno` 0 (343), the unchecked
  `write` of unpacked chunks (1027), and what chunk threads still running write into
  the variables of a `compress_file` that has returned; the end of the threads in
  `destroy_threads` (`mkfs.c:1074`).
- Read-ahead on the hardware path: the driver sets `ra_pages` to 0 for packed files
  because read-ahead would deadlock there (`inode.c:2275`), and the VFS is taken to
  honour it. Software readers are modelled with read-ahead.
- The largest packed chunk is a chunk's size, as with the default chunk size. The
  option `readonly` stands for a read-only image with inline data, packed inline
  data and deduplication switched on together.

Authentication, the hardware driver, option parsing, ioctls, resizing and tracing
have no model: they compute, talk to a device, or keep no state of the file
system.

## Plan

1. Remount after an error, and silent superblock write failures, in `TransTables`.
2. `set_type_status` on an open file, in `ChunkRead`.
3. Proofs: the counters of `FreeSpace` (`SpaceAccounted`).
