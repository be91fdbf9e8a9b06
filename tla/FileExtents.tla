------------------------------ MODULE FileExtents ------------------------------
(* The blocks of regular files (inode.c, extents.c, file.c): the extents kept  *)
(* in the inode's fork and in the extents overflow tree, the delayed blocks    *)
(* that wait in the list of runtime extents with their space reserved, their   *)
(* allocation at writeback, direct writes, fallocate, truncate, the growth of  *)
(* the metadata area, and what a commit and a crash make of all this.          *)
(*                                                                             *)
(* One call of the free space manager is one step.  truncate_mutex is held     *)
(* from Start to the last step of an allocation or truncation, so only calls   *)
(* for other files come between.  Sizes are in blocks.                         *)
EXTENDS FreeSpace

CONSTANTS File,         \* regular files
          Boot,         \* blocks mkfs has used
          Image,        \* File -> the extents mkfs has given it
          MaxBlocks,    \* File -> size limit in blocks
          ForkExtents,  \* VDFS4_EXTENTS_COUNT_IN_FORK
          AreaStep,     \* blocks the metadata area grows by (a set)
          NodeMemory,   \* results of fsm_alloc_node
          MaxCalls      \* bound: system calls

ASSUME FileAssumption ==
    /\ Boot \subseteq Blocks
    /\ 0 \in Boot
    /\ MaxBlocks \in [File -> Nat]
    /\ ForkExtents \in Nat \ {0}
    /\ DOMAIN Image = File
    /\ \A f \in File : Len(Image[f]) <= ForkExtents
    /\ NodeMemory \subseteq BOOLEAN

VARIABLES fsm,      \* the free space manager
          inode,    \* fork, exttree, total_block_count, i_size, runtime extents, and
                    \* the record of the catalog tree ({} while the inode is dirty)
          op,       \* the operation that holds the file's locks
          area,     \* blocks the metadata area has got
          disk,     \* what the last commit wrote: inodes, bitmap, area
          harm,     \* history: what the code has done to the extents of a file
          calls,    \* system calls made (bound)
          reused,   \* history: blocks of the last commit that were handed out
          lost      \* history: used blocks that were discarded

vars == <<fsm, inode, op, area, disk, harm, calls, reused, lost>>

\* call: the system call on the file; lock: who holds its truncate_mutex
\* ("dead": a thread that BUG() ended).
Idle == [call |-> "none", lock |-> "free", from |-> 0, to |-> 0]
Extent(b, s, c) == [iblock |-> b, first |-> s, count |-> c]
Runtime(b, c, h) == [iblock |-> b, count |-> c, hint |-> h]

\* What vdfs4_fill_cattree_value copies into the record.
Fields(I) == [fork |-> I.fork, total |-> I.total, size |-> I.size]

\* An inode as vdfs4_iget reads it.
Mounted(fork) ==
    LET total == FoldLeft(LAMBDA n, e : n + e.count, 0, fork)
        size == IF fork = <<>> THEN 0 ELSE Last(fork).iblock + Last(fork).count
    IN [fork |-> fork, exttree |-> {}, total |-> total, size |-> size, runtime |-> <<>>,
        record |-> {[fork |-> fork, total |-> total, size |-> size]}]

\* A dirty inode is written before the next commit, whatever its record holds.
mark_inode_dirty(I) == [I EXCEPT !.record = {}]

\* total_block_count is unsigned; CountWrap stands for 2^32.
CountWrap == 2^16
Plus(n, k) == (n + k) % CountWrap
Minus(n, k) == (n - k) % CountWrap

Holds(e, b) == b >= e.iblock /\ b < e.iblock + e.count

--------------------------------------------------------------------------------
(* Lookup *)

\* The last record of the file at or before b (none: empty set).
vdfs4_exttree_find_record_strict_obj(I, b) ==
    {e \in I.exttree : /\ e.iblock <= b
                       /\ \A d \in I.exttree : d.iblock <= b => d.iblock <= e.iblock}

vdfs4_find_last_extent(I) ==
    {e \in I.exttree : \A d \in I.exttree : d.iblock <= e.iblock}

vdfs4_exttree_get_extent(I, b) ==
    LET found == vdfs4_exttree_find_record_strict_obj(I, b)
    IN IF found = {} THEN Extent(0, 0, 0) ELSE CHOOSE e \in found : TRUE

HintAfter(e, b) == IF b = e.iblock + e.count THEN e.first + e.count ELSE 0

\* The extent that holds b, or first = 0 and the hint for its allocation.
vdfs4_get_iblock_extent(I, b) ==
    LET infork == {i \in DOMAIN I.fork : Holds(I.fork[i], b)}
        tree == vdfs4_exttree_get_extent(I, b)
        none(h) == [extent |-> Extent(0, 0, 0), hint |-> h]
    IN IF I.total = 0 \/ I.fork = <<>> THEN none(0)
       ELSE IF infork # {} THEN [extent |-> I.fork[Min(infork)], hint |-> 0]
       ELSE IF Len(I.fork) < ForkExtents THEN none(HintAfter(Last(I.fork), b))
       ELSE IF tree.first = 0 THEN none(HintAfter(Last(I.fork), b))
       ELSE IF Holds(tree, b) THEN [extent |-> tree, hint |-> 0]
       ELSE none(HintAfter(tree, b))

IsMapped(I, b) == vdfs4_get_iblock_extent(I, b).extent.first # 0

--------------------------------------------------------------------------------
(* Insertion of an allocated extent *)

Done(I) == [I |-> I, err |-> FALSE]
Failed(I) == [I |-> I, err |-> TRUE]

vdfs4_extree_insert_extent(I, e) == [I EXCEPT !.exttree = @ \cup {e}]

\* The overflow tree has a record with this key: the insertion fails (-EEXIST).
KeyExists(I, e) == \E d \in I.exttree : d.iblock = e.iblock

\* Mutant of insert_extent: the extent that a full fork has to give up is dropped.
insert_extent_drops(I, e, erase, fail) ==
    LET pos == Cardinality({i \in DOMAIN I.fork : I.fork[i].iblock <= e.iblock})
        placed == InsertAt(I.fork, pos + 1, e)
    IN IF fail THEN Failed(I)
       ELSE Done([I EXCEPT !.total = @ + e.count,
                           !.fork = IF Len(placed) > ForkExtents THEN Front(placed) ELSE placed])

\* Mutant of insert_extent: with the fork full, every extent goes to the overflow tree.
insert_extent_to_tree(I, e, erase, fail) ==
    IF fail THEN Failed(I)
    ELSE IF Len(I.fork) < ForkExtents
         THEN Done([I EXCEPT !.total = @ + e.count,
                    !.fork = InsertAt(@, 1 + Cardinality({i \in DOMAIN @ :
                                                            @[i].iblock <= e.iblock}), e)])
    ELSE Done([vdfs4_extree_insert_extent(I, e) EXCEPT !.total = @ + e.count])

\* fail: the zeroing of the blocks, or the insertion into the overflow tree, fails.
\* A full fork pushes its last extent out when the new one goes before it.
insert_extent(I, e, erase, fail) ==
    LET before == {i \in DOMAIN I.fork : I.fork[i].iblock <= e.iblock}
        pos == Cardinality(before)
        prev == I.fork[pos]
        count(J) == [J EXCEPT !.total = Plus(@, e.count)]
        placed == InsertAt(I.fork, pos + 1, e)
        out == IF pos = ForkExtents THEN e ELSE Last(I.fork)
    IN IF erase /\ fail THEN Failed(I)
       ELSE IF pos > 0 /\ prev.iblock + prev.count = e.iblock
                       /\ prev.first + prev.count = e.first
          THEN Done(count([I EXCEPT !.fork[pos].count = @ + e.count]))
       ELSE IF Len(I.fork) < ForkExtents
          THEN Done(count([I EXCEPT !.fork = placed]))
       ELSE IF fail \/ KeyExists(I, out) THEN Failed(I)
       ELSE Done(count([vdfs4_extree_insert_extent(I, out) EXCEPT
                            !.fork = IF pos = ForkExtents THEN @ ELSE Front(placed)]))

--------------------------------------------------------------------------------
(* The list of runtime extents *)

vdfs4_runtime_extent_exists(list, b) == \E i \in DOMAIN list : Holds(list[i], b)

vdfs4_runtime_extent_count(list) ==
    FoldLeft(LAMBDA n, e : n + e.count, 0, list)

RuntimeErr(list) == [list |-> list, err |-> TRUE]
RuntimeOk(list) == [list |-> list, err |-> FALSE]

\* Mutant of vdfs4_runtime_extent_add: a block that is on the list already is added again.
runtime_extent_add_twice(list, b, hint, mem) ==
    IF mem THEN RuntimeOk(Append(list, Runtime(b, 1, hint))) ELSE RuntimeErr(list)

vdfs4_runtime_extent_add(list, b, hint, mem) ==
    LET stops(e) == \/ e.iblock + e.count = b \/ e.iblock = b + 1
                    \/ Holds(e, b) \/ e.iblock > b
        i == SelectInSeq(list, stops)
        e == list[i]
        longer == [e EXCEPT !.count = @ + 1]
        joins == i < Len(list) /\ list[i + 1].iblock = b + 1
        joined == [list[i + 1] EXCEPT !.iblock = e.iblock, !.count = @ + longer.count]
        new == Runtime(b, 1, hint)
    IN IF i = 0 THEN IF mem THEN RuntimeOk(Append(list, new)) ELSE RuntimeErr(list)
       ELSE IF e.iblock + e.count = b
          THEN RuntimeOk(IF joins THEN RemoveAt(ReplaceAt(list, i + 1, joined), i)
                                  ELSE ReplaceAt(list, i, longer))
       ELSE IF e.iblock = b + 1
          THEN RuntimeOk(ReplaceAt(list, i, [longer EXCEPT !.iblock = b]))
       ELSE IF Holds(e, b) \/ ~mem THEN RuntimeErr(list)
       ELSE RuntimeOk(InsertAt(list, i, new))

\* Cutting an entry in its middle puts the upper part before the lower one.
vdfs4_runtime_extent_del(list, b, mem) ==
    LET i == SelectInSeq(list, LAMBDA e : Holds(e, b))
        e == list[i]
        upper == Runtime(b + 1, e.iblock + e.count - (b + 1), 0)
        lower == [e EXCEPT !.count = b - e.iblock]
    IN IF i = 0 THEN RuntimeErr(list)
       ELSE IF e.iblock = b
          THEN RuntimeOk(IF e.count = 1 THEN RemoveAt(list, i)
                         ELSE ReplaceAt(list, i, [e EXCEPT !.iblock = b + 1, !.count = @ - 1]))
       ELSE IF e.iblock + e.count = b + 1
          THEN RuntimeOk(ReplaceAt(list, i, lower))
       ELSE IF ~mem THEN RuntimeErr(list)
       ELSE RuntimeOk(InsertAt(ReplaceAt(list, i, lower), i, upper))

vdfs4_truncate_runtime_blocks(list, size) ==
    LET keep == SelectSeq(list, LAMBDA e : e.iblock < size)
    IN [i \in DOMAIN keep |-> [keep[i] EXCEPT !.count = Min({@, size - keep[i].iblock})]]

--------------------------------------------------------------------------------
(* Buffered writes: vdfs4_write_begin reserves, vdfs4_write_end moves i_size *)

Writable(f, b) == op[f] = Idle /\ b < MaxBlocks[f]

\* No removal from the overflow tree has failed, and no crash has found an extent
\* in the fork and in the tree.  When one of the two has happened, truncation frees
\* what is free already or belongs to others: the model has no calls after that.
NothingTwice == harm \cap {"remove", "pushed"} = {}

Call == NothingTwice /\ calls < MaxCalls /\ calls' = calls + 1

\* vdfs4_write_end marks the inode when i_size has changed.
Grow(I, b) ==
    IF b < I.size THEN I ELSE mark_inode_dirty([I EXCEPT !.size = b + 1])

\* A block that is mapped or already delayed.
Overwrite(f, b) ==
    /\ Call
    /\ Writable(f, b)
    /\ IsMapped(inode[f], b) \/ vdfs4_runtime_extent_exists(inode[f].runtime, b)
    /\ inode[f].size <= b
    /\ inode' = [inode EXCEPT ![f] = Grow(@, b)]
    /\ UNCHANGED <<fsm, op, area, disk, harm, reused, lost>>

\* vdfs4_get_block_prep_da for a new block; without memory for the runtime
\* extent the reservation is taken back.
vdfs4_get_block_prep_da(f, b) ==
    /\ Call
    /\ Writable(f, b)
    /\ ~IsMapped(inode[f], b)
    /\ ~vdfs4_runtime_extent_exists(inode[f].runtime, b)
    /\ CanReserve(fsm, 1)
    /\ LET add == vdfs4_runtime_extent_add(inode[f].runtime, b,
                      vdfs4_get_iblock_extent(inode[f], b).hint, TRUE)
       IN /\ fsm' = IF add.err
                    THEN vdfs4_free_reserved_space(vdfs4_reserve_space(fsm, 1), 1)
                    ELSE vdfs4_reserve_space(fsm, 1)
          /\ inode' = IF add.err THEN inode
                      ELSE [inode EXCEPT ![f] = Grow([@ EXCEPT !.runtime = add.list], b)]
    /\ UNCHANGED <<op, area, disk, harm, reused, lost>>

--------------------------------------------------------------------------------
(* Allocation of the delayed blocks *)

\* The flusher, or a sync, takes truncate_mutex for vdfs4_allocate_space.
vdfs4_writepages(f) ==
    /\ op[f].lock = "free"
    /\ inode[f].runtime # <<>>
    /\ op' = [op EXCEPT ![f].lock = "flusher"]
    /\ UNCHANGED <<fsm, inode, area, disk, harm, calls, reused, lost>>

Allocating(o) == \/ o.lock = "flusher"
                 \/ o.lock = "call" /\ o.call = "fallocate"

\* vdfs4_allocate_space returns: its caller is the flusher or fallocate.
Return(o, err) ==
    [o EXCEPT !.lock = "free",
              !.call = IF o.lock = "flusher" THEN @ ELSE IF err THEN "undo" ELSE "finish"]

\* One turn of the loop of vdfs4_allocate_space: the first entry gets all it
\* asks for or a part of it.  The inode is marked only at the end of a loop
\* without error, not for the extents a failing one has inserted.  Without any
\* space VDFS4_BUG ends the thread, and its locks are never released.
vdfs4_allocate_space(f) ==
    /\ Allocating(op[f])
    /\ inode[f].runtime # <<>>
    /\ \E mem \in NodeMemory, fail \in BOOLEAN :
       LET e == Head(inode[f].runtime) IN
       \E r \in vdfs4_fsm_get_free_block(fsm, e.hint, e.count, e.count, "delayed", mem) :
         LET ins == insert_extent(inode[f], Extent(e.iblock, r.start, r.length),
                                  op[f].lock = "call", fail)
             left == [e EXCEPT !.iblock = @ + r.length, !.count = @ - r.length]
             list == IF left.count = 0 THEN Tail(ins.I.runtime)
                     ELSE ReplaceAt(ins.I.runtime, 1, left)
             done == [ins.I EXCEPT !.runtime = list]
         IN IF r.start = 0 \/ ins.err
            THEN /\ fsm' = IF r.start = 0 THEN r.F
                           ELSE fsm_free_block_chunk(r.F, r.start, r.length, "reserve", mem)
                 /\ op' = [op EXCEPT ![f] = IF r.start = 0 THEN [@ EXCEPT !.lock = "dead"]
                                            ELSE Return(@, TRUE)]
                 /\ UNCHANGED <<inode, reused>>
            ELSE /\ fsm' = r.F
                 /\ inode' = [inode EXCEPT ![f] = IF list = <<>> THEN mark_inode_dirty(done)
                                                  ELSE done]
                 /\ op' = [op EXCEPT ![f] = IF list = <<>> THEN Return(@, FALSE) ELSE @]
                 /\ reused' = reused \cup (Run(r.start, r.length) \cap disk.bitmap)
    /\ UNCHANGED <<area, disk, harm, calls, lost>>

\* The blocks a call of fallocate has reserved: no page is behind them.
Unwritten(o) == IF o.call \in {"fallocate", "undo"} THEN o.from..(o.to - 1) ELSE {}

\* vdfs4_mpage_writepage meets a delayed page that vdfs4_allocate_space has not
\* served, because it failed or because the page was written after it.  When the
\* block cannot be had either, vdfs4_fatal_error panics: that is a crash.
vdfs4_get_block_da(f, b) ==
    /\ op[f].lock = "free"
    /\ vdfs4_runtime_extent_exists(inode[f].runtime, b)
    /\ b \notin Unwritten(op[f])
    /\ \E mem \in NodeMemory, fail \in BOOLEAN :
       \E r \in vdfs4_fsm_get_free_block(fsm, vdfs4_get_iblock_extent(inode[f], b).hint,
                                         1, 1, "delayed", mem) :
         LET ins == insert_extent(inode[f], Extent(b, r.start, 1), FALSE, fail)
             del == vdfs4_runtime_extent_del(ins.I.runtime, b, TRUE)
         IN /\ r.start # 0
            /\ ~ins.err
            /\ fsm' = r.F
            /\ inode' = [inode EXCEPT ![f] =
                            mark_inode_dirty([ins.I EXCEPT !.runtime = del.list])]
            /\ reused' = reused \cup ({r.start} \cap disk.bitmap)
    /\ UNCHANGED <<op, area, disk, harm, calls, lost>>

--------------------------------------------------------------------------------
(* Direct writes map a block at once; the page cache was flushed before *)

vdfs4_direct_IO(f, b) ==
    /\ Call
    /\ Writable(f, b)
    /\ ~IsMapped(inode[f], b)
    /\ ~vdfs4_runtime_extent_exists(inode[f].runtime, b)
    /\ \E mem \in NodeMemory, fail \in BOOLEAN :
       \E r \in vdfs4_fsm_get_free_block(fsm, vdfs4_get_iblock_extent(inode[f], b).hint,
                                         1, 1, "plain", mem) :
         LET ins == insert_extent(inode[f], Extent(b, r.start, 1), FALSE, fail)
             grown == Grow(inode[f], inode[f].total - 1)
         IN IF r.start = 0 \/ ins.err
            THEN /\ fsm' = IF r.start = 0 THEN r.F
                           ELSE fsm_free_block_chunk(r.F, r.start, 1, "unused", mem)
                 /\ inode' = [inode EXCEPT ![f] = grown]
                 /\ UNCHANGED reused
            ELSE /\ fsm' = r.F
                 /\ inode' = [inode EXCEPT ![f] = Grow(mark_inode_dirty(ins.I), b)]
                 /\ reused' = reused \cup ({r.start} \cap disk.bitmap)
    /\ UNCHANGED <<op, area, disk, harm, lost>>

--------------------------------------------------------------------------------
(* fallocate *)

\* The loop that reserves the unmapped blocks from b up to end: S is the state
\* of the loop; at is the block it has got to.
ReserveBlock(S, b) ==
    LET add == vdfs4_runtime_extent_add(S.I.runtime, b,
                   vdfs4_get_iblock_extent(S.I, b).hint, TRUE)
    IN IF S.err THEN S
       ELSE IF IsMapped(S.I, b) THEN [S EXCEPT !.at = b + 1]
       ELSE IF ~CanReserve(S.F, 1) \/ add.err THEN [S EXCEPT !.err = TRUE]
       ELSE [S EXCEPT !.F = vdfs4_reserve_space(@, 1), !.I.runtime = add.list, !.at = b + 1]

\* The error path: the runtime extents of the blocks below S.at go, last first.
UndoBlock(S, b) ==
    LET del == vdfs4_runtime_extent_del(S.I.runtime, b, TRUE)
    IN IF b >= S.at \/ del.err THEN S
       ELSE [S EXCEPT !.F = vdfs4_free_reserved_space(@, 1), !.I.runtime = del.list]

BlocksFrom(a, b) == [i \in 1..(b - a) |-> a + i - 1]
Undo(S, a, b) == FoldLeft(UndoBlock, S, Reverse(BlocksFrom(a, b)))

vdfs4_fallocate(f, from, to) ==
    LET S == FoldLeft(ReserveBlock, [F |-> fsm, I |-> inode[f], at |-> from, err |-> FALSE],
                      BlocksFrom(from, to))
        R == IF S.err THEN Undo(S, from, to) ELSE S
    IN /\ op[f] = Idle
       /\ Call
       /\ from < to
       /\ to <= MaxBlocks[f]
       /\ to > inode[f].size
       /\ fsm' = R.F
       /\ inode' = [inode EXCEPT ![f] = R.I]
       /\ op' = IF S.err THEN op
                ELSE [op EXCEPT ![f] = [call |-> "fallocate", lock |-> "free",
                                        from |-> from, to |-> to]]
       /\ UNCHANGED <<area, disk, harm, reused, lost>>

\* vdfs4_allocate_space(i_info, 1), unless writeback has done it already.
FallocateAllocate(f) ==
    /\ op[f].call = "fallocate"
    /\ op[f].lock = "free"
    /\ op' = [op EXCEPT ![f] = IF inode[f].runtime = <<>>
                               THEN Return([@ EXCEPT !.lock = "call"], FALSE)
                               ELSE [@ EXCEPT !.lock = "call"]]
    /\ UNCHANGED <<fsm, inode, area, disk, harm, calls, reused, lost>>

\* The end of fallocate; keep is FALLOC_FL_KEEP_SIZE.
FallocateFinish(f, keep) ==
    /\ op[f].call = "finish"
    /\ op[f].lock = "free"
    /\ inode' = [inode EXCEPT ![f] = mark_inode_dirty([@ EXCEPT
                                        !.size = IF keep THEN @ ELSE op[f].to])]
    /\ op' = [op EXCEPT ![f] = Idle]
    /\ UNCHANGED <<fsm, area, disk, harm, calls, reused, lost>>

\* The error path: blocks that were allocated stay, and the inode is not marked.
FallocateUndo(f) ==
    LET R == Undo([F |-> fsm, I |-> inode[f], at |-> op[f].to, err |-> TRUE],
                  op[f].from, op[f].to)
    IN /\ op[f].call = "undo"
       /\ op[f].lock = "free"
       /\ fsm' = R.F
       /\ inode' = [inode EXCEPT ![f] = R.I]
       /\ op' = [op EXCEPT ![f] = Idle]
       /\ UNCHANGED <<area, disk, harm, calls, reused, lost>>

--------------------------------------------------------------------------------
(* Truncation: vdfs4_truncate_blocks through vdfs4_setattr *)

Truncating(f) == NothingTwice /\ op[f].call = "truncate" /\ op[f].lock = "call"

vdfs4_truncate_blocks(f, n) ==
    LET list == vdfs4_truncate_runtime_blocks(inode[f].runtime, n)
        freed == vdfs4_runtime_extent_count(inode[f].runtime)
                     - vdfs4_runtime_extent_count(list)
    IN /\ op[f] = Idle
       /\ Call
       /\ n < inode[f].size
       /\ inode' = [inode EXCEPT ![f].runtime = list]
       /\ fsm' = vdfs4_free_reserved_space(fsm, freed)
       /\ op' = [op EXCEPT ![f] = [call |-> "truncate", lock |-> "call", from |-> 0, to |-> n]]
       /\ UNCHANGED <<area, disk, harm, reused, lost>>

\* The part of extent e that lies at or beyond block n.
Beyond(e, n) == IF e.iblock >= n THEN e.count ELSE Max({0, e.iblock + e.count - n})

Cut(e, n) == [e EXCEPT !.count = @ - Beyond(e, n)]

FreeTail(f, e, mem) ==
    LET k == Beyond(e, op[f].to)
    IN fsm_free_block_chunk(fsm, e.first + e.count - k, k, "committed", mem)

LoopsExttree(f) ==
    /\ Len(inode[f].fork) = ForkExtents
    /\ \E e \in vdfs4_find_last_extent(inode[f]) : Beyond(e, op[f].to) > 0

\* One turn of truncate_exttree: the last record goes or loses its tail.  The
\* result of vdfs4_exttree_remove is not looked at: when it fails the record stays,
\* and the next turn frees its blocks again, though a commit that is let in may
\* have given them to another file.
truncate_exttree(f) ==
    /\ Truncating(f)
    /\ LoopsExttree(f)
    /\ \E mem \in NodeMemory, removed \in BOOLEAN, e \in vdfs4_find_last_extent(inode[f]) :
         LET rest == inode[f].exttree \ {e}
             cut == Cut(e, op[f].to)
         IN /\ removed \/ cut.count = 0
            /\ fsm' = FreeTail(f, e, mem)
            /\ inode' = [inode EXCEPT ![f].exttree = IF ~removed THEN @
                                                     ELSE IF cut.count = 0 THEN rest
                                                     ELSE rest \cup {cut},
                                      ![f].total = Minus(@, Beyond(e, op[f].to))]
            /\ harm' = IF removed THEN harm ELSE harm \cup {"remove"}
    /\ UNCHANGED <<op, area, disk, calls, reused, lost>>

\* vdfs4_find_last_extent fails: vdfs4_setattr returns without marking the inode.
TruncateFails(f) ==
    /\ Truncating(f)
    /\ LoopsExttree(f)
    /\ op' = [op EXCEPT ![f] = Idle]
    /\ UNCHANGED <<fsm, inode, area, disk, harm, calls, reused, lost>>

\* Short of metadata space, the loop lets a commit in between two turns.
TruncateYield(f) ==
    /\ Truncating(f)
    /\ LoopsExttree(f)
    /\ op' = [op EXCEPT ![f].lock = "free"]
    /\ UNCHANGED <<fsm, inode, area, disk, harm, calls, reused, lost>>

TruncateResume(f) ==
    /\ op[f].call = "truncate"
    /\ op[f].lock = "free"
    /\ op' = [op EXCEPT ![f].lock = "call"]
    /\ UNCHANGED <<fsm, inode, area, disk, harm, calls, reused, lost>>

\* One turn of truncate_fork: the last extent of the fork goes or is cut.
truncate_fork(f) ==
    /\ Truncating(f)
    /\ ~LoopsExttree(f)
    /\ inode[f].fork # <<>>
    /\ Beyond(Last(inode[f].fork), op[f].to) > 0
    /\ \E mem \in NodeMemory :
         LET e == Last(inode[f].fork)
             cut == Cut(e, op[f].to)
         IN /\ fsm' = FreeTail(f, e, mem)
            /\ inode' = [inode EXCEPT ![f].fork = IF cut.count = 0 THEN Front(@)
                                                  ELSE Append(Front(@), cut),
                                      ![f].total = Minus(@, Beyond(e, op[f].to))]
    /\ UNCHANGED <<op, area, disk, harm, calls, reused, lost>>

\* vdfs4_update_inode sets the new size when the blocks are gone, and
\* vdfs4_setattr marks the inode.
vdfs4_update_inode(f) ==
    /\ Truncating(f)
    /\ ~LoopsExttree(f)
    /\ inode[f].fork # <<>> => Beyond(Last(inode[f].fork), op[f].to) = 0
    /\ inode' = [inode EXCEPT ![f] = mark_inode_dirty([@ EXCEPT !.size = op[f].to])]
    /\ op' = [op EXCEPT ![f] = Idle]
    /\ UNCHANGED <<fsm, area, disk, harm, calls, reused, lost>>

--------------------------------------------------------------------------------
(* The metadata area, commit and crash *)

\* expand_area asks for whole superpages.
expand_area ==
    /\ area = {}
    /\ Call
    /\ \E l \in AreaStep, mem \in NodeMemory :
       \E r \in vdfs4_fsm_get_free_block(fsm, 0, l, SuperPage, "aligned", mem) :
         /\ fsm' = r.F
         /\ area' = Run(r.start, r.length)
         /\ reused' = reused \cup (Run(r.start, r.length) \cap disk.bitmap)
    /\ UNCHANGED <<inode, op, disk, harm, lost>>

\* Other changes of attributes (chmod, the times of a write) mark the inode too;
\* to an inode whose record is right already that makes no difference here.
vdfs4_setattr(f) ==
    /\ op[f] = Idle
    /\ inode[f].record \notin {{}, {Fields(inode[f])}}
    /\ inode' = [inode EXCEPT ![f] = mark_inode_dirty(@)]
    /\ UNCHANGED <<fsm, op, area, disk, harm, calls, reused, lost>>

WriteFields(I) == [I EXCEPT !.record = {Fields(I)}]

\* The flusher writes a dirty inode into its record.
vdfs4_write_inode(f) ==
    /\ inode[f].record = {}
    /\ inode' = [inode EXCEPT ![f] = WriteFields(@)]
    /\ UNCHANGED <<fsm, op, area, disk, harm, calls, reused, lost>>

\* What the next mount reads: the record, and the overflow tree as it is.
OnDisk(I) ==
    LET r == CHOOSE r \in I.record : TRUE
    IN [I EXCEPT !.fork = r.fork, !.total = r.total, !.size = r.size, !.runtime = <<>>]

\* What a commit of I, which is not dirty, leaves out: changes of the inode that
\* nobody marked, among them an extent pushed out of the fork, which is then on
\* disk twice.
Missed(I) ==
    LET D == OnDisk(I)
        twice == \E i \in DOMAIN D.fork, e \in I.exttree :
                    Run(D.fork[i].first, D.fork[i].count) \cap Run(e.first, e.count) # {}
    IN IF I.record = {Fields(I)} THEN {}
       ELSE IF twice THEN {"unmarked", "pushed"} ELSE {"unmarked"}

\* vdfs4_sync_fs: no transaction or writeback is open, sync_inodes_sb has
\* allocated every delayed block and written the inodes that are marked dirty,
\* and vdfs4_sync_metadata ends with vdfs4_commit_free_space.
Commit ==
    LET written == [f \in File |-> IF inode[f].record = {} THEN WriteFields(inode[f])
                                   ELSE inode[f]]
    IN /\ \A f \in File : /\ op[f].lock = "free"
                          /\ op[f].call \in {"none", "truncate"}
                          /\ inode[f].runtime = <<>>
       /\ \E order \in SetToSeqs(fsm.next) : fsm' = vdfs4_commit_free_space(fsm, order)
       /\ inode' = written
       /\ disk' = [inode |-> [f \in File |-> OnDisk(written[f])], bitmap |-> fsm.bitmap,
                   area |-> area, missed |-> UNION {Missed(written[f]) : f \in File}]
       /\ reused' = {}
       /\ lost' = lost \cup (DiscardedBlocks(fsm) \cap fsm.bitmap)
       /\ UNCHANGED <<op, area, harm, calls>>

\* Power fails; the next mount builds the manager from the committed bitmap.
Crash ==
    /\ fsm' = vdfs4_fsm_build_management(disk.bitmap, TRUE)
    /\ inode' = disk.inode
    /\ op' = [f \in File |-> Idle]
    /\ area' = disk.area
    /\ harm' = harm \cup disk.missed
    /\ disk' = [disk EXCEPT !.missed = {}]
    /\ reused' = {}
    /\ UNCHANGED <<calls, lost>>

ImageBitmap ==
    Boot \cup UNION {Run(Image[f][i].first, Image[f][i].count) :
                       <<f, i>> \in {<<g, j>> \in File \X (1..ForkExtents) : j <= Len(Image[g])}}

Init ==
    /\ fsm = vdfs4_fsm_build_management(ImageBitmap, TRUE)
    /\ inode = [f \in File |-> Mounted(Image[f])]
    /\ op = [f \in File |-> Idle]
    /\ area = {}
    /\ disk = [inode |-> [f \in File |-> Mounted(Image[f])], bitmap |-> ImageBitmap,
               area |-> {}, missed |-> {}]
    /\ harm = {}
    /\ calls = 0
    /\ reused = {}
    /\ lost = {}

FileNext(f) ==
    \/ \E b \in 0..(MaxBlocks[f] - 1) : \/ Overwrite(f, b)
                                        \/ vdfs4_get_block_prep_da(f, b)
                                        \/ vdfs4_get_block_da(f, b)
                                        \/ vdfs4_direct_IO(f, b)
    \/ vdfs4_writepages(f)
    \/ vdfs4_allocate_space(f)
    \/ \E from, to \in 0..MaxBlocks[f] : vdfs4_fallocate(f, from, to)
    \/ FallocateAllocate(f)
    \/ \E keep \in BOOLEAN : FallocateFinish(f, keep)
    \/ FallocateUndo(f)
    \/ \E n \in 0..MaxBlocks[f] : vdfs4_truncate_blocks(f, n)
    \/ truncate_exttree(f)
    \/ TruncateYield(f)
    \/ TruncateResume(f)
    \/ truncate_fork(f)
    \/ TruncateFails(f)
    \/ vdfs4_update_inode(f)
    \/ vdfs4_setattr(f)
    \/ vdfs4_write_inode(f)

Next == \/ \E f \in File : FileNext(f)
        \/ expand_area
        \/ Commit
        \/ Crash

Spec == Init /\ [][Next]_vars

--------------------------------------------------------------------------------
(* Properties *)

Extents(I) == {I.fork[i] : i \in DOMAIN I.fork} \cup I.exttree
Owned(I) == UNION {Run(e.first, e.count) : e \in Extents(I)}
RuntimeOf(I) == {I.runtime[i] : i \in DOMAIN I.runtime}

\* The direct write that fails sets i_size to a total_block_count that has
\* wrapped only after a crash found an inode nobody had marked.
TypeOK ==
    /\ fsm.bitmap \subseteq Blocks
    /\ fsm.free \in 0..Volume
    /\ fsm.reserved \in 0..Volume
    /\ fsm.untracked \in 0..Volume
    /\ harm \subseteq {"remove", "unmarked", "pushed"}
    /\ \A f \in File : /\ Len(inode[f].fork) <= ForkExtents
                       /\ inode[f].total \in 0..(CountWrap - 1)
                       /\ harm # {} \/ inode[f].size \in 0..MaxBlocks[f]

\* What fsm_verify_state asserts after every commit and rebuild holds after
\* every call, and every clear bit of the bitmap is counted exactly once, as
\* free, reserved or freed since the last commit.  No BUG_ON of fsm.c and no
\* "already free" error is reached; except after the two failures that make
\* truncation free an extent twice: vdfs4_exttree_remove failed, or a crash found
\* an extent in the fork and in the overflow tree, because the inode it was
\* pushed out of was never marked dirty.
SpaceAccounted ==
    NothingTwice =>
    /\ ~fsm.bug
    /\ ~fsm.fatal
    /\ ~fsm.skipped
    /\ fsm_verify_state(fsm)
    /\ fsm.free + fsm.reserved + fsm.next_blocks = Cardinality(Blocks \ fsm.bitmap)
    /\ \A n \in fsm.area \cup fsm.next : Run(n.start, n.length) \cap fsm.bitmap = {}
    /\ \A n \in fsm.area, m \in fsm.next :
          Run(n.start, n.length) \cap Run(m.start, m.length) = {}

\* The blocks all extents of a file have, counted extent by extent.
Blocked(I) == FoldLeft(LAMBDA n, e : n + e.count, 0, I.fork)
                + MapThenSumSet(LAMBDA e : e.count, I.exttree)

\* No block is used twice, by two files, two extents or a file and the metadata
\* area, and none in use is free: a failed insertion, an undone fallocate, a
\* truncation that lets a commit in and a crash do not share a block, but for the
\* two failures of NothingTwice.  And no block leaks and the counts of the inodes
\* are right, as long as no crash found an inode that was changed and not marked.
EachBlockOneOwner ==
    LET runs == [f \in File |-> {Run(e.first, e.count) : e \in Extents(inode[f])}]
        used == UNION {Boot, area, UNION {UNION runs[f] : f \in File}}
    IN /\ NothingTwice =>
            /\ used \subseteq fsm.bitmap
            /\ Cardinality(used) = Cardinality(Boot) + Cardinality(area)
                   + MapThenSumSet(LAMBDA f : Blocked(inode[f]), File)
       /\ harm = {} =>
            /\ fsm.bitmap = used
            /\ \A f \in File : inode[f].total = Blocked(inode[f])

\* The extents of a file map each of its blocks at most once, in order, the
\* overflow tree after the fork; the tree is used only when the fork is full,
\* because vdfs4_truncate_blocks looks into it only then.  A record written too
\* early, which is what an inode that nobody marked leaves on disk, breaks this.
ExtentsOrdered ==
    harm = {} => \A f \in File :
        LET I == inode[f] IN
        /\ \A i \in 1..(Len(I.fork) - 1) :
              I.fork[i].iblock + I.fork[i].count <= I.fork[i + 1].iblock
        /\ \A e \in I.exttree : \A i \in DOMAIN I.fork :
              I.fork[i].iblock + I.fork[i].count <= e.iblock
        /\ \A d, e \in I.exttree : d # e => \/ d.iblock + d.count <= e.iblock
                                           \/ e.iblock + e.count <= d.iblock
        /\ I.exttree # {} => Len(I.fork) = ForkExtents

\* The reserve counter is the number of delayed blocks: each is on the list of
\* one file, once, and not mapped (unless a crash has left an overflow tree that
\* look-ups reach only when the fork fills up).
ReserveMatchesRuntime ==
    /\ fsm.reserved =
          MapThenSumSet(LAMBDA f : vdfs4_runtime_extent_count(inode[f].runtime), File)
    /\ \A f \in File : \A b \in 0..MaxBlocks[f] :
          LET on == {i \in DOMAIN inode[f].runtime : Holds(inode[f].runtime[i], b)} IN
          /\ Cardinality(on) <= 1
          /\ on # {} => harm # {} \/ ~IsMapped(inode[f], b)

\* A block that the committed metadata uses is not handed out again before the
\* next commit, or a crash would show the file someone else's data; unless
\* fsm_rebuild_tree had to forget freed extents it has no node for.
NoReuseBeforeCommit == fsm.forgot \/ reused = {}

\* fsm_delayed_discard never discards a block that is in use.
DiscardsOnlyFree == lost = {}

\* The comment in vdfs4_allocate_space: "it shouldn't happen because space was
\* reserved early in aio_write".
ReservedSpaceFound == \A f \in File : op[f].lock # "dead"
================================================================================
