--------------------------------- MODULE BTree ---------------------------------
(* The B-trees of the catalog, the extents and the extended attributes         *)
(* (btree.c, bnode.c; the tools have a copy of the algorithm): search, insert  *)
(* with splits, remove with merges, the bitmap of bnodes and the reserve kept  *)
(* for splits.                                                                 *)
(*                                                                             *)
(* An operation runs under the lock of its tree, so it is an operator from one *)
(* tree T to the next.  A bnode is a sequence of records; the table of offsets *)
(* behind it is left out, the free space it decides on is kept.  T.mem counts  *)
(* the bnodes that can still be read into memory during the operation: with    *)
(* none left an allocation fails.  T.items tells whether there is memory to    *)
(* note that an index record is missing.  T.user tells the tools (USER_SPACE) from    *)
(* the driver: they keep the bnodes in an array and have no reserve.           *)
EXTENDS Bnode, FiniteSets, FiniteSetsExt

CONSTANTS IndexLen,    \* length of an index record
          BitsNum,     \* bits of the bitmap in the head bnode
          Reserve,     \* bnodes reserved per level (4)
          MaxAvail     \* bnodes the metadata area has room for

ASSUME BTreeAssumption ==
    /\ IndexLen \in Nat \ {0}
    /\ BitsNum \in Nat \ {0, 1}
    /\ Reserve \in Nat
    /\ MaxAvail \in 2..BitsNum

NodeIds == 1..(BitsNum - 1)
Unused == vdfs4_init_new_node_descr

Recs(T, id) == T.node[id].recs
Bug(T) == [T EXCEPT !.bug = TRUE]
Short(T) == [T EXCEPT !.short = TRUE]             \* no bnode, or no note

--------------------------------------------------------------------------------
(* Bnodes *)

\* vdfs4_get_bnode refuses an id whose bit is clear.
vdfs4_get_bnode(T, id) == id \in T.used \ {0}

\* The bitmap of a tree with the given bits, as vdfs4_build_free_bnode_bitmap
\* counts it.
FirstFree(used) == Min({b \in 0..BitsNum : b \notin used})

vdfs4_build_free_bnode_bitmap(T) ==
    [T EXCEPT !.free_num = BitsNum - Cardinality(T.used), !.first_free_id = FirstFree(T.used)]

\* The file of the tree grows when a bnode past its end is created.
read_or_create_bnode_data(T, id) ==
    [T |-> [T EXCEPT !.mem = @ - 1, !.avail = Max({@, id + 1})],
     err |-> T.mem = 0 \/ id >= MaxAvail]

vdfs4_alloc_new_bnode(T) ==
    LET id == T.first_free_id
        data == read_or_create_bnode_data(T, id)
        used == T.used \cup {id}
    IN IF T.free_num = 0 THEN [T |-> Short(T), id |-> Invalid]
       ELSE IF id \in T.used THEN [T |-> Bug(T), id |-> Invalid]
       ELSE IF data.err THEN [T |-> Short(T), id |-> Invalid]
       ELSE [T |-> [data.T EXCEPT
                      !.used = used,
                      !.free_num = @ - 1,
                      !.first_free_id = Min({b \in id..BitsNum : b \notin used})],
             id |-> id]

\* Mutant of vdfs4_destroy_bnode: the first free id is not lowered.
destroy_keeps_first(T, id) ==
    [T EXCEPT !.used = @ \ {id}, !.free_num = @ + 1, !.node[id] = Unused]

vdfs4_destroy_bnode(T, id) ==
    IF id \notin T.used \ {0} THEN Bug(T)
    ELSE [T EXCEPT !.used = @ \ {id}, !.free_num = @ + 1, !.node[id] = Unused,
                   !.first_free_id = Min({@, id})]

\* The tools: the array of bnodes doubles when the first zero bit is past its end.
expand_tree(T) == [T EXCEPT !.avail = IF @ = 0 THEN 2 ELSE 2 * @]

tools_alloc_new_bnode(T) ==
    LET id == FirstFree(T.used)
        S == IF id + 1 > T.avail THEN expand_tree(T) ELSE T
    IN IF T.mem = 0 THEN [T |-> Short(T), id |-> Invalid]
       ELSE [T |-> [S EXCEPT !.used = @ \cup {id}, !.mem = @ - 1], id |-> id]

tools_destroy_bnode(T, id) ==
    IF id \notin T.used \ {0} THEN Bug(T)
    ELSE [T EXCEPT !.used = @ \ {id}, !.node[id] = Unused]

AllocBnode(T) == IF T.user THEN tools_alloc_new_bnode(T) ELSE vdfs4_alloc_new_bnode(T)
DestroyBnode(T, id) ==
    IF T.user THEN tools_destroy_bnode(T, id) ELSE vdfs4_destroy_bnode(T, id)

\* The file of the tree is extended until four bnodes per level are free: the
\* deficit is unsigned, and wraps around when there is none.
vdfs4_check_bnode_reserve(T) ==
    LET used == BitsNum - T.free_num
        wanted == Reserve * T.height + used
        err == wanted > MaxAvail
    IN [T |-> [T EXCEPT !.avail = Max({@, Min({wanted, MaxAvail})}), !.short = @ \/ err],
        err |-> err]

--------------------------------------------------------------------------------
(* Records of a bnode *)

insert_key_into_bnode(T, id, r, pos) ==
    IF is_node_full(T.node[id], r.len) THEN Bug(T)
    ELSE [T EXCEPT !.node[id] = __place_into_node(@, r, pos)]

delete_record(T, id, pos) == [T EXCEPT !.node[id] = delete_from_node(@, pos)]

--------------------------------------------------------------------------------
(* Search *)

\* A place on one level; todo has the bnodes found without an index record.
Place(id, pos, todo) == [id |-> id, pos |-> pos, todo |-> todo]
NotFound(todo) == Place(Invalid, 0, todo)

\* The index record of bnode to is missing one level up; without memory for the
\* note it stays so until somebody comes across the bnode.
put_add_index_work(T, level, to, root, todo) ==
    IF T.items THEN <<[level |-> level, to |-> to, root |-> root]>> \o todo ELSE todo

\* One level from bnode id to the right, over bnodes the level above does not
\* know of (dangling ones).
RECURSIVE btree_traverse_level(_, _, _, _, _)
btree_traverse_level(T, k, id, level, todo) ==
    LET pos == binary_search(Recs(T, id), k)
        next == T.node[id].next
        beyond == binary_search(Recs(T, next), k)
    IN IF ~vdfs4_get_bnode(T, id) \/ pos = 0 THEN NotFound(todo)
       ELSE IF pos < Len(Recs(T, id)) \/ next = Invalid THEN Place(id, pos, todo)
       ELSE IF ~vdfs4_get_bnode(T, next) THEN NotFound(todo)
       ELSE IF beyond = 0 THEN Place(id, pos, todo)
       ELSE btree_traverse_level(T, k, next, level,
                                 put_add_index_work(T, level + 1, next, T.root, todo))

\* From the root down to the level asked for; path[l] is the bnode taken at level l.
RECURSIVE TraverseFrom(_, _, _, _, _, _, _)
TraverseFrom(T, k, id, level, till, path, todo) ==
    LET at == btree_traverse_level(T, k, id, level, todo)
        below == [path EXCEPT ![level] = at.id]
    IN IF at.id = Invalid \/ level = till
       THEN [id |-> at.id, pos |-> at.pos, path |-> below, todo |-> at.todo]
       ELSE TraverseFrom(T, k, Recs(T, at.id)[at.pos].val, level - 1, till, below, at.todo)

vdfs4_btree_traverse(T, k, till) ==
    TraverseFrom(T, k, T.root, T.height, till, [l \in 1..T.height |-> Invalid], <<>>)

\* The last record not after k, 0 if there is none.
vdfs4_btree_find(T, k) ==
    LET at == vdfs4_btree_traverse(T, k, 1)
    IN IF at.id = Invalid THEN 0 ELSE Recs(T, at.id)[at.pos].key

\* The records from place (id, pos) on, over the chain of bnodes.
RECURSIVE RecordsFrom(_, _, _)
RecordsFrom(T, id, pos) ==
    IF id = Invalid THEN <<>>
    ELSE IF pos <= Len(Recs(T, id))
         THEN <<Recs(T, id)[pos]>> \o RecordsFrom(T, id, pos + 1)
    ELSE RecordsFrom(T, T.node[id].next, 1)

--------------------------------------------------------------------------------
(* Insertion *)

\* The records of left, with r at pos, over left and right: left is filled until
\* more than half of a bnode is used.  len is the length in the key of r, which
\* for an index record is that of the record the key was taken from.
SplitAt(T, left, r, pos, len) ==
    LET all == InsertAt(Recs(T, left), pos, r)
        size(i) == (IF i = pos THEN len ELSE all[i].len) + OffLen
        upto(n) == NodeSize - Unused.free + MapThenSumSet(size, 1..n)
        over == {n \in 1..Len(all) : upto(n) > NodeSize \div 2}
        cut == IF over = {} THEN Len(all) ELSE Min(over)
    IN <<SubSeq(all, 1, cut), SubSeq(all, cut + 1, Len(all))>>

Filled(recs) == FoldLeft(append_bnode, vdfs4_init_new_node_descr, recs)

SplitNodes(T, left, right, half) ==
    LET prev == T.node[left].prev
        next == T.node[left].next
        lower == [Filled(half[1]) EXCEPT !.prev = prev, !.next = right]
        upper == [Filled(half[2]) EXCEPT !.prev = left, !.next = next]
        S == [T EXCEPT !.node[left] = lower, !.node[right] = upper]
        linked == IF next = Invalid THEN S ELSE [S EXCEPT !.node[next].prev = right]
    IN IF lower.free >= 0 /\ upper.free >= 0 /\ half[2] # <<>> THEN linked ELSE Bug(linked)

\* Mutant of split_bnode: the place of a record that went right counts from the left.
split_keeps_pos(T, left, right, r, pos, len) ==
    LET half == SplitAt(T, left, r, pos, len)
        cut == Len(half[1])
    IN [T |-> SplitNodes(T, left, right, half), id |-> left, pos |-> Min({pos, cut})]

Halved(T, left, right, pos, half) ==
    LET cut == Len(half[1])
    IN [T |-> SplitNodes(T, left, right, half),
        id |-> IF pos <= cut THEN left ELSE right,
        pos |-> IF pos <= cut THEN pos ELSE pos - cut]

split_bnode(T, left, right, r, pos, len) ==
    Halved(T, left, right, pos, SplitAt(T, left, r, pos, len))

\* The caller of place_key_in_bnode writes the value at the place it is given.
Fill(T, id, pos, v) == [T EXCEPT !.node[id].recs[pos].val = v]

Placed(T, id, pos, todo) ==
    [T |-> T, id |-> id, pos |-> pos, todo |-> todo, err |-> FALSE]
PlaceError(T, todo) == [T |-> T, id |-> Invalid, pos |-> 0, todo |-> todo, err |-> TRUE]

\* After a split the new bnode waits for its index record one level up.
SplitDone(split, new, level, root, todo) ==
    IF new.id = Invalid THEN PlaceError(new.T, todo)
    ELSE Placed(IF split.T.items THEN split.T ELSE Short(split.T), split.id, split.pos,
                put_add_index_work(split.T, level + 1, new.id, root, todo))

SplitInto(new, level, root, id, pos, r, len, todo) ==
    SplitDone(split_bnode(new.T, id, new.id, r, pos, len), new, level, root, todo)

place_key_in_bnode(T, level, id, pos, r, len, todo) ==
    LET reserve == IF T.user THEN [T |-> T, err |-> FALSE] ELSE vdfs4_check_bnode_reserve(T)
    IN IF Recs(T, id)[pos].key = r.key THEN PlaceError(T, todo)
       ELSE IF ~is_node_full(T.node[id], r.len)
          THEN Placed(insert_key_into_bnode(T, id, r, pos + 1), id, pos + 1, todo)
       ELSE IF reserve.err THEN PlaceError(reserve.T, todo)
       ELSE SplitInto(AllocBnode(reserve.T), level, T.root, id, pos + 1, r, len, todo)

\* The page of a new root for the bnodes from id on, as many as fit.
RECURSIVE RootPage(_, _, _)
RootPage(T, id, page) ==
    IF id = Invalid \/ is_node_full(page, Recs(T, id)[1].len) THEN page
    ELSE RootPage(T, T.node[id].next,
                  append_bnode(page, Rec(Recs(T, id)[1].key, IndexLen, id)))

build_new_root(T, root) ==
    LET In(new) ==
            IF new.id = Invalid THEN new.T
            ELSE IF T.node[T.root].next = Invalid THEN DestroyBnode(new.T, new.id)
            ELSE [new.T EXCEPT
                     !.node[new.id] = RootPage(T, T.root, vdfs4_init_new_node_descr),
                     !.height = @ + 1,
                     !.root = new.id]
    IN IF root # T.root THEN T ELSE In(AllocBnode(T))

\* An error is not reported: the bnode stays dangling.
IndexDone(put, id) ==
    [T |-> IF put.err THEN put.T ELSE Fill(put.T, put.id, put.pos, id), todo |-> put.todo]

IndexAt(T, at, first, work, todo) ==
    IF at.id = Invalid THEN [T |-> T, todo |-> todo]
    ELSE IndexDone(place_key_in_bnode(T, work.level, at.id, at.pos,
                                      Rec(first.key, IndexLen, Invalid), first.len, todo),
                   work.to)

place_index_record(T, path, work, todo) ==
    LET first == Recs(T, work.to)[1]
    IN IF work.level \notin DOMAIN path
          THEN [T |-> build_new_root(T, work.root), todo |-> todo]
       ELSE IF ~vdfs4_get_bnode(T, work.to) THEN [T |-> T, todo |-> todo]
       ELSE IndexAt(T, btree_traverse_level(T, first.key, path[work.level], work.level, <<>>),
                    first, work, todo)

RECURSIVE DoWork(_, _, _)
DoWork(T, path, todo) ==
    LET Rest(done) == DoWork(done.T, path, done.todo)
    IN IF todo = <<>> THEN T ELSE Rest(place_index_record(T, path, Head(todo), Tail(todo)))

\* The record is placed, its value filled in, and all index work done.
DataDone(T, put, v) ==
    [T |-> IF put.err THEN T ELSE Fill(T, put.id, put.pos, v), err |-> put.err]

DataIndexed(put, path, v) == DataDone(DoWork(put.T, path, put.todo), put, v)

DataAt(T, at, r, level) ==
    IF at.id = Invalid THEN [T |-> T, err |-> TRUE]
    ELSE DataIndexed(place_key_in_bnode(T, level, at.id, at.pos, [r EXCEPT !.val = Invalid],
                                        r.len, at.todo),
                     at.path, r.val)

place_data_at_level(T, r, level) ==
    DataAt(T, vdfs4_btree_traverse(T, r.key, level), r, level)

--------------------------------------------------------------------------------
(* Removal *)

Result(T, err) == [T |-> T, err |-> err]

form_new_adding_record(T, id) == Rec(Recs(T, id)[1].key, IndexLen, id)

\* The index record of a bnode whose first key was removed is replaced: the new
\* one is inserted before the old one goes.
RECURSIVE btree_update_key(_, _, _, _)
btree_update_key(T, k, id, level) ==
    LET Cut(S, at) ==
            IF at.pos = 1 /\ level < S.height
            THEN IF Recs(S, at.id) = <<>> THEN Result(Bug(S), "error")
                 ELSE btree_update_key(S, k, at.id, level + 1)
            ELSE Result(S, "ok")
        Old(S, at) ==
            IF at.id = Invalid THEN Result(S, "error")
            ELSE IF Recs(S, at.id)[at.pos].key # k THEN Result(S, "ok")
            ELSE Cut(delete_record(S, at.id, at.pos), at)
        New(ins) == IF ins.err THEN Result(ins.T, "error")
                    ELSE Old(ins.T, vdfs4_btree_traverse(ins.T, k, level))
    IN New(place_data_at_level(T, form_new_adding_record(T, id), level))

\* Unlinks an empty bnode from its neighbours.
Unlink(T, id) ==
    LET prev == T.node[id].prev
        next == T.node[id].next
        S == IF prev = Invalid THEN T ELSE [T EXCEPT !.node[prev].next = next]
    IN IF next = Invalid THEN S ELSE [S EXCEPT !.node[next].prev = prev]

Merged(T, left, right) ==
    LET next == T.node[right].next
        S == [T EXCEPT !.node[left] = [merge_pages(@, T.node[right]) EXCEPT !.next = next]]
    IN IF next = Invalid THEN S ELSE [S EXCEPT !.node[next].prev = left]

is_bnode_dangling(T, parent, pos, id) == Recs(T, parent)[pos].val # id

\* Which neighbour a bnode is merged with: none, or the left and right bnode and
\* whether the right one has an index record.
MergePair(T, k, level, id) ==
    LET prev == T.node[id].prev
        next == T.node[id].next
        parent == vdfs4_btree_traverse(T, k, level + 1)
    IN IF level = T.height
       THEN IF prev # Invalid THEN {<<prev, id, TRUE>>}
            ELSE IF next # Invalid THEN {<<id, next, TRUE>>}
            ELSE {}
       ELSE IF parent.id = Invalid THEN {}
       ELSE IF parent.pos > 1
          THEN {<<prev, id, is_bnode_dangling(T, parent.id, parent.pos, id)>>}
       ELSE IF parent.pos < Len(Recs(T, parent.id))
          THEN {<<id, next, is_bnode_dangling(T, parent.id, parent.pos + 1, next)>>}
       ELSE {}

RECURSIVE __btree_remove(_, _, _)

btree_merge(T, left, right, level, dangling) ==
    LET Up(S) == IF dangling THEN Result(S, "ok")
                 ELSE __btree_remove(S, Recs(T, right)[1].key, level + 1)
        Gone(up) == IF up.err # "ok" THEN up ELSE Result(DestroyBnode(up.T, right), "ok")
    IN Gone(Up(Merged(T, left, right)))

\* An error of rebalance is a VDFS4_BUG.
Checked(merged) == IF merged.err # "ok" THEN Result(Bug(merged.T), "error") ELSE merged

MergeOne(T, pair, level) ==
    IF T.node[pair[1]].free + T.node[pair[2]].free < NodeSize THEN Result(T, "ok")
    ELSE Checked(btree_merge(T, pair[1], pair[2], level, pair[3]))

rebalance(T, k, level, id) ==
    LET pairs == MergePair(T, k, level, id)
    IN IF level < T.height /\ vdfs4_btree_traverse(T, k, level + 1).id = Invalid
          THEN Result(Bug(T), "error")
       ELSE IF pairs = {} THEN Result(T, "ok")
       ELSE MergeOne(T, CHOOSE p \in pairs : TRUE, level)

\* A root with one record gives way to its child.
ShrinkRoot(T, id) ==
    IF T.height <= 1 THEN T
    ELSE DestroyBnode([T EXCEPT !.root = Recs(T, id)[1].val, !.height = @ - 1], id)

\* The bnode has no record left, and its index record goes with it.
RemoveEmptied(T, k, level, id) ==
    LET gone == DestroyBnode(Unlink(T, id), id)
    IN IF id = T.root THEN Result(Bug(T), "error")
       ELSE IF level = T.height THEN Result(gone, "ok")
       ELSE [__btree_remove(gone, k, level + 1) EXCEPT !.err = IF @ = "noent" THEN "ok" ELSE @]

Thinned(new, key, level, id) ==
    LET sparse == new.T.node[id].free > NodeSize \div 3
    IN IF new.err # "ok" THEN new
       ELSE IF sparse /\ id # new.T.root THEN rebalance(new.T, key, level, id)
       ELSE IF sparse /\ Len(Recs(new.T, id)) = 1 THEN Result(ShrinkRoot(new.T, id), "ok")
       ELSE new

RemoveRest(T, k, level, at) ==
    LET first == Recs(T, at.id)[1].key
        updates == at.pos = 1 /\ level < T.height
    IN IF Recs(T, at.id) = <<>> THEN RemoveEmptied(T, k, level, at.id)
       ELSE Thinned(IF updates THEN btree_update_key(T, k, at.id, level + 1)
                    ELSE Result(T, "ok"),
                    IF updates THEN first ELSE k, level, at.id)

RemoveFound(T, k, level, at) ==
    IF at.id = Invalid \/ Recs(T, at.id)[at.pos].key # k THEN Result(T, "noent")
    ELSE RemoveRest(delete_record(T, at.id, at.pos), k, level, at)

__btree_remove(T, k, level) ==
    IF level > T.height THEN Result(Bug(T), "error")
    ELSE RemoveFound(T, k, level, vdfs4_btree_traverse(T, k, level))

--------------------------------------------------------------------------------
(* The checks of btree.c, used by its tests *)

\* The first bnode of every level, from the root down.
RECURSIVE FirstOfLevel(_, _, _, _)
FirstOfLevel(T, id, level, till) ==
    IF level = till THEN id ELSE FirstOfLevel(T, Recs(T, id)[1].val, level - 1, till)

Level(T, level) == FirstOfLevel(T, T.root, T.height, level)

RECURSIVE Chain(_, _)
Chain(T, id) == IF id = Invalid THEN <<>> ELSE <<id>> \o Chain(T, T.node[id].next)

check_ordering_at_level(T, level) ==
    LET recs == RecordsFrom(T, Level(T, level), 1)
    IN \A i \in 1..(Len(recs) - 1) : recs[i].key < recs[i + 1].key

\* Every index record points to a bnode of the chain below, in its order; the
\* others are dangling.
check_btree_links_at_level(T, level) ==
    LET below == Chain(T, Level(T, level - 1))
        index == RecordsFrom(T, Level(T, level), 1)
    IN /\ \A i \in 1..Len(below) :
             T.node[below[i]].prev = IF i = 1 THEN Invalid ELSE below[i - 1]
       /\ [i \in DOMAIN index |-> index[i].val] =
             SelectSeq(below, LAMBDA id : \E i \in DOMAIN index : index[i].val = id)

check_btree_links_at_root_level(T) ==
    LET top == Chain(T, T.root)
    IN \A i \in DOMAIN top : T.node[top[i]].prev = IF i = 1 THEN Invalid ELSE top[i - 1]

vdfs4_check_btree_links(T) ==
    /\ check_btree_links_at_root_level(T)
    /\ \A level \in 2..T.height : check_btree_links_at_level(T, level)

vdfs4_check_btree_records_order(T) ==
    \A level \in 1..T.height : check_ordering_at_level(T, level)

vdfs4_check_and_sign_dirty_bnodes(T) ==
    \A id \in T.used \ {0} :
        vdfs4_bnode_sanity_check(T.node[id]) /\ free_space_check(T.node[id])

AllBnodes(T) == UNION {ToSet(Chain(T, Level(T, level))) : level \in 1..T.height}
================================================================================
