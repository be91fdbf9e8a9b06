--------------------------------- MODULE Bnode ---------------------------------
(* The page of a bnode (btree.c): records lie in a heap after the descriptor in *)
(* the order they came, and a table of offsets that grows from the end of the  *)
(* page orders them by key.  A page is a record:                               *)
(*   recs   the records in the order of the table, each with its offset off;   *)
(*   end    the entry after the last one: where the free space starts;         *)
(*   free   free_space of the descriptor;                                      *)
(*   prev, next   the ids of the neighbours.                                   *)
EXTENDS Integers, FiniteSetsExt, SequencesExt

CONSTANTS NodeSize,    \* node_size_bytes
          Descr,       \* sizeof(struct vdfs4_gen_node_descr)
          Crc,         \* VDFS4_BNODE_FIRST_OFFSET, the checksum
          OffLen       \* sizeof(vdfs4_bt_off_t)

ASSUME BnodeAssumption ==
    /\ NodeSize \in Nat /\ Descr \in Nat \ {0} /\ Crc \in Nat /\ OffLen \in Nat
    /\ Descr + Crc + OffLen < NodeSize

Invalid == 0                                       \* VDFS4_INVALID_NODE_ID
Rec(k, l, v) == [key |-> k, len |-> l, val |-> v, off |-> 0]

vdfs4_init_new_node_descr ==
    [recs |-> <<>>, end |-> Descr, free |-> NodeSize - Descr - OffLen - Crc,
     prev |-> Invalid, next |-> Invalid]

is_offset_correct(off) == off # 0 /\ off < NodeSize

is_node_full(page, len) == page.free < len + OffLen

\* The record goes to the start of the free space, its offset to pos of the table.
__place_into_node(page, r, pos) ==
    [page EXCEPT !.recs = InsertAt(@, pos, [r EXCEPT !.off = page.end]),
                 !.free = @ - (r.len + OffLen),
                 !.end = @ + r.len]

append_bnode(page, r) == __place_into_node(page, r, Len(page.recs) + 1)

\* The heap is closed over the record: what lay behind it moves down.
delete_from_node(page, pos) ==
    LET del == page.recs[pos]
        moved(r) == IF r.off > del.off THEN [r EXCEPT !.off = @ - del.len] ELSE r
    IN [page EXCEPT !.recs = [i \in 1..(Len(@) - 1) |-> moved(RemoveAt(@, pos)[i])],
                    !.free = @ + del.len + OffLen,
                    !.end = @ - del.len]

\* Mutant of merge_pages: the heap of the right page is copied without its offsets moved.
merge_keeps_offsets(left, right) ==
    [left EXCEPT !.recs = @ \o right.recs,
                 !.end = @ + right.end - Descr,
                 !.free = @ - (right.end - Descr) - Len(right.recs) * OffLen]

\* The heap and the table of the right page are put behind those of the left one.
merge_pages(left, right) ==
    [left EXCEPT !.recs = @ \o [i \in DOMAIN right.recs |->
                                 [right.recs[i] EXCEPT !.off = left.end + @ - Descr]],
                 !.end = @ + right.end - Descr,
                 !.free = @ - (right.end - Descr) - Len(right.recs) * OffLen]

\* The loop of binary_search narrows to first = last - 1.
RECURSIVE Narrow(_, _, _, _)
Narrow(recs, k, first, last) ==
    LET mid == first + ((last + 1 - first) \div 2)
    IN IF first >= last - 1 THEN first
       ELSE IF recs[mid].key = k THEN mid
       ELSE IF recs[mid].key < k THEN Narrow(recs, k, mid, last)
       ELSE Narrow(recs, k, first, mid)

\* The position of the last record not after k; 0 is -ENOENT.
binary_search(recs, k) ==
    LET last == Len(recs)
    IN IF last = 0 \/ recs[1].key > k THEN 0
       ELSE IF recs[1].key = k \/ last = 1 THEN 1
       ELSE IF recs[last].key <= k THEN last
       ELSE Narrow(recs, k, 1, last)

\* The records of the heap follow each other from off on.
RECURSIVE HeapEnd(_, _)
HeapEnd(recs, off) ==
    LET here == {r \in ToSet(recs) : r.off = off}
    IN IF here = {} THEN off
       ELSE HeapEnd(SelectSeq(recs, LAMBDA r : r.off # off),
                    off + (CHOOSE r \in here : TRUE).len)

vdfs4_bnode_sanity_check(page) ==
    LET offs == {r.off : r \in ToSet(page.recs)}
    IN IF page.recs = <<>> THEN page.end = Descr
       ELSE /\ page.free <= NodeSize
            /\ \A off \in offs : is_offset_correct(off)
            /\ HeapEnd(page.recs, Min(offs)) = page.end
            /\ is_offset_correct(page.end)

\* What delete_from_node asserts of the free space it leaves.
free_space_check(page) ==
    page.free = NodeSize - Crc - (Len(page.recs) + 1) * OffLen - page.end
================================================================================
