------------------------------- MODULE TreeImage -------------------------------
(* One B-tree over its life: mkfs creates it with the library of the tools, the *)
(* driver mounts the image and changes it.                                     *)
EXTENDS BTree

CONSTANTS Key,         \* keys, in the order of the tree's compare function
          RecLen,      \* length of the record of a key
          Memory,      \* bnodes an operation finds memory for, and whether also
                       \* for its notes
          MaxTaken,    \* bound: records the tools take back
          MaxCalls     \* bound: calls of the driver, and removals of the tools

ASSUME TreeAssumption ==
    /\ Key \subseteq Nat /\ 0 \in Key
    /\ RecLen \in [Key -> 1..NodeSize]
    /\ Memory \subseteq Nat \X BOOLEAN
    /\ MaxTaken \in Nat /\ MaxCalls \in Nat

VARIABLES tree,        \* the tree
          content,     \* what the callers put in: the keys present
          calls,       \* calls so far, the insertions of mkfs aside
          failed       \* a removal was left half done; what follows is not modelled

vars == <<tree, content, calls, failed>>

--------------------------------------------------------------------------------
(* The tools: their copy of btree.c is the code of the driver but for the       *)
(* reserve, their bnode.c is their own.                                        *)

init_head_bnode ==
    [node |-> [id \in NodeIds |-> Unused], root |-> 1, height |-> 1, used |-> {0},
     free_num |-> 0, first_free_id |-> 0, avail |-> 2, mem |-> 1, items |-> FALSE, user |-> TRUE,
     bug |-> FALSE, short |-> FALSE]

tools_insert_into_node(page, r, pos) == __place_into_node(page, r, pos)

\* The root bnode holds the first record, which stays for ever: the root folder,
\* or the dummy record of the other trees.
cattree_init_root_bnode ==
    LET new == tools_alloc_new_bnode(init_head_bnode)
    IN [new.T EXCEPT !.node[new.id] = tools_insert_into_node(@, Rec(0, RecLen[0], 0), 1)]

With(T, mem) == [T EXCEPT !.mem = mem[1], !.items = mem[2]]
None == <<0, FALSE>>
Enough == <<BitsNum, TRUE>>

tools_btree_find(T, k) == vdfs4_btree_find(T, k)
tools_btree_insert(T, k) == place_data_at_level(T, Rec(k, RecLen[k], k), 1)
tools_btree_remove(T, k) == __btree_remove(T, k, 1)
tools_check_btree(T) == vdfs4_check_btree_links(T) /\ vdfs4_check_btree_records_order(T)

Call == calls < MaxCalls /\ ~tree.bug /\ ~failed /\ calls' = calls + 1

MkfsInsert(k) ==
    LET ins == tools_btree_insert(With(tree, Enough), k)
    IN /\ tree.user
       /\ tree' = With(ins.T, None)
       /\ content' = IF ins.err THEN content ELSE content \cup {k}
       /\ UNCHANGED <<calls, failed>>

\* The tools take a record back when the second record of a file cannot be placed.
MkfsRemove(k) ==
    LET rem == tools_btree_remove(With(tree, Enough), k)
    IN /\ Call
       /\ tree.user
       /\ calls < MaxTaken
       /\ tree' = With(rem.T, None)
       /\ content' = content \ {k}
       /\ failed' = (rem.err = "error")

--------------------------------------------------------------------------------
(* The driver *)

\* The image has the bnodes in use, and the mount builds the bitmap's counters.
Mount ==
    /\ tree.user
    /\ vdfs4_get_bnode(tree, tree.root) /\ Recs(tree, tree.root) # <<>>
    /\ tree' = vdfs4_build_free_bnode_bitmap(
                  [tree EXCEPT !.user = FALSE, !.avail = Max(tree.used) + 1])
    /\ UNCHANGED <<content, calls, failed>>

vdfs4_btree_insert(k, mem) ==
    LET ins == place_data_at_level(With(tree, mem), Rec(k, RecLen[k], k), 1)
    IN /\ Call
       /\ ~tree.user
       /\ tree' = With(ins.T, None)
       /\ content' = IF ins.err THEN content ELSE content \cup {k}
       /\ UNCHANGED failed

vdfs4_btree_remove(k, mem) ==
    LET rem == __btree_remove(With(tree, mem), k, 1)
    IN /\ Call
       /\ ~tree.user
       /\ tree' = With(rem.T, None)
       /\ content' = content \ {k}
       /\ failed' = (rem.err = "error")

--------------------------------------------------------------------------------
Init == tree = cattree_init_root_bnode /\ content = {0} /\ calls = 0 /\ failed = FALSE

Next ==
    \/ \E k \in Key \ {0} : MkfsInsert(k)
    \/ \E k \in Key \ {0} : MkfsRemove(k)
    \/ Mount
    \/ \E k \in Key \ {0}, mem \in Memory : vdfs4_btree_insert(k, mem)
    \/ \E k \in Key \ {0}, mem \in Memory : vdfs4_btree_remove(k, mem)

Spec == Init /\ [][Next]_vars

--------------------------------------------------------------------------------
\* A search for any key ends at the last record not after it, and from the first
\* record on the chain of leaves lists every record put in and not removed, once,
\* with the value it was given.  After a removal that failed half way the search
\* still tells the keys that are there from the others.
TreeIsMap ==
    LET recs == RecordsFrom(tree, Level(tree, 1), 1)
        found == [k \in Key |-> IF tree.user THEN tools_btree_find(tree, k)
                                ELSE vdfs4_btree_find(tree, k)]
    IN /\ \A k \in Key : ~failed => found[k] = Max({c \in content : c <= k})
       /\ \A k \in Key \ {0} : found[k] = k <=> k \in content
       /\ {r.val : r \in ToSet(recs)} = content
       /\ Len(recs) = Cardinality(content)

\* The checks the driver has for its trees find nothing: on every level the records
\* ascend over the chain of bnodes, next and previous ids agree, and the index
\* records name bnodes of the level below in its order (some may be missing); in
\* every page the offsets, the heap and the free space agree.
TreeChecks ==
    /\ tree.user => tools_check_btree(tree)
    /\ vdfs4_check_btree_links(tree)
    /\ vdfs4_check_btree_records_order(tree)
    /\ vdfs4_check_and_sign_dirty_bnodes(tree)

\* A bnode of the tree is in use and no VDFS4_BUG is met; as long as a bnode, and the
\* note that its index record is missing, could always be had none is lost either.  The counters the mount derives from the
\* bitmap stay right.
BnodesAccounted ==
    /\ ~tree.bug
    /\ AllBnodes(tree) \subseteq tree.used \ {0}
    /\ ~tree.short => AllBnodes(tree) = tree.used \ {0}
    /\ ~tree.user => /\ tree.free_num = BitsNum - Cardinality(tree.used)
                     /\ tree.first_free_id = FirstFree(tree.used)
================================================================================
