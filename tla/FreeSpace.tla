------------------------------- MODULE FreeSpace -------------------------------
(* The free space manager (fsm.c): the bitmap of used blocks, the tree of free *)
(* extents with its lists by order, the extents freed since the last commit,   *)
(* the counters of sb_info, and the counters of used blocks per erase block.   *)
(*                                                                             *)
(* Every function of fsm.c runs under fsm->lock, so each is an operator from   *)
(* one manager state, the record F, to the next.  The red-black trees are sets *)
(* of nodes; which node of a list comes first is left open, so an operator     *)
(* that depends on it returns the set of its possible results.  mem says       *)
(* whether the node allocations of the call succeed.                           *)
EXTENDS Integers, FiniteSets, FiniteSetsExt, SequencesExt

CONSTANTS Volume,        \* sbi->volume_blocks_count
          MaxOrder,      \* VDFS4_FSM_MAX_ORDER
          MaxNodes,      \* VDFS4_FSM_MAX_FREE_NODES
          SuperPage,     \* blocks per superpage
          EraseSize,     \* sbi->erase_block_size_in_blocks
          Discard        \* VDFS4_DELAYED_DISCARD_MAGIC

ASSUME FsmAssumption ==
    /\ Volume \in Nat \ {0}
    /\ MaxOrder \in Nat
    /\ MaxNodes \in Nat
    /\ SuperPage \in Nat \ {0}
    /\ EraseSize \in Nat \ {0}
    /\ Discard \notin 0..EraseSize

Blocks == 0..(Volume - 1)
EraseBlocks == 0..(Volume \div EraseSize)
Run(s, l) == s..(s + l - 1)
Node(s, l) == [start |-> s, length |-> l]
Length(n) == n.length
Total(nodes) == MapThenSumSet(Length, nodes)

--------------------------------------------------------------------------------
(* Nodes *)

fsm_intersects(n, s, l) ==
    \/ s >= n.start /\ s < n.start + n.length
    \/ s + l > n.start /\ s + l <= n.start + n.length

fsm_max_length(n, s) == n.length + n.start - s

fsm_order(l) == CHOOSE o \in 0..MaxOrder : 2^o <= l /\ (o = MaxOrder \/ l < 2^(o + 1))

\* The node cur takes in the l blocks before it, and the node that then touches it.
fsm_front_merge(nodes, cur, l) ==
    LET prev == {n \in nodes : n.start + n.length = cur.start - l} IN
    (nodes \ ({cur} \cup prev)) \cup
        {Node(cur.start - l - Total(prev), cur.length + l + Total(prev))}

fsm_back_merge(nodes, cur, l) ==
    LET next == {n \in nodes : n.start = cur.start + cur.length + l} IN
    (nodes \ ({cur} \cup next)) \cup {Node(cur.start, cur.length + l + Total(next))}

\* What fsm_check_node and fsm_verify_state ask of the trees and counters.
fsm_check_node(n, nodes) ==
    /\ n.length > 0
    /\ \A m \in nodes \ {n} : n.start > m.start + m.length \/ m.start > n.start + n.length

fsm_verify_state(F) ==
    /\ \A n \in F.next : fsm_check_node(n, F.next)
    /\ Total(F.next) = F.next_blocks - F.next_untracked
    /\ \A n \in F.area : fsm_check_node(n, F.area)
    /\ Total(F.area) = F.free + F.reserved - F.untracked

--------------------------------------------------------------------------------
(* Erase blocks *)

InErase(e, s, l) == Cardinality({b \in Run(s, l) : b \div EraseSize = e})

\* Mutant of fsm_inc_erase_blocks_counters: the mark of a
\* block to be discarded survives its reuse.
inc_erase_keeps_mark(F, s, l) ==
    [F EXCEPT !.erase = [e \in EraseBlocks |-> IF @[e] = Discard THEN Discard
                                               ELSE @[e] + InErase(e, s, l)]]

fsm_inc_erase_blocks_counters(F, s, l) ==
    LET new == [e \in EraseBlocks |->
                   LET k == InErase(e, s, l) IN
                   IF k > 0 /\ F.erase[e] = Discard THEN k
                   ELSE IF k > 0 THEN F.erase[e] + k
                   ELSE F.erase[e]]
    IN [F EXCEPT !.erase = new,
                 !.bug = @ \/ \E e \in EraseBlocks : new[e] # Discard /\ new[e] > EraseSize]

fsm_dec_erase_blocks_counters(F, s, l) ==
    LET hit == {e \in EraseBlocks : InErase(e, s, l) > 0}
        sane == \A e \in hit : F.erase[e] # Discard /\ F.erase[e] >= InErase(e, s, l)
    IN IF ~sane THEN [F EXCEPT !.bug = TRUE]
       ELSE [F EXCEPT !.erase =
                [e \in EraseBlocks |->
                    IF e \notin hit THEN @[e]
                    ELSE IF @[e] = InErase(e, s, l) THEN Discard
                    ELSE @[e] - InErase(e, s, l)]]

\* The blocks fsm_delayed_discard discards.
DiscardedBlocks(F) == {b \in Blocks : F.erase[b \div EraseSize] = Discard}

fsm_delayed_discard(F) ==
    [F EXCEPT !.erase = [e \in EraseBlocks |-> IF @[e] = Discard THEN 0 ELSE @[e]]]

fsm_init_erase_blocks_counters(bitmap) ==
    [e \in EraseBlocks |-> Cardinality({b \in bitmap : b \div EraseSize = e})]

--------------------------------------------------------------------------------
(* Freed space waits in the next tree for the commit *)

fsm_add_free_space(F, s, l, mem) ==
    LET after == {n \in F.next : s + l = n.start}
        before == {n \in F.next : n.start + n.length = s}
        merged == IF after # {} THEN fsm_front_merge(F.next, CHOOSE n \in after : TRUE, l)
                  ELSE fsm_back_merge(F.next, CHOOSE n \in before : TRUE, l)
    IN IF \E n \in F.next : fsm_intersects(n, s, l) THEN [F EXCEPT !.fatal = TRUE]
       ELSE IF after \cup before # {}
            THEN [F EXCEPT !.next = merged, !.next_blocks = @ + l]
       ELSE IF mem
            THEN [F EXCEPT !.next = @ \cup {Node(s, l)}, !.next_blocks = @ + l]
       ELSE [F EXCEPT !.next_blocks = @ + l, !.next_untracked = @ + l]

CommitNode(F, n) ==
    LET after == {m \in F.area : n.start + n.length = m.start}
        before == {m \in F.area : m.start + m.length = n.start}
        merged == IF after # {}
                  THEN fsm_front_merge(F.area, CHOOSE m \in after : TRUE, n.length)
                  ELSE fsm_back_merge(F.area, CHOOSE m \in before : TRUE, n.length)
    IN IF \E m \in F.area : fsm_intersects(m, n.start, n.length)
          THEN [F EXCEPT !.fatal = TRUE, !.untracked = @ + n.length]
       ELSE IF after \cup before # {}
          THEN [F EXCEPT !.area = merged, !.free = @ + n.length]
       ELSE IF Cardinality(F.area) < MaxNodes
          THEN [F EXCEPT !.area = @ \cup {n}, !.free = @ + n.length]
       ELSE [F EXCEPT !.free = @ + n.length, !.untracked = @ + n.length]

\* order: the nodes of next_free_list in the order they are on the list.
fsm_commit_free_space(F, order) ==
    LET G == FoldLeft(CommitNode, F, order) IN
    [G EXCEPT !.free = @ + F.next_untracked,
              !.untracked = @ + F.next_untracked,
              !.next_untracked = 0,
              !.next_blocks = 0,
              !.next = {}]

vdfs4_commit_free_space(F, order) == fsm_delayed_discard(fsm_commit_free_space(F, order))

--------------------------------------------------------------------------------
(* Taking space from the tree *)

fsm_find_node(F, s) == {n \in F.area : s >= n.start /\ s < n.start + n.length}

OfOrder(F, o) == {n \in F.area : fsm_order(n.length) = o}

\* The nodes that may be first on the list that fsm_choose_node ends at: the
\* lists are searched upwards from the order of l, then down again.
fsm_choose_node(F, l) ==
    LET orders == {fsm_order(n.length) : n \in F.area}
        up == {o \in orders : o >= fsm_order(l)}
    IN IF up # {} THEN OfOrder(F, Min(up))
       ELSE IF orders # {} THEN OfOrder(F, Max(orders))
       ELSE {}

fsm_allocate_from_node(F, n, s, l, mem) ==
    LET max == fsm_max_length(n, s)
        rest == F.area \ {n}
        head == IF s > n.start THEN {Node(n.start, s - n.start)} ELSE {}
        tail == {Node(s + l, max - l)}
    IN IF s < n.start \/ s >= n.start + n.length \/ l > max
          THEN [F EXCEPT !.bug = TRUE]
       ELSE IF l = max THEN [F EXCEPT !.area = rest \cup head]
       ELSE IF s = n.start THEN [F EXCEPT !.area = rest \cup tail]
       ELSE IF mem /\ Cardinality(F.area) < MaxNodes
          THEN [F EXCEPT !.area = rest \cup head \cup tail]
       ELSE [F EXCEPT !.area = rest \cup head, !.untracked = @ + max - l]

\* The first of the longest nodes.
fsm_get_longest_node(F) ==
    {n \in F.area : \A m \in F.area : \/ m.length < n.length
                                      \/ m.length = n.length /\ n.start <= m.start}

\* The maximal runs of clear bits, from left to right.
FreeRuns(bitmap) ==
    LET first == SelectSeq([i \in 1..Volume |-> i - 1],
                           LAMBDA b : b \notin bitmap /\ (b = 0 \/ b - 1 \in bitmap))
        last(b) == Min({c \in b..(Volume - 1) : c = Volume - 1 \/ c + 1 \in bitmap})
    IN [i \in DOMAIN first |-> Node(first[i], last(first[i]) - first[i] + 1)]

fsm_append_free_space(F, n, mem) ==
    IF mem /\ Cardinality(F.area) < MaxNodes
    THEN [F EXCEPT !.area = @ \cup {n}, !.free = @ + n.length]
    ELSE [F EXCEPT !.free = @ + n.length, !.untracked = @ + n.length]

fsm_build_tree(F, mem) ==
    FoldLeft(LAMBDA G, n : fsm_append_free_space(G, n, mem), F, FreeRuns(F.bitmap))

CutNode(F, n, mem) ==
    LET found == fsm_find_node(F, n.start) IN
    IF found = {} THEN [F EXCEPT !.bug = @ \/ F.untracked < n.length,
                                 !.untracked = @ - n.length]
    ELSE fsm_allocate_from_node(F, CHOOSE m \in found : TRUE, n.start, n.length, mem)

\* The cuts are made in the order of next_free_list.
fsm_cut_next_free(F, mem) ==
    {FoldLeft(LAMBDA G, n : CutNode(G, n, mem), F, order) : order \in SetToSeqs(F.next)}

fsm_free_tree(F) == [F EXCEPT !.area = {}, !.untracked = 0, !.free = 0]

\* Mutant of fsm_rebuild_tree: the reserve is not taken out of the
\* blocks counted from the bitmap.
rebuild_counts_reserve(F, mem) ==
    IF F.next_untracked > 0 /\ F.reserved = 0 THEN {F}
    ELSE LET empty == fsm_free_tree([F EXCEPT !.next_blocks = @ - F.next_untracked,
                                              !.next_untracked = 0])
             built == fsm_build_tree(empty, mem)
         IN fsm_cut_next_free([built EXCEPT !.free = @ - empty.next_blocks], mem)

fsm_rebuild_tree(F, mem) ==
    IF F.next_untracked > 0 /\ F.reserved = 0 THEN {F}
    ELSE LET empty == fsm_free_tree([F EXCEPT !.next_blocks = @ - F.next_untracked,
                                              !.forgot = @ \/ F.next_untracked > 0,
                                              !.next_untracked = 0])
             built == fsm_build_tree(empty, mem)
         IN fsm_cut_next_free([built EXCEPT !.free = @ - F.reserved - empty.next_blocks], mem)

Taken(F, s, l) == [F |-> F, start |-> s, length |-> l]
Nothing(F) == {Taken(F, 0, 0)}

\* One pass of fsm_allocate_space over the tree as it stands: only the first
\* node of the chosen list is looked at.
TryAllocate(F, s, min, l, mem) ==
    LET hinted == {n \in fsm_find_node(F, s) : s > 0 /\ fsm_max_length(n, s) >= min}
        cut(n, at) ==
            LET len == Min({l, fsm_max_length(n, at)})
            IN Taken(fsm_allocate_from_node(F, n, at, len, mem), at, len)
    IN IF hinted # {} THEN {cut(n, s) : n \in hinted}
       ELSE IF fsm_choose_node(F, l) = {} THEN Nothing(F)
       ELSE {IF n.length >= min THEN cut(n, n.start) ELSE Taken(F, 0, 0) :
                n \in fsm_choose_node(F, l)}

fsm_allocate_space(F, s, min, l, mem) ==
    UNION {IF r.start # 0 \/ F.untracked = 0 THEN {r}
           ELSE UNION {TryAllocate(G, s, min, l, mem) : G \in fsm_rebuild_tree(F, mem)} :
              r \in TryAllocate(F, s, min, l, mem)}

RoundDown(x) == (x \div SuperPage) * SuperPage
Align(x) == RoundDown(x + SuperPage - 1)

\* Metadata wants whole superpages: one superpage more is taken out of the tree,
\* and given back as untracked once the start is aligned.
AllocateAligned(F, s, min, l, mem) ==
    LET optimal == l + SuperPage
        align(r, len) == Taken([r.F EXCEPT !.untracked = @ + SuperPage], Align(r.start), len)
        fallback(G) ==
            {align(Taken(fsm_allocate_from_node(G, n, n.start, len, mem), n.start, len),
                   len - SuperPage) :
                <<n, len>> \in {<<m, Min({RoundDown(m.length), optimal})>> :
                                   m \in fsm_get_longest_node(G)}}
        fits(G) == \A n \in fsm_get_longest_node(G) :
                       Min({RoundDown(n.length), optimal}) >= min + 2 * SuperPage
    IN UNION {IF r.start # 0 THEN {align(r, l)}
              ELSE IF r.F.area = {} \/ ~fits(r.F) THEN Nothing(r.F)
              ELSE fallback(r.F) :
                 r \in fsm_allocate_space(F, s, optimal, optimal, mem)}

\* Mutant of Account: every allocation is taken from the reserve.
AccountReserve(r, delayed) ==
    IF r.start = 0 THEN r
    ELSE [r EXCEPT !.F = [@ EXCEPT !.reserved = @ - r.length,
                                   !.bitmap = @ \cup Run(r.start, r.length)]]

\* vdfs4_set_bits and the accounting of the blocks handed out.
Account(r, delayed) ==
    IF r.start = 0 THEN r
    ELSE LET G == [r.F EXCEPT
                     !.reserved = IF delayed THEN @ - r.length ELSE @,
                     !.free = IF delayed THEN @ ELSE @ - r.length,
                     !.bug = @ \/ r.start + r.length > Volume
                               \/ Run(r.start, r.length) \cap r.F.bitmap # {},
                     !.bitmap = @ \cup Run(r.start, r.length)]
         IN [r EXCEPT !.F = fsm_inc_erase_blocks_counters(G, r.start, r.length)]

vdfs4_fsm_get_free_block(F, hint, l, min, flag, mem) ==
    LET s == IF hint + l >= Volume THEN 0 ELSE hint
        found == IF flag = "aligned" THEN AllocateAligned(F, s, min, l, mem)
                 ELSE fsm_allocate_space(F, s, 1, l, mem)
    IN IF l > F.free /\ flag # "delayed" THEN Nothing(F)
       ELSE {Account(r, flag = "delayed") : r \in found}

\* Mutant of fsm_free_block_chunk: freed blocks do not wait for the commit.
free_at_once(F, s, l, flag, mem) ==
    fsm_dec_erase_blocks_counters(
        [F EXCEPT !.bitmap = @ \ Run(s, l), !.untracked = @ + l,
                  !.free = IF flag = "reserve" THEN @ ELSE @ + l,
                  !.reserved = IF flag = "reserve" THEN @ + l ELSE @], s, l)

\* vdfs4_clear_bits reports a bit that is already clear; the chunk is then left.
fsm_free_block_chunk(F, s, l, flag, mem) ==
    LET G == [F EXCEPT !.bitmap = @ \ Run(s, l)]
        H == CASE flag = "committed" -> fsm_add_free_space(G, s, l, mem)
               [] flag = "unused" -> [G EXCEPT !.free = @ + l, !.untracked = @ + l]
               [] flag = "reserve" -> [G EXCEPT !.reserved = @ + l, !.untracked = @ + l]
    IN IF s + l > Volume THEN [F EXCEPT !.bug = TRUE]
       ELSE IF ~(Run(s, l) \subseteq F.bitmap) THEN [G EXCEPT !.skipped = TRUE]
       ELSE fsm_dec_erase_blocks_counters(H, s, l)

vdfs4_free_reserved_space(F, n) ==
    [F EXCEPT !.bug = @ \/ F.reserved < n, !.reserved = @ - n, !.free = @ + n]

CanReserve(F, n) == F.free >= n

vdfs4_reserve_space(F, n) == [F EXCEPT !.free = @ - n, !.reserved = @ + n]

vdfs4_fsm_build_management(bitmap, mem) ==
    fsm_build_tree([bitmap |-> bitmap, area |-> {}, next |-> {}, free |-> 0, reserved |-> 0,
                    untracked |-> 0, next_blocks |-> 0, next_untracked |-> 0,
                    erase |-> fsm_init_erase_blocks_counters(bitmap),
                    forgot |-> FALSE, skipped |-> FALSE, fatal |-> FALSE, bug |-> FALSE], mem)
================================================================================
