------------------------------- MODULE ChunkRead -------------------------------
(* Reading a compressed file: several tasks fault in pages of the same chunk.    *)
(* A reader of one page looks up the extent of the chunk, reads its compressed   *)
(* blocks through the page cache of the block device and unpacks them into all   *)
(* pages of the chunk: readpage_tuned_sw, read_chunk, auth_decompress_sw, the    *)
(* path of the hardware (readpage_tuned_hw) and that of packed inline data.     *)
EXTENDS Integers, Sequences, FiniteSets, FiniteSetsExt

CONSTANTS Reader,
          NPages,        \* pages of the chunk
          NBlocks,       \* its compressed blocks
          MAX_READPAGE_TUNED_RETRIES,   \* 3 in the code
          Maps,          \* VM_REUSE_MAX_VMAP_COUNT
          MaxReads,      \* bound: calls of the VFS
          MaxFaults      \* bound: failing reads and mappings

Free == "free"
IO == "io"
Left == "left"

ASSUME ChunkReadAssumption ==
    /\ NPages \in Nat \ {0} /\ NBlocks \in Nat \ {0}
    /\ MAX_READPAGE_TUNED_RETRIES \in Nat \ {0}
    /\ Maps \in Nat \ {0} /\ MaxReads \in Nat /\ MaxFaults \in Nat
    /\ {Free, IO, Left} \cap Reader = {}

BUFFERS == 1..(2 * Maps)          \* VM_REUSE_BUFFER_COUNT
Pages == 1..NPages
Blocks == (NPages + 1)..(NPages + NBlocks)
TABLE == 0                        \* the page of the extent table
All == Pages \cup Blocks \cup {TABLE}

VARIABLES file,          \* how the chunk is read: "closed", "raw", "sw", "hw", "inline", "plain"
          lock,          \* PG_locked of every page: free, the reader, the I/O, or left
                         \* locked by a call that has returned
          cached,        \* pages of the file that are in its page cache
          uptodate, checked, good,   \* flags of pages; good: the content is right
          task,          \* what every reader is doing
          sem, bitmap,   \* sw_decomp_vm_lock and sw_decomp_vm_bitmap
          lost,          \* buffers whose bit no unmap will clear
          reads, faults

readvars == <<file, lock, cached, uptodate, checked, good, task, sem, bitmap, lost,
              reads, faults>>
pool == <<sem, bitmap, lost>>

(* queue: the pages the VFS locked for this reader, the first is being read;     *)
(* mine: cache pages the reader holds or works on; priv: slots with a private    *)
(* page instead; at: the next slot; map: buffers it has mapped.                 *)
Idle == [pc |-> "idle", queue |-> <<>>, mine |-> {}, priv |-> {}, at |-> 0,
         map |-> {}, hw |-> FALSE, err |-> FALSE, tries |-> 0]

InitReads ==
    /\ file = "closed"
    /\ lock = [p \in All |-> Free]
    /\ cached = {} /\ uptodate = {} /\ checked = {} /\ good = {}
    /\ task = [r \in Reader |-> Idle]
    /\ sem = Maps /\ bitmap = {} /\ lost = 0
    /\ reads = 0 /\ faults = 0

own(r) == Head(task[r].queue)

(* What the data is read into: a chunk that is not compressed goes directly to   *)
(* the pages of the file.                                                       *)
Slots == IF file = "raw" THEN Pages ELSE Blocks
Step(r, from, new) == task[r].pc = from /\ task' = [task EXCEPT ![r] = new]
Lock(S, who) == [p \in All |-> IF p \in S THEN who ELSE lock[p]]
Fault == faults < MaxFaults /\ faults' = faults + 1
Flags == <<uptodate, checked, good>>

--------------------------------------------------------------------------------
(* The VFS: one page, after waiting for its lock, or a window of read-ahead,     *)
(* new pages, all locked before the first is read.                              *)

filemap_read(r, p) ==
    /\ reads < MaxReads /\ file # "closed"
    /\ p \notin uptodate
    /\ Step(r, "idle", [Idle EXCEPT !.pc = IF lock[p] = Free THEN "folio" ELSE "lock",
                                    !.queue = <<p>>])
    /\ lock' = IF lock[p] = Free THEN Lock({p}, r) ELSE lock
    /\ cached' = cached \cup {p}
    /\ reads' = reads + 1
    /\ UNCHANGED <<file, Flags, pool, faults>>

(* The page is free at last; it need not be read again.                         *)
folio_lock(r) ==
    LET read == own(r) \in uptodate
    IN  /\ task[r].pc = "lock"
        /\ lock[own(r)] = Free
        /\ Step(r, "lock", IF read THEN Idle ELSE [task[r] EXCEPT !.pc = "folio"])
        /\ lock' = IF read THEN lock ELSE Lock({own(r)}, r)
        /\ UNCHANGED <<file, cached, Flags, pool, reads, faults>>

read_pages(r, p) ==
    /\ reads < MaxReads
    /\ file \notin {"closed", "hw"}     \* pages of "hw" are waited for: see vdfs4_file_open
    /\ {p, p + 1} \subseteq Pages \ cached
    /\ Step(r, "idle", [Idle EXCEPT !.pc = "folio", !.queue = <<p, p + 1>>])
    /\ lock' = Lock({p, p + 1}, r)
    /\ cached' = cached \cup {p, p + 1}
    /\ reads' = reads + 1
    /\ UNCHANGED <<file, Flags, pool, faults>>

(* The next page of the window, or the end.                                     *)
Done(t) ==
    IF Len(t.queue) = 1 THEN Idle
    ELSE [Idle EXCEPT !.pc = "folio", !.queue = Tail(t.queue)]

--------------------------------------------------------------------------------
(* vdfs4_readpage_tuned_sw: the page is unlocked first; then the chunk is read.  *)

readpage_tuned_sw(r) ==
    /\ file \in {"raw", "sw"} \/ (file = "hw" /\ task[r].err)
    /\ Step(r, "folio", [task[r] EXCEPT !.pc = "table", !.hw = FALSE, !.err = FALSE])
    /\ lock' = Lock({own(r)}, Free)
    /\ UNCHANGED <<file, cached, Flags, pool, reads, faults>>

(* __get_chunk_extent: the page of the table is looked up and locked, read, and  *)
(* marked as checked.                                                           *)
read_comp_pages(r) ==
    /\ lock[TABLE] = Free
    /\ Step(r, "table", [task[r] EXCEPT !.pc = "tablewait"])
    /\ uptodate' = uptodate \ ({TABLE} \ checked)
    /\ lock' = Lock({TABLE}, IF TABLE \in uptodate' THEN Free ELSE IO)
    /\ UNCHANGED <<file, cached, checked, good, pool, reads, faults>>

get_chunk_extent(r) ==
    /\ lock[TABLE] = Free
    /\ checked' = checked \cup (uptodate \cap {TABLE})
    /\ Step(r, "tablewait",
            IF TABLE \notin uptodate
            THEN [task[r] EXCEPT !.pc = IF task[r].hw THEN "hwfail" ELSE "retry", !.err = TRUE]
            ELSE IF task[r].hw THEN [task[r] EXCEPT !.pc = "hw", !.at = Min(Pages)]
            ELSE [task[r] EXCEPT !.pc = "blocks", !.at = Min(Slots)])
    /\ UNCHANGED <<file, cached, lock, uptodate, good, pool, reads, faults>>

(* No memory for the array of pages, or the table cannot be looked up.           *)
chunk_extent_fails(r) ==
    /\ Fault
    /\ Step(r, "table", [task[r] EXCEPT !.pc = IF task[r].hw THEN "hwfail" ELSE "retry",
                                        !.err = TRUE])
    /\ UNCHANGED <<file, cached, lock, Flags, pool, reads>>

(* grab_cache_page_nowait: a page somebody else holds is replaced by a private   *)
(* one; only the page of the VFS itself is waited for.                          *)
(* Mutant of grab_page: every page of the chunk is waited for. *)
grab_page_waits(r, p) ==
    /\ lock[p] = Free
    /\ cached' = cached \cup ({p} \cap Pages)
    /\ lock' = Lock({p}, r)
    /\ task' = [task EXCEPT ![r].mine = @ \cup {p}, ![r].at = @ + 1]

grab_page(r, p) ==
    /\ p = own(r) => lock[p] = Free
    /\ cached' = cached \cup ({p} \cap Pages)
    /\ IF lock[p] = Free
       THEN /\ lock' = Lock({p}, r)
            /\ task' = [task EXCEPT ![r].mine = @ \cup {p}, ![r].at = @ + 1]
       ELSE /\ lock' = lock
            /\ task' = [task EXCEPT ![r].priv = @ \cup {p}, ![r].at = @ + 1]

(* vdfs4_read_chunk: the blocks are collected, ...                              *)
collect_block(r) ==
    LET b == task[r].at
    IN  /\ task[r].pc = "blocks" /\ b \in Slots
        /\ grab_page(r, b)
        /\ uptodate' = IF lock[b] = Free THEN uptodate \ ({b} \ checked) ELSE uptodate
        /\ UNCHANGED <<file, checked, good, pool, reads, faults>>

(* (A block cannot be looked up, or there is no memory for its page: the exit     *)
(* locks the pages collected so far, which this reader has locked itself.  It    *)
(* hangs there unless it failed at the first one.)                              *)
collect_block_fails(r) ==
    LET none == task[r].mine \cup task[r].priv = {}
    IN  /\ task[r].at \in Slots
        /\ Fault
        /\ Step(r, "blocks", [task[r] EXCEPT !.pc = IF none THEN "retry" ELSE "hung",
                                             !.err = TRUE])
        /\ UNCHANGED <<file, cached, lock, Flags, pool, reads>>

(* ... those that are not up to date are read (vdfs4__read), ...                *)
vdfs4__read(r) ==
    LET mine == task[r].mine
    IN  /\ Step(r, "blocks", [task[r] EXCEPT !.pc = "wait"])
        /\ task[r].at > Max(Slots)
        /\ lock' = [p \in All |-> IF p \notin mine THEN lock[p]
                                  ELSE IF p \in uptodate THEN Free ELSE IO]
        /\ UNCHANGED <<file, cached, Flags, pool, reads, faults>>

(* ... waited for, ...                                                          *)
folio_wait_locked(r) ==
    LET mine == task[r].mine
    IN  /\ \A p \in mine \ uptodate : lock[p] = Free
        /\ Step(r, "wait", [task[r] EXCEPT !.pc = "mark", !.at = Min(Slots),
                                           !.err = ~(mine \subseteq uptodate)])
        /\ UNCHANGED <<file, cached, lock, Flags, pool, reads, faults>>

private_read_fails(r) ==
    /\ task[r].priv # {}
    /\ Fault
    /\ Step(r, "wait", [task[r] EXCEPT !.pc = "mark", !.at = Min(Slots), !.err = TRUE])
    /\ UNCHANGED <<file, cached, lock, Flags, pool, reads>>

(* ... and marked, one after the other, each under its lock.                    *)
Marked(t) ==
    IF t.at < Max(Slots) THEN [t EXCEPT !.at = @ + 1]
    ELSE IF t.err THEN [t EXCEPT !.pc = "retry", !.mine = {}, !.priv = {}]
    ELSE IF file = "raw" THEN Done(t)
    ELSE [t EXCEPT !.pc = "unpack", !.at = Min(Pages)]

mark_block(r) ==
    LET b == task[r].at
        held == task[r].mine
    IN  /\ b \in held => lock[b] = Free
        /\ Step(r, "mark", Marked(task[r]))
        /\ IF b \notin held THEN UNCHANGED <<uptodate, checked>>
           ELSE IF task[r].err
           THEN uptodate' = uptodate \ {b} /\ checked' = checked \ {b}
           ELSE uptodate' = uptodate /\ checked' = checked \cup {b}
        /\ UNCHANGED <<file, cached, lock, good, pool, reads, faults>>

(* The end of an I/O; a failed one may have written over the page.              *)
end_io(p) ==
    /\ lock[p] = IO
    /\ lock' = Lock({p}, Free)
    /\ uptodate' = uptodate \cup {p}
    /\ good' = IF file = "plain" /\ p \in Pages THEN good ELSE good \cup {p}
    /\ UNCHANGED <<file, cached, checked, task, pool, reads, faults>>

end_io_error(p) ==
    /\ lock[p] = IO
    /\ Fault
    /\ lock' = Lock({p}, Free)
    /\ uptodate' = uptodate \ {p}
    /\ good' \in {good, good \ {p}}
    /\ UNCHANGED <<file, cached, checked, task, pool, reads>>

--------------------------------------------------------------------------------
(* vdfs4_auth_decompress_sw.                                                    *)

Held(r) == task[r].mine \cap Pages

collect_page(r) ==
    /\ task[r].pc = "unpack" /\ task[r].at \in Pages
    /\ grab_page(r, task[r].at)
    /\ UNCHANGED <<file, Flags, pool, reads, faults>>

(* Mutant of vdfs4_release_unpacked_page: the pages count as read in any case. *)
release_marks_all(r, ok) ==
    /\ lock' = Lock(Held(r), Free)
    /\ uptodate' = uptodate \cup Held(r)

vdfs4_release_unpacked_page(r, ok) ==
    /\ lock' = Lock(Held(r), Free)
    /\ uptodate' = IF ok THEN uptodate \cup Held(r) ELSE uptodate

(* No memory for a page.                                                        *)
collect_page_fails(r) ==
    /\ task[r].at \in Pages
    /\ Fault
    /\ Step(r, "unpack", [task[r] EXCEPT !.pc = "drop", !.at = Min(Blocks), !.err = TRUE,
                                         !.mine = @ \ Pages, !.priv = {}])
    /\ vdfs4_release_unpacked_page(r, FALSE)
    /\ UNCHANGED <<file, cached, checked, good, pool, reads>>

(* Somebody already read it.                                                    *)
already_read(r) ==
    /\ Step(r, "unpack", Done(task[r]))
    /\ task[r].at > Max(Pages)
    /\ own(r) \in uptodate
    /\ vdfs4_release_unpacked_page(r, FALSE)
    /\ UNCHANGED <<file, cached, checked, good, pool, reads, faults>>

sw_decomp_vm_get(r) ==
    /\ Step(r, "unpack", [task[r] EXCEPT !.pc = "map"])
    /\ task[r].at > Max(Pages)
    /\ own(r) \notin uptodate
    /\ sem > 0
    /\ sem' = sem - 1
    /\ UNCHANGED <<file, cached, lock, Flags, bitmap, lost, reads, faults>>

(* Source and destination; without a buffer the call ends with an error.        *)
sw_decomp_vm_map(r) ==
    /\ task[r].pc = "map" /\ Cardinality(task[r].map) < 2
    /\ IF bitmap # BUFFERS
       THEN LET idx == Min(BUFFERS \ bitmap)
            IN  /\ bitmap' = bitmap \cup {idx}
                /\ task' = [task EXCEPT ![r].map = @ \cup {idx}]
       ELSE /\ bitmap' = bitmap
            /\ task' = [task EXCEPT ![r].pc = "unmap", ![r].err = TRUE]
    /\ UNCHANGED <<file, cached, lock, Flags, sem, lost, reads, faults>>

(* map_vm_partial_area fails: the bit of the buffer stays set.                  *)
sw_decomp_vm_map_fails(r) ==
    /\ task[r].pc = "map" /\ Cardinality(task[r].map) < 2
    /\ bitmap # BUFFERS
    /\ Fault
    /\ bitmap' = bitmap \cup {Min(BUFFERS \ bitmap)}
    /\ lost' = lost + 1
    /\ task' = [task EXCEPT ![r].pc = "unmap", ![r].err = TRUE]
    /\ UNCHANGED <<file, cached, lock, Flags, sem, reads>>

(* The hash and the decompressor refuse a chunk whose blocks were overwritten.   *)
decomp_fn(r) ==
    LET ok == task[r].mine \cap Blocks \subseteq good
    IN  /\ Step(r, "map", [task[r] EXCEPT !.pc = "unmap", !.err = ~ok])
        /\ Cardinality(task[r].map) = 2
        /\ good' = IF ok THEN good \cup Held(r) ELSE good
        /\ UNCHANGED <<file, cached, lock, uptodate, checked, pool, reads, faults>>

(* The workspace of the decompressor cannot be allocated.                       *)
decomp_fails(r) ==
    /\ Step(r, "map", [task[r] EXCEPT !.pc = "unmap", !.err = TRUE])
    /\ Cardinality(task[r].map) = 2
    /\ Fault
    /\ UNCHANGED <<file, cached, lock, Flags, pool, reads>>

(* Mutant of sw_decomp_vm_unmap: the buffer of the output stays taken. *)
unmap_src_only(r) ==
    /\ Step(r, "unmap", [task[r] EXCEPT !.pc = "put", !.map = {}])
    /\ bitmap' = bitmap \ {x \in task[r].map : x = Min(task[r].map)}
    /\ UNCHANGED <<file, cached, lock, Flags, sem, lost, reads, faults>>

sw_decomp_vm_unmap(r) ==
    /\ Step(r, "unmap", [task[r] EXCEPT !.pc = "put", !.map = {}])
    /\ bitmap' = bitmap \ task[r].map
    /\ UNCHANGED <<file, cached, lock, Flags, sem, lost, reads, faults>>

(* The slot is given back and the pages are released.  After an error the blocks *)
(* lose their flag one after the other.                                         *)
sw_decomp_vm_put(r) ==
    LET t == [task[r] EXCEPT !.mine = @ \ Pages, !.priv = {}, !.map = {}]
    IN  /\ sem' = sem + 1
        /\ vdfs4_release_unpacked_page(r, ~task[r].err)
        /\ Step(r, "put", IF t.err THEN [t EXCEPT !.pc = "drop", !.at = Min(Blocks)]
                          ELSE Done(t))
        /\ UNCHANGED <<file, cached, checked, good, bitmap, lost, reads, faults>>

drop_block(r) ==
    LET t == task[r]
        held == t.at \in t.mine
    IN  /\ held => lock[t.at] = Free
        /\ Step(r, "drop", IF t.at < Max(Blocks) THEN [t EXCEPT !.at = @ + 1]
                           ELSE [t EXCEPT !.pc = "retry", !.mine = {}])
        /\ uptodate' = IF held THEN uptodate \ {t.at} ELSE uptodate
        /\ UNCHANGED <<file, cached, lock, checked, good, pool, reads, faults>>

--------------------------------------------------------------------------------
(* _readpage_tuned_retry.                                                       *)

retry(r) ==
    LET t == task[r]
        n == t.tries + 1
    IN  /\ t.pc = "retry"
        /\ IF n < MAX_READPAGE_TUNED_RETRIES
           THEN /\ lock[own(r)] = Free
                /\ lock' = Lock({own(r)}, r)
                /\ Step(r, "retry", [Idle EXCEPT !.pc = "folio", !.queue = t.queue,
                                                  !.tries = n])
                /\ UNCHANGED <<file, cached, Flags, pool, reads, faults>>
           ELSE /\ Step(r, "retry", Done(t))
                /\ UNCHANGED <<file, cached, lock, Flags, pool, reads, faults>>

--------------------------------------------------------------------------------
(* vdfs4_readpage_tuned_hw and vdfs4_auth_decompress_hw2: all pages are locked   *)
(* in their order; a failure falls back to the software.                        *)

readpage_tuned_hw(r) ==
    /\ file = "hw" /\ ~task[r].err
    /\ Step(r, "folio", [task[r] EXCEPT !.pc = "hwstart", !.hw = TRUE])
    /\ lock' = Lock({own(r)}, Free)
    /\ UNCHANGED <<file, cached, Flags, pool, reads, faults>>

auth_decompress_hw2(r) ==
    /\ task[r].pc = "hwstart"
    /\ Step(r, "hwstart", IF own(r) \in uptodate THEN Done(task[r])
                          ELSE [task[r] EXCEPT !.pc = "table"])
    /\ UNCHANGED <<file, cached, lock, Flags, pool, reads, faults>>

find_get_pages(r) ==
    LET p == task[r].at
    IN  /\ task[r].pc = "hw" /\ p \in Pages
        /\ lock[p] = Free
        /\ lock' = Lock({p}, r)
        /\ cached' = cached \cup {p}
        /\ task' = [task EXCEPT ![r].mine = @ \cup {p}, ![r].at = @ + 1]
        /\ UNCHANGED <<file, Flags, pool, reads, faults>>

hw2_unpack_chunk(r) ==
    /\ Step(r, "hw", Done(task[r]))
    /\ task[r].at > Max(Pages)
    /\ good' = good \cup Held(r)
    /\ vdfs4_release_unpacked_page(r, TRUE)
    /\ UNCHANGED <<file, cached, checked, pool, reads, faults>>

hw2_fails(r) ==
    /\ Step(r, "hw", [task[r] EXCEPT !.pc = "hwfail", !.mine = {}, !.err = TRUE])
    /\ Fault
    /\ vdfs4_release_unpacked_page(r, FALSE)
    /\ UNCHANGED <<file, cached, checked, good, pool, reads>>

hw_falls_back(r) ==
    /\ task[r].pc = "hwfail"
    /\ lock[own(r)] = Free
    /\ Step(r, "hwfail", [task[r] EXCEPT !.pc = "folio"])
    /\ lock' = Lock({own(r)}, r)
    /\ UNCHANGED <<file, cached, Flags, pool, reads, faults>>

--------------------------------------------------------------------------------
(* vdfs4_readpage_comp_inline_data: the page of the VFS stays locked.           *)

readpage_comp_inline_data(r) ==
    /\ file = "inline"
    /\ Step(r, "folio", [task[r] EXCEPT !.pc = "inline", !.at = Min(Pages),
                                        !.mine = {own(r)}])
    /\ UNCHANGED <<file, cached, lock, Flags, pool, reads, faults>>

(* No memory for the data: the call returns and leaves the page locked.          *)
readpage_comp_inline_fails(r) ==
    /\ file = "inline"
    /\ Fault
    /\ Step(r, "folio", Done(task[r]))
    /\ lock' = Lock({own(r)}, Left)
    /\ UNCHANGED <<file, cached, Flags, pool, reads>>

collect_inline(r) ==
    LET p == task[r].at
    IN  /\ task[r].pc = "inline" /\ p \in Pages
        /\ IF p = own(r)
           THEN UNCHANGED <<lock, cached>> /\ task' = [task EXCEPT ![r].at = @ + 1]
           ELSE grab_page(r, p)
        /\ UNCHANGED <<file, Flags, pool, reads, faults>>

(* No memory for a page: the slots before it are released, so that the page of   *)
(* the VFS, if it comes later, stays locked.                                    *)
collect_inline_fails(r) ==
    LET p == task[r].at
    IN  /\ task[r].pc = "inline" /\ p \in Pages \ {own(r)}
        /\ Fault
        /\ Step(r, "inline", Done(task[r]))
        /\ lock' = [q \in All |-> IF q \notin Held(r) THEN lock[q]
                                  ELSE IF q < p THEN Free ELSE Left]
        /\ UNCHANGED <<file, cached, Flags, pool, reads>>

unpack_inline(r) ==
    /\ Step(r, "inline", Done(task[r]))
    /\ task[r].at > Max(Pages)
    /\ good' = good \cup Held(r)
    /\ vdfs4_release_unpacked_page(r, TRUE)
    /\ UNCHANGED <<file, cached, checked, pool, reads, faults>>

unpack_inline_fails(r) ==
    /\ Step(r, "inline", Done(task[r]))
    /\ task[r].at > Max(Pages)
    /\ Fault
    /\ vdfs4_release_unpacked_page(r, FALSE)
    /\ UNCHANGED <<file, cached, checked, good, pool, reads>>

(* vdfs4_read_folio: the blocks of the file as they are, packed or not.         *)
read_folio(r) ==
    /\ file = "plain"
    /\ Step(r, "folio", Done(task[r]))
    /\ lock' = Lock({own(r)}, IO)
    /\ UNCHANGED <<file, cached, Flags, pool, reads, faults>>

--------------------------------------------------------------------------------
Advance(r) ==
    /\ task[r].pc # "idle"
    /\ \/ folio_lock(r)
       \/ readpage_tuned_sw(r)
       \/ read_comp_pages(r)
       \/ get_chunk_extent(r)
       \/ collect_block(r)
       \/ vdfs4__read(r)
       \/ folio_wait_locked(r)
       \/ mark_block(r)
       \/ collect_page(r)
       \/ already_read(r)
       \/ sw_decomp_vm_get(r)
       \/ sw_decomp_vm_map(r)
       \/ decomp_fn(r)
       \/ sw_decomp_vm_unmap(r)
       \/ sw_decomp_vm_put(r)
       \/ drop_block(r)
       \/ retry(r)
       \/ readpage_tuned_hw(r)
       \/ auth_decompress_hw2(r)
       \/ find_get_pages(r)
       \/ hw2_unpack_chunk(r)
       \/ hw_falls_back(r)
       \/ readpage_comp_inline_data(r)
       \/ collect_inline(r)
       \/ unpack_inline(r)
       \/ read_folio(r)

NextReads ==
    \/ \E r \in Reader, p \in Pages : filemap_read(r, p)
    \/ \E r \in Reader, p \in Pages : read_pages(r, p)
    \/ \E r \in Reader : Advance(r)
    \/ \E r \in Reader : chunk_extent_fails(r)
    \/ \E r \in Reader : collect_block_fails(r)
    \/ \E r \in Reader : private_read_fails(r)
    \/ \E r \in Reader : collect_page_fails(r)
    \/ \E r \in Reader : sw_decomp_vm_map_fails(r)
    \/ \E r \in Reader : decomp_fails(r)
    \/ \E r \in Reader : hw2_fails(r)
    \/ \E r \in Reader : readpage_comp_inline_fails(r)
    \/ \E r \in Reader : collect_inline_fails(r)
    \/ \E r \in Reader : unpack_inline_fails(r)
    \/ \E p \in All : end_io(p)
    \/ \E p \in All : end_io_error(p)

(* A task that can run does, and the device goes on while it has requests.       *)
FairReads ==
    /\ \A r \in Reader : WF_readvars(Advance(r))
    /\ WF_readvars(\E p \in All : end_io(p))

--------------------------------------------------------------------------------
(* A page of the file that is up to date holds what the chunk unpacks to,        *)
(* although other readers re-read, fail to read and drop the compressed blocks   *)
(* while vdfs4_auth_decompress_sw works on them.  Left out: a file whose first    *)
(* open failed, which later opens treat as one that is not packed ("plain").     *)
UptodateIsUnpacked == file # "plain" => uptodate \cap Pages \subseteq good

(* Two buffers for each holder of sw_decomp_vm_lock are enough:                  *)
(* vdfs4_sw_decomp_vm_map never finds its bitmap full, unless a failed mapping   *)
(* has left a bit set, which nothing clears again.                              *)
MapFindsBuffer ==
    lost = 0 => \A r \in Reader :
        (task[r].pc = "map" /\ Cardinality(task[r].map) < 2) => bitmap # BUFFERS

(* Pages that nobody will unlock: left by an inline read that found no memory    *)
(* (vdfs4_readpage_comp_inline_data), or held by a reader that hangs in the exit *)
(* of vdfs4_read_chunk.                                                         *)
NeverUnlocked ==
    {p \in All : lock[p] = Left \/ \E r \in Reader : lock[p] = r /\ task[r].pc = "hung"}

(* Readers of the same chunk never wait for each other in a circle, nor for a    *)
(* page their own read-ahead has locked: every read ends, with data or an error, *)
(* except one that hangs in the exit of vdfs4_read_chunk after a failure in the   *)
(* middle of a chunk, and those that wait for a page which such a failure has     *)
(* left locked for good.  (There are MaxReads calls, so in the end no other reader *)
(* is busy.)                                                                    *)
ReadsEnd ==
    <>[](\A r \in Reader : \/ task[r].pc \in {"idle", "hung"}
                            \/ ({own(r), task[r].at} \cup task[r].mine)
                                   \cap NeverUnlocked # {})
================================================================================
