---------------------------- MODULE ChunkReadProofs ----------------------------
(* Proofs about the readers of a packed file, for any number of readers, pages  *)
(* and blocks.                                                                  *)
EXTENDS ChunkRead, TLAPS

Busy == {"folio", "table", "tablewait", "blocks", "wait", "mark", "unpack", "map", "unmap",
         "put", "drop", "retry", "hwstart", "hw", "hwfail", "inline", "lock", "hung"}
Empty == {"idle", "lock", "folio", "table", "tablewait", "retry", "hwstart", "hwfail"}
Unpacking == {"unpack", "map", "unmap", "put", "hw", "inline"}
Fields == {"pc", "queue", "mine", "priv", "at", "map", "hw", "err", "tries"}

\* A task, as far as the argument needs it: the VFS has handed over one page, or
\* two by read-ahead.
TaskOK(t) ==
    /\ DOMAIN t = Fields
    /\ t.pc \in Busy \cup {"idle"}
    /\ t.mine \subseteq All
    /\ t.err \in BOOLEAN
    /\ t.pc # "idle" => \/ \E p \in Pages : t.queue = <<p>>
                        \/ \E p, q \in Pages : p # q /\ t.queue = <<p, q>>

\* What reader r holds: the page the VFS has handed over until it is unlocked, the
\* next page of the read-ahead, the blocks it collects and the pages it unpacks to.
Holds(r, t, l, f) ==
    /\ t.pc \in Empty => t.mine = {}
    /\ t.pc = "folio" => l[t.queue[1]] = r
    /\ t.pc # "idle" /\ Len(t.queue) = 2 => l[t.queue[2]] = r /\ t.queue[2] \notin t.mine
    /\ t.pc = "blocks" => \A p \in t.mine : l[p] = r
    /\ t.pc \in Unpacking => \A p \in t.mine \cap Pages : l[p] = r
    /\ t.pc \in {"blocks", "wait", "mark"} /\ f # "raw" => t.mine \cap Pages = {}

\* Pages about to become valid have been unpacked.
Unpacked(t, right) ==
    t.pc \in {"unmap", "put"} /\ ~t.err => t.mine \cap Pages \subseteq right

\* A page that is locked or being read is in the page cache.
Cached(l, c) == \A p \in Pages : l[p] # Free => p \in c
QueueCached(t, c) == t.pc # "idle" => \A i \in 1..Len(t.queue) : t.queue[i] \in c

\* Nobody reads a file that is not open.
ClosedIsIdle == file = "closed" => \A r \in Reader : task[r].pc = "idle"

\* The inductive invariant.
ReadInv ==
    /\ DOMAIN task = Reader
    /\ lock \in [All -> Reader \cup {Free, IO, Left}]
    /\ Cached(lock, cached)
    /\ \A r \in Reader : /\ TaskOK(task[r])
                         /\ Holds(r, task[r], lock, file)
                         /\ Unpacked(task[r], good)
                         /\ QueueCached(task[r], cached)
    /\ ClosedIsIdle
    /\ UptodateIsUnpacked

--------------------------------------------------------------------------------
(* Facts about the operators.                                                   *)

USE ChunkReadAssumption

\* The three sets of pages are disjoint.
LEMMA PageSets == Pages \subseteq All /\ Blocks \subseteq All /\ TABLE \in All
                  /\ TABLE \notin Pages /\ Blocks \cap Pages = {}
  BY DEF Pages, Blocks, TABLE, All

\* The page being read is the first of the queue, which has one or two pages.
LEMMA QueueOK ==
    ASSUME NEW t, TaskOK(t), t.pc # "idle"
    PROVE  /\ Head(t.queue) = t.queue[1] /\ t.queue[1] \in Pages /\ t.queue[1] \in All
           /\ Len(t.queue) \in {1, 2}
           /\ Len(t.queue) = 2 => /\ t.queue[2] \in Pages /\ t.queue[2] \in All
                                  /\ t.queue[2] # t.queue[1]
                                  /\ Tail(t.queue) = <<t.queue[2]>>
<1>1. CASE \E p \in Pages : t.queue = <<p>>
  BY <1>1, PageSets
<1>2. CASE \E p, q \in Pages : p # q /\ t.queue = <<p, q>>
  <2>1. PICK p \in Pages, q \in Pages : p # q /\ t.queue = <<p, q>>
    BY <1>2
  <2>2. Tail(t.queue) = <<q>>
    BY <2>1
  <2> QED
    BY <2>1, <2>2, PageSets
<1> QED
  BY <1>1, <1>2 DEF TaskOK

\* The task after the end of a page: idle, or at the next page of the read-ahead.
LEMMA DoneOK ==
    ASSUME NEW t, TaskOK(t), t.pc # "idle"
    PROVE  /\ TaskOK(Done(t))
           /\ Done(t).mine = {}
           /\ Len(t.queue) = 1 => Done(t).pc = "idle"
           /\ Len(t.queue) = 2 => /\ Done(t).pc = "folio"
                                  /\ Done(t).queue = <<t.queue[2]>>
<1>1. CASE Len(t.queue) = 1
  BY <1>1 DEF Done, Idle, TaskOK, Busy, Fields
<1>2. CASE Len(t.queue) = 2
  <2>1. PICK q \in Pages : q = t.queue[2] /\ Tail(t.queue) = <<q>>
    BY <1>2, QueueOK
  <2>2. Done(t) = [Idle EXCEPT !.pc = "folio", !.queue = <<q>>]
    <3>1. Len(t.queue) # 1
      BY <1>2
    <3> QED
      BY <2>1, <3>1, Zenon DEF Done
  <2>3. /\ Done(t).pc = "folio" /\ Done(t).queue = <<q>> /\ Done(t).mine = {}
        /\ Done(t).err = FALSE /\ DOMAIN Done(t) = Fields
    BY <2>2 DEF Idle, Fields
  <2>4. TaskOK(Done(t))
    BY <2>3, Zenon DEF TaskOK, Busy
  <2> QED
    BY <1>2, <2>1, <2>3, <2>4
<1> QED
  BY <1>1, <1>2, QueueOK

--------------------------------------------------------------------------------
(* The steps of a reader, in general.                                           *)

\* What a step of reader r leaves to the others and to the cache.
Frame(r) ==
    /\ file' = file
    /\ lock' \in [All -> Reader \cup {Free, IO, Left}]
    /\ \A p \in All : lock[p] \in Reader \ {r} => lock'[p] = lock[p]
    /\ cached \subseteq cached'
    /\ Cached(lock', cached')
    /\ good \subseteq good'
    /\ UptodateIsUnpacked'

\* Only the task of r changes, to new.
Moves(r, new) ==
    /\ DOMAIN task' = Reader
    /\ task'[r] = new
    /\ \A s \in Reader \ {r} : task'[s] = task[s]

\* Such a step keeps the invariant if r ends as the invariant wants it.
LEMMA ReaderStep ==
    ASSUME ReadInv, NEW r \in Reader, NEW new, Moves(r, new),
           Frame(r), file # "closed",
           TaskOK(new), Holds(r, new, lock', file), Unpacked(new, good'),
           QueueCached(new, cached')
    PROVE  ReadInv'
<1>1. DOMAIN task' = Reader /\ task'[r] = new
  BY DEF Moves
<1>2. ASSUME NEW s \in Reader, s # r
      PROVE  /\ TaskOK(task'[s]) /\ Holds(s, task'[s], lock', file)
             /\ Unpacked(task'[s], good') /\ QueueCached(task'[s], cached')
  <2>1. /\ TaskOK(task[s]) /\ Holds(s, task[s], lock, file) /\ Unpacked(task[s], good)
        /\ QueueCached(task[s], cached)
        /\ task'[s] = task[s]
    BY <1>2 DEF ReadInv, Moves
  <2>2. \A p \in All : lock[p] = s => lock'[p] = s
    BY <1>2 DEF Frame
  <2>3. Holds(s, task[s], lock', file)
    <3>1. task[s].pc = "folio" => lock'[task[s].queue[1]] = s
      BY <2>1, <2>2, QueueOK DEF Holds
    <3>2. task[s].pc # "idle" /\ Len(task[s].queue) = 2 => lock'[task[s].queue[2]] = s
      BY <2>1, <2>2, QueueOK DEF Holds
    <3>3. task[s].mine \subseteq All
      BY <2>1 DEF TaskOK
    <3> QED
      BY <2>1, <2>2, <3>1, <3>2, <3>3 DEF Holds
  <2>4. Unpacked(task[s], good') /\ QueueCached(task[s], cached')
    BY <2>1 DEF Unpacked, QueueCached, Frame
  <2> QED
    BY <2>1, <2>3, <2>4
<1>3. ClosedIsIdle'
  BY DEF ReadInv, ClosedIsIdle, Frame
<1> QED
  BY <1>1, <1>2, <1>3 DEF ReadInv, Frame

\* What the invariant says of reader r, who is at work.
At(r) ==
    /\ DOMAIN task[r] = Fields /\ task[r].err \in BOOLEAN /\ task[r].mine \subseteq All
    /\ Holds(r, task[r], lock, file)
    /\ Unpacked(task[r], good)
    /\ file # "closed"
    /\ own(r) = task[r].queue[1] /\ own(r) \in Pages /\ own(r) \in All /\ own(r) \in cached
    /\ Len(task[r].queue) \in {1, 2}
    /\ Len(task[r].queue) = 2 => /\ task[r].queue[2] \in All /\ task[r].queue[2] \in Pages
                                 /\ task[r].queue[2] # own(r)
                                 /\ task[r].queue[2] \notin task[r].mine
                                 /\ task[r].queue[2] \in cached
                                 /\ lock[task[r].queue[2]] = r
    /\ r # Free /\ r # IO /\ r # Left

\* Reader r, at work, is as the invariant says.
LEMMA Local ==
    ASSUME ReadInv, NEW r \in Reader, task[r].pc # "idle"
    PROVE  At(r)
<1>1. /\ TaskOK(task[r]) /\ Holds(r, task[r], lock, file) /\ Unpacked(task[r], good)
      /\ QueueCached(task[r], cached)
  BY DEF ReadInv
<1>2. own(r) = task[r].queue[1] /\ own(r) \in Pages /\ own(r) \in All
  BY <1>1, QueueOK DEF own
<1>3. Len(task[r].queue) \in {1, 2}
  BY <1>1, QueueOK
<1>4. own(r) \in cached /\ (Len(task[r].queue) = 2 => task[r].queue[2] \in cached)
  BY <1>1, <1>2, <1>3 DEF QueueCached
<1>5. Len(task[r].queue) = 2 => /\ task[r].queue[2] \in All
                                /\ task[r].queue[2] \in Pages
                                /\ task[r].queue[2] # own(r)
                                /\ task[r].queue[2] \notin task[r].mine
                                /\ lock[task[r].queue[2]] = r
  BY <1>1, <1>2, QueueOK DEF Holds
<1>6. file # "closed"
  BY DEF ReadInv, ClosedIsIdle
<1>7. DOMAIN task[r] = Fields /\ task[r].err \in BOOLEAN /\ task[r].mine \subseteq All
  BY <1>1 DEF TaskOK
<1> QED
  BY <1>1, <1>2, <1>3, <1>4, <1>5, <1>6, <1>7 DEF At

\* A task with which r goes on reading the same page.
Fits(r, new) ==
    /\ DOMAIN new = Fields /\ new.pc \in Busy /\ new.queue = task[r].queue
    /\ new.mine \subseteq All /\ new.err \in BOOLEAN
    /\ Len(task[r].queue) = 2 => /\ lock'[task[r].queue[2]] = r
                                 /\ task[r].queue[2] \notin new.mine
    /\ new.pc \in Empty => new.mine = {}
    /\ new.pc = "folio" => lock'[own(r)] = r
    /\ new.pc = "blocks" => \A p \in new.mine : lock'[p] = r
    /\ new.pc \in Unpacking => \A p \in new.mine \cap Pages : lock'[p] = r
    /\ new.pc \in {"blocks", "wait", "mark"} /\ file # "raw" => new.mine \cap Pages = {}
    /\ Unpacked(new, good')

\* A step after which r goes on with the same page keeps the invariant.
LEMMA GoesOn ==
    ASSUME ReadInv, NEW r \in Reader, NEW new, Moves(r, new), task[r].pc # "idle",
           Frame(r), Fits(r, new)
    PROVE  ReadInv'
<1>1. TaskOK(task[r]) /\ At(r) /\ QueueCached(task[r], cached)
  BY Local DEF ReadInv
<1>2. TaskOK(new)
  BY <1>1 DEF TaskOK, Fits
<1>3. Holds(r, new, lock', file)
  BY <1>1 DEF Holds, Fits, At
<1>4. QueueCached(new, cached')
  BY <1>1 DEF QueueCached, Frame, Fits
<1>5. Unpacked(new, good') /\ file # "closed"
  BY <1>1 DEF Fits, At
<1> QED
  BY <1>2, <1>3, <1>4, <1>5, ReaderStep

\* So does the last step for a page.
LEMMA Ends ==
    ASSUME ReadInv, NEW r \in Reader, NEW t, Moves(r, Done(t)),
           t.queue = task[r].queue,
           task[r].pc # "idle", Frame(r),
           Len(task[r].queue) = 2 => lock'[task[r].queue[2]] = r
    PROVE  ReadInv'
<1> DEFINE new == Done(task[r])
<1>1. Moves(r, new)
  BY DEF Done
<1>2. TaskOK(task[r]) /\ At(r)
  BY Local DEF ReadInv
<1>3. /\ TaskOK(new) /\ new.mine = {}
      /\ Len(task[r].queue) = 1 => new.pc = "idle"
      /\ Len(task[r].queue) = 2 => /\ new.pc = "folio"
                                   /\ new.queue = <<task[r].queue[2]>>
  BY <1>2, DoneOK
<1> HIDE DEF new
<1>4. new.pc = "idle" \/ (new.pc = "folio" /\ new.queue = <<task[r].queue[2]>>
                          /\ Len(task[r].queue) = 2)
  BY <1>2, <1>3 DEF At
<1>5. Holds(r, new, lock', file)
  BY <1>3, <1>4 DEF Holds, Empty, Unpacking
<1>6. Unpacked(new, good')
  BY <1>4 DEF Unpacked
<1>7. QueueCached(new, cached')
  BY <1>2, <1>4, SMTT(30) DEF QueueCached, Frame, At
<1>8. file # "closed"
  BY <1>2 DEF At
<1> QED
  BY <1>1, <1>3, <1>5, <1>6, <1>7, <1>8, ReaderStep

\* Step assigns to the task of r only.
LEMMA StepMoves ==
    ASSUME ReadInv, NEW r \in Reader, NEW new, task' = [task EXCEPT ![r] = new]
    PROVE  Moves(r, new)
  BY DEF ReadInv, Moves

\* A step that leaves the locks alone.
LEMMA Quiet ==
    ASSUME ReadInv, NEW r \in Reader, lock' = lock, cached' = cached, file' = file,
           good \subseteq good', uptodate' \subseteq uptodate
    PROVE  Frame(r)
  BY DEF Frame, ReadInv, Cached, UptodateIsUnpacked

\* A step that changes the locks of pages no other reader holds.
Locking(r, S, who) ==
    /\ S \subseteq All /\ who \in {r, Free, IO, Left}
    /\ lock' = Lock(S, who) /\ \A p \in S : lock[p] \in {r, Free, IO}
    /\ file' = file /\ cached \subseteq cached'
    /\ who = Free \/ S \cap Pages \subseteq cached'
    /\ good \subseteq good'
    /\ file # "plain" => uptodate' \cap Pages \subseteq uptodate \cup good'

\* Such a step leaves the rest as it is.
LEMMA Locks ==
    ASSUME ReadInv, NEW r \in Reader, NEW S, NEW who, Locking(r, S, who)
    PROVE  /\ Frame(r)
           /\ \A p \in All : lock'[p] = IF p \in S THEN who ELSE lock[p]
<1> USE DEF Locking
<1>1. \A p \in All : lock'[p] = IF p \in S THEN who ELSE lock[p]
  BY DEF Lock
<1>2. lock' \in [All -> Reader \cup {Free, IO, Left}]
  BY DEF Lock, ReadInv
<1>3. \A p \in All : lock[p] \in Reader \ {r} => lock'[p] = lock[p]
  BY <1>1
<1>4. Cached(lock', cached')
  BY <1>1, PageSets DEF Cached, ReadInv
<1>5. UptodateIsUnpacked'
  BY DEF ReadInv, UptodateIsUnpacked
<1> QED
  BY <1>1, <1>2, <1>3, <1>4, <1>5 DEF Frame

--------------------------------------------------------------------------------
(* The steps of a reader, one by one.                                           *)

\* The page is unlocked and the chunk looked up.
LEMMA ReadpageTunedSw ==
    ASSUME ReadInv, NEW r \in Reader, readpage_tuned_sw(r)
    PROVE  ReadInv'
<1> DEFINE new == [task[r] EXCEPT !.pc = "table", !.hw = FALSE, !.err = FALSE]
<1>1. /\ task[r].pc = "folio" /\ task' = [task EXCEPT ![r] = new]
      /\ lock' = Lock({own(r)}, Free)
      /\ file' = file /\ cached' = cached /\ uptodate' = uptodate /\ good' = good
  BY DEF readpage_tuned_sw, Step, Flags, pool
<1>2. At(r)
  BY <1>1, Local
<1>3. /\ DOMAIN new = Fields /\ new.pc = "table" /\ new.queue = task[r].queue
      /\ new.mine = {} /\ new.err = FALSE
  BY <1>1, <1>2 DEF Fields, Holds, Empty, At
<1>4. Moves(r, new)
  BY <1>1, StepMoves, Zenon
<1> HIDE DEF new
<1>5. lock[own(r)] = r
  BY <1>1, <1>2 DEF At, Holds, Unpacking
<1>6. Locking(r, {own(r)}, Free)
  BY <1>1, <1>2, <1>5, PageSets DEF Locking, At
<1>7. /\ Frame(r)
      /\ \A p \in All : lock'[p] = IF p \in {own(r)} THEN Free ELSE lock[p]
  BY <1>6, Locks
<1>8. Fits(r, new)
  BY <1>1, <1>2, <1>3, <1>5, <1>7, PageSets, Zenon
     DEF Fits, At, Busy, Empty, Unpacking, Unpacked
<1> QED
  BY <1>1, <1>4, <1>7, <1>8, GoesOn

\* The page of the table is read.
LEMMA ReadCompPages ==
    ASSUME ReadInv, NEW r \in Reader, read_comp_pages(r)
    PROVE  ReadInv'
<1> DEFINE new == [task[r] EXCEPT !.pc = "tablewait"]
<1>1. /\ task[r].pc = "table" /\ task' = [task EXCEPT ![r] = new]
      /\ lock' = Lock({TABLE}, IF TABLE \in uptodate' THEN Free ELSE IO)
      /\ file' = file /\ cached' = cached /\ uptodate' \subseteq uptodate /\ good' = good
  BY DEF read_comp_pages, Step, Flags, pool
<1>2. At(r)
  BY <1>1, Local
<1>3. /\ DOMAIN new = Fields /\ new.pc = "tablewait" /\ new.queue = task[r].queue
      /\ new.mine = {} /\ new.err = task[r].err
  BY <1>1, <1>2 DEF Fields, Holds, Empty, At
<1>4. Moves(r, new)
  BY <1>1, StepMoves, ZenonT(30)
<1> HIDE DEF new
<1>5. lock[TABLE] = Free
  BY <1>1, <1>2 DEF At, Holds, Unpacking, read_comp_pages
<1>6. Locking(r, {TABLE}, IF TABLE \in uptodate' THEN Free ELSE IO)
  BY <1>1, <1>2, <1>5, PageSets DEF Locking, At
<1>7. /\ Frame(r)
      /\ \A p \in All : lock'[p] = IF p \in {TABLE}
                                   THEN IF TABLE \in uptodate' THEN Free ELSE IO
                                   ELSE lock[p]
  BY <1>6, Locks
<1>8. Fits(r, new)
  BY <1>1, <1>2, <1>3, <1>5, <1>7, PageSets, ZenonT(30)
     DEF Fits, At, Busy, Empty, Unpacking, Unpacked
<1> QED
  BY <1>1, <1>4, <1>7, <1>8, GoesOn

\* The chunk cannot be looked up.
LEMMA ChunkExtentFails ==
    ASSUME ReadInv, NEW r \in Reader, chunk_extent_fails(r)
    PROVE  ReadInv'
<1> DEFINE new == [task[r] EXCEPT !.pc = IF task[r].hw THEN "hwfail" ELSE "retry",
                                  !.err = TRUE]
<1>1. /\ task[r].pc = "table" /\ task' = [task EXCEPT ![r] = new]
      /\ lock' = lock
      /\ file' = file /\ cached' = cached /\ uptodate' = uptodate /\ good' = good
  BY DEF chunk_extent_fails, Step, Flags, pool
<1>2. At(r)
  BY <1>1, Local
<1>3. /\ DOMAIN new = Fields /\ new.pc \in {"hwfail", "retry"}
      /\ new.queue = task[r].queue /\ new.mine = {} /\ new.err = TRUE
  BY <1>1, <1>2 DEF Fields, Holds, Empty, At
<1>4. Moves(r, new)
  BY <1>1, StepMoves, Zenon
<1> HIDE DEF new
<1>5. Frame(r)
  BY <1>1, Quiet
<1>6. Fits(r, new)
  BY <1>1, <1>2, <1>3, PageSets, Zenon
     DEF Fits, At, Holds, Busy, Empty, Unpacking, Unpacked
<1> QED
  BY <1>1, <1>4, <1>5, <1>6, GoesOn

\* A block cannot be collected.
LEMMA CollectBlockFails ==
    ASSUME ReadInv, NEW r \in Reader, collect_block_fails(r)
    PROVE  ReadInv'
<1> DEFINE none == task[r].mine \cup task[r].priv = {}
           new == [task[r] EXCEPT !.pc = IF none THEN "retry" ELSE "hung", !.err = TRUE]
<1>1. /\ task[r].pc = "blocks" /\ task' = [task EXCEPT ![r] = new]
      /\ lock' = lock
      /\ file' = file /\ cached' = cached /\ uptodate' = uptodate /\ good' = good
  BY DEF collect_block_fails, Step, Flags, pool
<1>2. At(r)
  BY <1>1, Local
<1>3. /\ DOMAIN new = Fields /\ new.queue = task[r].queue /\ new.err = TRUE
      /\ new.mine = task[r].mine
      /\ new.pc = "hung" \/ (new.pc = "retry" /\ new.mine = {})
  BY <1>1, <1>2 DEF Fields, At
<1>4. Moves(r, new)
  BY <1>1, StepMoves, Zenon
<1> HIDE DEF new
<1>5. Frame(r)
  BY <1>1, Quiet
<1>6. Fits(r, new)
  BY <1>1, <1>2, <1>3, PageSets, Zenon
     DEF Fits, At, Holds, Busy, Empty, Unpacking, Unpacked
<1> QED
  BY <1>1, <1>4, <1>5, <1>6, GoesOn

\* The blocks have been waited for.
LEMMA FolioWaitLocked ==
    ASSUME ReadInv, NEW r \in Reader, folio_wait_locked(r)
    PROVE  ReadInv'
<1> DEFINE new == [task[r] EXCEPT !.pc = "mark", !.at = Min(Slots),
                                     !.err = ~(task[r].mine \subseteq uptodate)]
<1>1. /\ task[r].pc = "wait" /\ task' = [task EXCEPT ![r] = new]
      /\ lock' = lock
      /\ file' = file /\ cached' = cached /\ uptodate' = uptodate /\ good' = good
  BY DEF folio_wait_locked, Step, Flags, pool
<1>2. At(r)
  BY <1>1, Local
<1>3. /\ DOMAIN new = Fields /\ new.pc = "mark" /\ new.queue = task[r].queue
      /\ new.mine = task[r].mine /\ new.err \in BOOLEAN
  BY <1>1, <1>2 DEF Fields, Holds, Empty, At
<1>4. Moves(r, new)
  BY <1>1, StepMoves, Zenon
<1> HIDE DEF new
<1>5. Frame(r)
  BY <1>1, Quiet
<1>6. Fits(r, new)
  BY <1>1, <1>2, <1>3, PageSets
     DEF Fits, At, Holds, Busy, Empty, Unpacking, Unpacked
<1> QED
  BY <1>1, <1>4, <1>5, <1>6, GoesOn

\* The read of a private page has failed.
LEMMA PrivateReadFails ==
    ASSUME ReadInv, NEW r \in Reader, private_read_fails(r)
    PROVE  ReadInv'
<1> DEFINE new == [task[r] EXCEPT !.pc = "mark", !.at = Min(Slots), !.err = TRUE]
<1>1. /\ task[r].pc = "wait" /\ task' = [task EXCEPT ![r] = new]
      /\ lock' = lock
      /\ file' = file /\ cached' = cached /\ uptodate' = uptodate /\ good' = good
  BY DEF private_read_fails, Step, Flags, pool
<1>2. At(r)
  BY <1>1, Local
<1>3. /\ DOMAIN new = Fields /\ new.pc = "mark" /\ new.queue = task[r].queue
      /\ new.mine = task[r].mine /\ new.err = TRUE
  BY <1>1, <1>2 DEF Fields, Holds, Empty, At
<1>4. Moves(r, new)
  BY <1>1, StepMoves, Zenon
<1> HIDE DEF new
<1>5. Frame(r)
  BY <1>1, Quiet
<1>6. Fits(r, new)
  BY <1>1, <1>2, <1>3, PageSets, Zenon
     DEF Fits, At, Holds, Busy, Empty, Unpacking, Unpacked
<1> QED
  BY <1>1, <1>4, <1>5, <1>6, GoesOn

\* A slot for the buffers is taken.
LEMMA SwDecompVmGet ==
    ASSUME ReadInv, NEW r \in Reader, sw_decomp_vm_get(r)
    PROVE  ReadInv'
<1> DEFINE new == [task[r] EXCEPT !.pc = "map"]
<1>1. /\ task[r].pc = "unpack" /\ task' = [task EXCEPT ![r] = new]
      /\ lock' = lock
      /\ file' = file /\ cached' = cached /\ uptodate' = uptodate /\ good' = good
  BY DEF sw_decomp_vm_get, Step, Flags, pool
<1>2. At(r)
  BY <1>1, Local
<1>3. /\ DOMAIN new = Fields /\ new.pc = "map" /\ new.queue = task[r].queue
      /\ new.mine = task[r].mine /\ new.err = task[r].err
  BY <1>1, <1>2 DEF Fields, Holds, Empty, At
<1>4. Moves(r, new)
  BY <1>1, StepMoves, Zenon
<1> HIDE DEF new
<1>5. Frame(r)
  BY <1>1, Quiet
<1>6. Fits(r, new)
  BY <1>1, <1>2, <1>3, PageSets
     DEF Fits, At, Holds, Busy, Empty, Unpacking, Unpacked
<1> QED
  BY <1>1, <1>4, <1>5, <1>6, GoesOn

\* The chunk is unpacked into the pages that are held.
LEMMA DecompFn ==
    ASSUME ReadInv, NEW r \in Reader, decomp_fn(r)
    PROVE  ReadInv'
<1> DEFINE new == [task[r] EXCEPT !.pc = "unmap",
                                     !.err = ~(task[r].mine \cap Blocks \subseteq good)]
<1>1. /\ task[r].pc = "map" /\ task' = [task EXCEPT ![r] = new]
      /\ lock' = lock
      /\ file' = file /\ cached' = cached /\ uptodate' = uptodate /\ good \subseteq good'
      /\ task[r].mine \cap Blocks \subseteq good => Held(r) \subseteq good'
  BY DEF decomp_fn, Step, Flags, pool
<1>2. At(r)
  BY <1>1, Local
<1>3. /\ DOMAIN new = Fields /\ new.pc = "unmap" /\ new.queue = task[r].queue
      /\ new.mine = task[r].mine /\ new.err = ~(task[r].mine \cap Blocks \subseteq good)
  BY <1>1, <1>2 DEF Fields, Holds, Empty, At
<1>4. Moves(r, new)
  BY <1>1, StepMoves, ZenonT(30)
<1> HIDE DEF new
<1>5. Frame(r)
  BY <1>1, Quiet
<1>6. Fits(r, new)
  BY <1>1, <1>2, <1>3, PageSets, Zenon
     DEF Fits, At, Holds, Busy, Empty, Unpacking, Unpacked, Held
<1> QED
  BY <1>1, <1>4, <1>5, <1>6, GoesOn

\* There is no workspace to unpack the chunk.
LEMMA DecompFails ==
    ASSUME ReadInv, NEW r \in Reader, decomp_fails(r)
    PROVE  ReadInv'
<1> DEFINE new == [task[r] EXCEPT !.pc = "unmap", !.err = TRUE]
<1>1. /\ task[r].pc = "map" /\ task' = [task EXCEPT ![r] = new]
      /\ lock' = lock
      /\ file' = file /\ cached' = cached /\ uptodate' = uptodate /\ good' = good
  BY DEF decomp_fails, Step, Flags, pool
<1>2. At(r)
  BY <1>1, Local
<1>3. /\ DOMAIN new = Fields /\ new.pc = "unmap" /\ new.queue = task[r].queue
      /\ new.mine = task[r].mine /\ new.err = TRUE
  BY <1>1, <1>2 DEF Fields, Holds, Empty, At
<1>4. Moves(r, new)
  BY <1>1, StepMoves, Zenon
<1> HIDE DEF new
<1>5. Frame(r)
  BY <1>1, Quiet
<1>6. Fits(r, new)
  BY <1>1, <1>2, <1>3, PageSets, Zenon
     DEF Fits, At, Holds, Busy, Empty, Unpacking, Unpacked
<1> QED
  BY <1>1, <1>4, <1>5, <1>6, GoesOn

\* The buffers are given back.
LEMMA SwDecompVmUnmap ==
    ASSUME ReadInv, NEW r \in Reader, sw_decomp_vm_unmap(r)
    PROVE  ReadInv'
<1> DEFINE new == [task[r] EXCEPT !.pc = "put", !.map = {}]
<1>1. /\ task[r].pc = "unmap" /\ task' = [task EXCEPT ![r] = new]
      /\ lock' = lock
      /\ file' = file /\ cached' = cached /\ uptodate' = uptodate /\ good' = good
  BY DEF sw_decomp_vm_unmap, Step, Flags, pool
<1>2. At(r)
  BY <1>1, Local
<1>3. /\ DOMAIN new = Fields /\ new.pc = "put" /\ new.queue = task[r].queue
      /\ new.mine = task[r].mine /\ new.err = task[r].err
  BY <1>1, <1>2 DEF Fields, Holds, Empty, At
<1>4. Moves(r, new)
  BY <1>1, StepMoves, Zenon
<1> HIDE DEF new
<1>5. Frame(r)
  BY <1>1, Quiet
<1>6. Fits(r, new)
  BY <1>1, <1>2, <1>3, PageSets
     DEF Fits, At, Holds, Busy, Empty, Unpacking, Unpacked
<1> QED
  BY <1>1, <1>4, <1>5, <1>6, GoesOn

\* The page is unlocked and the hardware tried.
LEMMA ReadpageTunedHw ==
    ASSUME ReadInv, NEW r \in Reader, readpage_tuned_hw(r)
    PROVE  ReadInv'
<1> DEFINE new == [task[r] EXCEPT !.pc = "hwstart", !.hw = TRUE]
<1>1. /\ task[r].pc = "folio" /\ task' = [task EXCEPT ![r] = new]
      /\ lock' = Lock({own(r)}, Free)
      /\ file' = file /\ cached' = cached /\ uptodate' = uptodate /\ good' = good
  BY DEF readpage_tuned_hw, Step, Flags, pool
<1>2. At(r)
  BY <1>1, Local
<1>3. /\ DOMAIN new = Fields /\ new.pc = "hwstart" /\ new.queue = task[r].queue
      /\ new.mine = {} /\ new.err = task[r].err
  BY <1>1, <1>2 DEF Fields, Holds, Empty, At
<1>4. Moves(r, new)
  BY <1>1, StepMoves, Zenon
<1> HIDE DEF new
<1>5. lock[own(r)] = r
  BY <1>1, <1>2 DEF At, Holds, Unpacking
<1>6. Locking(r, {own(r)}, Free)
  BY <1>1, <1>2, <1>5, PageSets DEF Locking, At
<1>7. /\ Frame(r)
      /\ \A p \in All : lock'[p] = IF p \in {own(r)} THEN Free ELSE lock[p]
  BY <1>6, Locks
<1>8. Fits(r, new)
  BY <1>1, <1>2, <1>3, <1>5, <1>7, PageSets, Zenon
     DEF Fits, At, Busy, Empty, Unpacking, Unpacked
<1> QED
  BY <1>1, <1>4, <1>7, <1>8, GoesOn

\* The hardware has failed and the pages are released.
LEMMA Hw2Fails ==
    ASSUME ReadInv, NEW r \in Reader, hw2_fails(r)
    PROVE  ReadInv'
<1> DEFINE new == [task[r] EXCEPT !.pc = "hwfail", !.mine = {}, !.err = TRUE]
<1>1. /\ task[r].pc = "hw" /\ task' = [task EXCEPT ![r] = new]
      /\ lock' = Lock(Held(r), Free)
      /\ file' = file /\ cached' = cached /\ uptodate' = uptodate /\ good' = good
  BY DEF hw2_fails, Step, Flags, pool, vdfs4_release_unpacked_page
<1>2. At(r)
  BY <1>1, Local
<1>3. /\ DOMAIN new = Fields /\ new.pc = "hwfail" /\ new.queue = task[r].queue
      /\ new.mine = {} /\ new.err = TRUE
  BY <1>1, <1>2 DEF Fields, Holds, Empty, At
<1>4. Moves(r, new)
  BY <1>1, StepMoves, Zenon
<1> HIDE DEF new
<1>5. Held(r) \in SUBSET All /\ \A p \in Held(r) : lock[p] = r
  BY <1>1, <1>2 DEF At, Holds, Unpacking, Held
<1>6. Locking(r, Held(r), Free)
  BY <1>1, <1>2, <1>5, PageSets DEF Locking, At
<1>7. /\ Frame(r)
      /\ \A p \in All : lock'[p] = IF p \in Held(r) THEN Free ELSE lock[p]
  BY <1>6, Locks
<1>8. Fits(r, new)
  BY <1>1, <1>2, <1>3, <1>5, <1>7, PageSets, Zenon
     DEF Fits, At, Busy, Empty, Unpacking, Unpacked, Held
<1> QED
  BY <1>1, <1>4, <1>7, <1>8, GoesOn

\* A page to unpack to cannot be had.
LEMMA CollectPageFails ==
    ASSUME ReadInv, NEW r \in Reader, collect_page_fails(r)
    PROVE  ReadInv'
<1> DEFINE new == [task[r] EXCEPT !.pc = "drop", !.at = Min(Blocks), !.err = TRUE,
                                  !.mine = @ \ Pages, !.priv = {}]
<1>1. /\ task[r].pc = "unpack" /\ task' = [task EXCEPT ![r] = new]
      /\ lock' = Lock(Held(r), Free)
      /\ file' = file /\ cached' = cached /\ uptodate' = uptodate /\ good' = good
  BY DEF collect_page_fails, Step, Flags, pool, vdfs4_release_unpacked_page
<1>2. At(r)
  BY <1>1, Local
<1>3. /\ DOMAIN new = Fields /\ new.pc = "drop" /\ new.queue = task[r].queue
      /\ new.mine = task[r].mine \ Pages /\ new.err = TRUE
  BY <1>1, <1>2 DEF Fields, At
<1>4. Moves(r, new)
  BY <1>1, StepMoves, Zenon
<1> HIDE DEF new
<1>5. Held(r) \in SUBSET All /\ \A p \in Held(r) : lock[p] = r
  BY <1>1, <1>2 DEF At, Holds, Unpacking, Held
<1>6. Locking(r, Held(r), Free)
  BY <1>1, <1>2, <1>5, PageSets DEF Locking, At
<1>7. /\ Frame(r)
      /\ \A p \in All : lock'[p] = IF p \in Held(r) THEN Free ELSE lock[p]
  BY <1>6, Locks
<1>8. Len(task[r].queue) = 2 => lock'[task[r].queue[2]] = r
  BY <1>2, <1>7 DEF At, Held
<1>9. Fits(r, new)
  BY <1>1, <1>2, <1>3, <1>8, Zenon
     DEF Fits, At, Busy, Empty, Unpacking, Unpacked
<1> QED
  BY <1>1, <1>4, <1>7, <1>9, GoesOn

\* The page is locked again for the software.
LEMMA HwFallsBack ==
    ASSUME ReadInv, NEW r \in Reader, hw_falls_back(r)
    PROVE  ReadInv'
<1> DEFINE new == [task[r] EXCEPT !.pc = "folio"]
<1>1. /\ task[r].pc = "hwfail" /\ task' = [task EXCEPT ![r] = new]
      /\ lock' = Lock({own(r)}, r)
      /\ file' = file /\ cached' = cached /\ uptodate' = uptodate /\ good' = good
  BY DEF hw_falls_back, Step, Flags, pool
<1>2. At(r)
  BY <1>1, Local
<1>3. /\ DOMAIN new = Fields /\ new.pc = "folio" /\ new.queue = task[r].queue
      /\ new.mine = {} /\ new.err = task[r].err
  BY <1>1, <1>2 DEF Fields, Holds, Empty, At
<1>4. Moves(r, new)
  BY <1>1, StepMoves, Zenon
<1> HIDE DEF new
<1>5. lock[own(r)] = Free
  BY <1>1, <1>2 DEF At, Holds, Unpacking, hw_falls_back
<1>6. Locking(r, {own(r)}, r)
  BY <1>1, <1>2, <1>5, PageSets DEF Locking, At
<1>7. /\ Frame(r)
      /\ \A p \in All : lock'[p] = IF p \in {own(r)} THEN r ELSE lock[p]
  BY <1>6, Locks
<1>8. Fits(r, new)
  BY <1>1, <1>2, <1>3, <1>5, <1>7, PageSets, Zenon
     DEF Fits, At, Busy, Empty, Unpacking, Unpacked
<1> QED
  BY <1>1, <1>4, <1>7, <1>8, GoesOn

\* Packed inline data: the page stays locked.
LEMMA ReadpageCompInlineData ==
    ASSUME ReadInv, NEW r \in Reader, readpage_comp_inline_data(r)
    PROVE  ReadInv'
<1> DEFINE new == [task[r] EXCEPT !.pc = "inline", !.at = Min(Pages), !.mine = {own(r)}]
<1>1. /\ task[r].pc = "folio" /\ task' = [task EXCEPT ![r] = new]
      /\ lock' = lock
      /\ file' = file /\ cached' = cached /\ uptodate' = uptodate /\ good' = good
  BY DEF readpage_comp_inline_data, Step, Flags, pool
<1>2. At(r)
  BY <1>1, Local
<1>3. /\ DOMAIN new = Fields /\ new.pc = "inline" /\ new.queue = task[r].queue
      /\ new.mine = {own(r)} /\ new.err = task[r].err
  BY <1>1, <1>2 DEF Fields, Holds, Empty, At
<1>4. Moves(r, new)
  BY <1>1, StepMoves, ZenonT(30)
<1> HIDE DEF new
<1>5. Frame(r)
  BY <1>1, Quiet
<1>6. Fits(r, new)
  BY <1>1, <1>2, <1>3, PageSets
     DEF Fits, At, Holds, Busy, Empty, Unpacking, Unpacked
<1> QED
  BY <1>1, <1>4, <1>5, <1>6, GoesOn

\* Somebody else has read the page.
LEMMA AlreadyRead ==
    ASSUME ReadInv, NEW r \in Reader, already_read(r)
    PROVE  ReadInv'
<1>1. /\ task[r].pc = "unpack" /\ task' = [task EXCEPT ![r] = Done(task[r])]
      /\ lock' = Lock(Held(r), Free)
      /\ file' = file /\ cached' = cached /\ uptodate' = uptodate /\ good' = good
  BY DEF already_read, Step, Flags, pool, vdfs4_release_unpacked_page
<1>2. At(r)
  BY <1>1, Local
<1>3. Held(r) \in SUBSET All /\ \A p \in Held(r) : lock[p] = r
  BY <1>1, <1>2 DEF At, Holds, Unpacking, Held
<1>4. Locking(r, Held(r), Free)
  BY <1>1, <1>2, <1>3, PageSets DEF Locking, At
<1>5. /\ Frame(r)
      /\ \A p \in All : lock'[p] = IF p \in Held(r) THEN Free ELSE lock[p]
  BY <1>4, Locks
<1>6. Moves(r, Done(task[r]))
  BY <1>1, StepMoves, Zenon
<1>7. Len(task[r].queue) = 2 => lock'[task[r].queue[2]] = r
  BY <1>2, <1>5 DEF At, Held
<1> QED
  BY <1>1, <1>5, <1>6, <1>7, Ends

\* The hardware has unpacked the chunk.
LEMMA Hw2UnpackChunk ==
    ASSUME ReadInv, NEW r \in Reader, hw2_unpack_chunk(r)
    PROVE  ReadInv'
<1>1. /\ task[r].pc = "hw" /\ task' = [task EXCEPT ![r] = Done(task[r])]
      /\ lock' = Lock(Held(r), Free)
      /\ file' = file /\ cached' = cached /\ good' = good \cup Held(r)
      /\ uptodate' = uptodate \cup Held(r)
  BY DEF hw2_unpack_chunk, Step, Flags, pool, vdfs4_release_unpacked_page
<1>2. At(r)
  BY <1>1, Local
<1>3. Held(r) \in SUBSET All /\ \A p \in Held(r) : lock[p] = r
  BY <1>1, <1>2 DEF At, Holds, Unpacking, Held
<1>4. Locking(r, Held(r), Free)
  BY <1>1, <1>2, <1>3, PageSets DEF Locking, At
<1>5. /\ Frame(r)
      /\ \A p \in All : lock'[p] = IF p \in Held(r) THEN Free ELSE lock[p]
  BY <1>4, Locks
<1>6. Moves(r, Done(task[r]))
  BY <1>1, StepMoves, Zenon
<1>7. Len(task[r].queue) = 2 => lock'[task[r].queue[2]] = r
  BY <1>2, <1>5 DEF At, Held
<1> QED
  BY <1>1, <1>5, <1>6, <1>7, Ends

\* Packed inline data is unpacked.
LEMMA UnpackInline ==
    ASSUME ReadInv, NEW r \in Reader, unpack_inline(r)
    PROVE  ReadInv'
<1>1. /\ task[r].pc = "inline" /\ task' = [task EXCEPT ![r] = Done(task[r])]
      /\ lock' = Lock(Held(r), Free)
      /\ file' = file /\ cached' = cached /\ good' = good \cup Held(r)
      /\ uptodate' = uptodate \cup Held(r)
  BY DEF unpack_inline, Step, Flags, pool, vdfs4_release_unpacked_page
<1>2. At(r)
  BY <1>1, Local
<1>3. Held(r) \in SUBSET All /\ \A p \in Held(r) : lock[p] = r
  BY <1>1, <1>2 DEF At, Holds, Unpacking, Held
<1>4. Locking(r, Held(r), Free)
  BY <1>1, <1>2, <1>3, PageSets DEF Locking, At
<1>5. /\ Frame(r)
      /\ \A p \in All : lock'[p] = IF p \in Held(r) THEN Free ELSE lock[p]
  BY <1>4, Locks
<1>6. Moves(r, Done(task[r]))
  BY <1>1, StepMoves, Zenon
<1>7. Len(task[r].queue) = 2 => lock'[task[r].queue[2]] = r
  BY <1>2, <1>5 DEF At, Held
<1> QED
  BY <1>1, <1>5, <1>6, <1>7, Ends

\* Packed inline data cannot be unpacked.
LEMMA UnpackInlineFails ==
    ASSUME ReadInv, NEW r \in Reader, unpack_inline_fails(r)
    PROVE  ReadInv'
<1>1. /\ task[r].pc = "inline" /\ task' = [task EXCEPT ![r] = Done(task[r])]
      /\ lock' = Lock(Held(r), Free)
      /\ file' = file /\ cached' = cached /\ uptodate' = uptodate /\ good' = good
  BY DEF unpack_inline_fails, Step, Flags, pool, vdfs4_release_unpacked_page
<1>2. At(r)
  BY <1>1, Local
<1>3. Held(r) \in SUBSET All /\ \A p \in Held(r) : lock[p] = r
  BY <1>1, <1>2 DEF At, Holds, Unpacking, Held
<1>4. Locking(r, Held(r), Free)
  BY <1>1, <1>2, <1>3, PageSets DEF Locking, At
<1>5. /\ Frame(r)
      /\ \A p \in All : lock'[p] = IF p \in Held(r) THEN Free ELSE lock[p]
  BY <1>4, Locks
<1>6. Moves(r, Done(task[r]))
  BY <1>1, StepMoves, Zenon
<1>7. Len(task[r].queue) = 2 => lock'[task[r].queue[2]] = r
  BY <1>2, <1>5 DEF At, Held
<1> QED
  BY <1>1, <1>5, <1>6, <1>7, Ends

\* An inline read finds no memory, and the page stays locked.
LEMMA ReadpageCompInlineFails ==
    ASSUME ReadInv, NEW r \in Reader, readpage_comp_inline_fails(r)
    PROVE  ReadInv'
<1>1. /\ task[r].pc = "folio" /\ task' = [task EXCEPT ![r] = Done(task[r])]
      /\ lock' = Lock({own(r)}, Left)
      /\ file' = file /\ cached' = cached /\ uptodate' = uptodate /\ good' = good
  BY DEF readpage_comp_inline_fails, Step, Flags, pool
<1>2. At(r)
  BY <1>1, Local
<1>3. lock[own(r)] = r
  BY <1>1, <1>2 DEF At, Holds, Unpacking, Held
<1>4. Locking(r, {own(r)}, Left)
  BY <1>1, <1>2, <1>3, PageSets DEF Locking, At
<1>5. /\ Frame(r)
      /\ \A p \in All : lock'[p] = IF p \in {own(r)} THEN Left ELSE lock[p]
  BY <1>4, Locks
<1>6. Moves(r, Done(task[r]))
  BY <1>1, StepMoves, Zenon
<1>7. Len(task[r].queue) = 2 => lock'[task[r].queue[2]] = r
  BY <1>2, <1>5 DEF At, Held
<1> QED
  BY <1>1, <1>5, <1>6, <1>7, Ends, Zenon

\* So may it when a page of the chunk cannot be had.
LEMMA CollectInlineFails ==
    ASSUME ReadInv, NEW r \in Reader, collect_inline_fails(r)
    PROVE  ReadInv'
<1> DEFINE p == task[r].at
<1>1. /\ task[r].pc = "inline" /\ task' = [task EXCEPT ![r] = Done(task[r])]
      /\ lock' = [q \in All |-> IF q \notin Held(r) THEN lock[q]
                                ELSE IF q < p THEN Free ELSE Left]
      /\ file' = file /\ cached' = cached /\ uptodate' = uptodate /\ good' = good
  BY DEF collect_inline_fails, Step, Flags, pool
<1>2. At(r)
  BY <1>1, Local
<1>3. Held(r) \in SUBSET All /\ \A q \in Held(r) : lock[q] = r
  BY <1>1, <1>2 DEF At, Holds, Unpacking, Held
<1>4. \A q \in All : lock[q] # r => lock'[q] = lock[q]
  BY <1>1, <1>3
<1>5. Frame(r)
  <2>1. lock' \in [All -> Reader \cup {Free, IO, Left}]
    BY <1>1 DEF ReadInv
  <2>2. \A q \in All : lock[q] \in Reader \ {r} => lock'[q] = lock[q]
    BY <1>4
  <2>3. Cached(lock', cached')
    BY <1>1, <1>2, <1>4, PageSets DEF Cached, ReadInv, At
  <2>4. UptodateIsUnpacked'
    BY <1>1 DEF ReadInv, UptodateIsUnpacked
  <2> QED
    BY <1>1, <2>1, <2>2, <2>3, <2>4 DEF Frame
<1>6. Moves(r, Done(task[r]))
  BY <1>1, StepMoves, Zenon
<1>7. Len(task[r].queue) = 2 => lock'[task[r].queue[2]] = r
  BY <1>1, <1>2 DEF At, Held, Holds
<1> QED
  BY <1>1, <1>5, <1>6, <1>7, Ends

\* The blocks are read as they are.
LEMMA ReadFolio ==
    ASSUME ReadInv, NEW r \in Reader, read_folio(r)
    PROVE  ReadInv'
<1>1. /\ task[r].pc = "folio" /\ task' = [task EXCEPT ![r] = Done(task[r])]
      /\ lock' = Lock({own(r)}, IO)
      /\ file' = file /\ cached' = cached /\ uptodate' = uptodate /\ good' = good
  BY DEF read_folio, Step, Flags, pool
<1>2. At(r)
  BY <1>1, Local
<1>3. lock[own(r)] = r
  BY <1>1, <1>2 DEF At, Holds, Unpacking, Held
<1>4. Locking(r, {own(r)}, IO)
  BY <1>1, <1>2, <1>3, PageSets DEF Locking, At
<1>5. /\ Frame(r)
      /\ \A p \in All : lock'[p] = IF p \in {own(r)} THEN IO ELSE lock[p]
  BY <1>4, Locks
<1>6. Moves(r, Done(task[r]))
  BY <1>1, StepMoves, Zenon
<1>7. Len(task[r].queue) = 2 => lock'[task[r].queue[2]] = r
  BY <1>2, <1>5 DEF At, Held
<1> QED
  BY <1>1, <1>5, <1>6, <1>7, Ends, Zenon

\* The extent of the chunk is known, or the page of the table cannot be read.
LEMMA GetChunkExtent ==
    ASSUME ReadInv, NEW r \in Reader, get_chunk_extent(r)
    PROVE  ReadInv'
<1> DEFINE new == task'[r]
<1>1. /\ task[r].pc = "tablewait" /\ Moves(r, new)
      /\ lock' = lock /\ file' = file /\ cached' = cached /\ uptodate' = uptodate
      /\ good' = good
  BY DEF get_chunk_extent, Step, Flags, pool, Moves, ReadInv
<1>2. At(r)
  BY <1>1, Local
<1>3. /\ DOMAIN new = Fields /\ new.pc \in {"hwfail", "retry", "hw", "blocks"}
      /\ new.queue = task[r].queue /\ new.mine = {} /\ new.err \in BOOLEAN
  BY <1>1, <1>2, ZenonT(30) DEF get_chunk_extent, Step, Fields, Holds, Empty, At, ReadInv
<1> HIDE DEF new
<1>4. Frame(r)
  BY <1>1, Quiet, Zenon
<1>5. Fits(r, new)
  BY <1>1, <1>2, <1>3 DEF Fits, At, Busy, Unpacked
<1> QED
  BY <1>1, <1>4, <1>5, GoesOn

\* A reader that locks a free page and adds it to its pages is as the invariant
\* wants it.
LEMMA Takes ==
    ASSUME NEW r, NEW new, NEW p \in All, At(r), lock[p] = Free,
           task[r].pc \in {"blocks", "unpack", "inline", "hw"},
           task[r].pc = "blocks" /\ file # "raw" => p \notin Pages,
           \A q \in All : lock'[q] = IF q \in {p} THEN r ELSE lock[q],
           DOMAIN new = Fields, new.pc = task[r].pc, new.queue = task[r].queue,
           new.mine = task[r].mine \cup {p}, new.err = task[r].err
    PROVE  Fits(r, new)
<1>1. \A q \in All : lock[q] = r => lock'[q] = r
  BY DEF At
<1>2. /\ task[r].pc \in Busy /\ task[r].pc \notin Empty /\ task[r].pc # "folio"
      /\ task[r].pc \notin {"unmap", "put", "wait", "mark"}
  BY DEF Busy, Empty
<1>3. /\ DOMAIN new = Fields /\ new.pc \in Busy /\ new.queue = task[r].queue
      /\ new.mine \subseteq All /\ new.err \in BOOLEAN
  BY <1>2 DEF At
<1>4. Len(task[r].queue) = 2 => /\ lock'[task[r].queue[2]] = r
                                /\ task[r].queue[2] \notin new.mine
  BY <1>1 DEF At
<1>5. \A q \in All : lock[q] = r \/ q = p => lock'[q] = r
  BY <1>1
<1>6. /\ task[r].pc = "blocks" => \A q \in task[r].mine : lock[q] = r
      /\ task[r].pc \in Unpacking => \A q \in task[r].mine \cap Pages : lock[q] = r
      /\ task[r].pc = "blocks" /\ file # "raw" => task[r].mine \cap Pages = {}
      /\ task[r].mine \subseteq All
  BY Zenon DEF At, Holds
<1>7. new.pc = "blocks" => \A q \in new.mine : lock'[q] = r
  BY <1>5, <1>6
<1>8. new.pc \in Unpacking => \A q \in new.mine \cap Pages : lock'[q] = r
  BY <1>5, <1>6
<1>9. new.pc \in {"blocks", "wait", "mark"} /\ file # "raw" => new.mine \cap Pages = {}
  BY <1>2, <1>6
<1> QED
  BY <1>2, <1>3, <1>4, <1>7, <1>8, <1>9 DEF Fits, Unpacked

\* A page is collected: locked if nobody holds it, else replaced.
LEMMA GrabPage ==
    ASSUME ReadInv, NEW r \in Reader, NEW p \in All, grab_page(r, p),
           task[r].pc \in {"blocks", "unpack", "inline"},
           task[r].pc = "blocks" /\ file # "raw" => p \notin Pages,
           file' = file, good' = good, uptodate' \subseteq uptodate
    PROVE  ReadInv'
<1> DEFINE new == task'[r]
<1>1. At(r)
  BY Local
<1>2. Moves(r, new)
  BY DEF grab_page, Moves, ReadInv
<1>3. cached' = cached \cup ({p} \cap Pages)
  BY DEF grab_page
<1>4. CASE lock[p] = Free
  <2>1. lock' = Lock({p}, r)
    BY <1>4 DEF grab_page
  <2>2. /\ DOMAIN new = Fields /\ new.pc = task[r].pc /\ new.queue = task[r].queue
        /\ new.mine = task[r].mine \cup {p} /\ new.err = task[r].err
    BY <1>1, <1>4 DEF grab_page, ReadInv, At, Fields
  <2> HIDE DEF new
  <2>3. Locking(r, {p}, r)
    BY <1>3, <1>4, <2>1 DEF Locking
  <2>4. /\ Frame(r)
        /\ \A q \in All : lock'[q] = IF q \in {p} THEN r ELSE lock[q]
    BY <2>3, Locks
  <2>5. Fits(r, new)
    BY <1>1, <1>4, <2>2, <2>4, Takes
  <2> QED
    BY <1>2, <2>4, <2>5, GoesOn
<1>5. CASE lock[p] # Free
  <2>1. lock' = lock
    BY <1>5 DEF grab_page
  <2>2. /\ DOMAIN new = Fields /\ new.pc = task[r].pc /\ new.queue = task[r].queue
        /\ new.mine = task[r].mine /\ new.err = task[r].err
    BY <1>1, <1>5 DEF grab_page, ReadInv, At, Fields
  <2> HIDE DEF new
  <2>3. Frame(r)
    BY <1>3, <2>1 DEF Frame, ReadInv, Cached, UptodateIsUnpacked
  <2>4. Fits(r, new)
    BY <1>1, <2>1, <2>2, PageSets, ZenonT(30)
       DEF Fits, At, Holds, Busy, Empty, Unpacking, Unpacked
  <2> QED
    BY <1>2, <2>3, <2>4, GoesOn
<1> QED
  BY <1>4, <1>5

\* vdfs4_read_chunk collects a block.
LEMMA CollectBlock ==
    ASSUME ReadInv, NEW r \in Reader, collect_block(r)
    PROVE  ReadInv'
<1> DEFINE b == task[r].at
<1>1. /\ task[r].pc = "blocks" /\ b \in Slots /\ grab_page(r, b)
      /\ file' = file /\ good' = good /\ uptodate' \subseteq uptodate
  BY DEF collect_block
<1> HIDE DEF b
<1>2. b \in All /\ (file # "raw" => b \notin Pages)
  BY <1>1, PageSets DEF Slots
<1> QED
  BY <1>1, <1>2, GrabPage

\* vdfs4_auth_decompress_sw collects a page.
LEMMA CollectPage ==
    ASSUME ReadInv, NEW r \in Reader, collect_page(r)
    PROVE  ReadInv'
<1>1. /\ task[r].pc = "unpack" /\ task[r].at \in Pages /\ grab_page(r, task[r].at)
      /\ file' = file /\ good' = good /\ uptodate' = uptodate
  BY DEF collect_page, Flags
<1> QED
  BY <1>1, PageSets, GrabPage

\* vdfs4_readpage_comp_inline_data collects a page.
LEMMA CollectInline ==
    ASSUME ReadInv, NEW r \in Reader, collect_inline(r)
    PROVE  ReadInv'
<1>1. /\ task[r].pc = "inline" /\ task[r].at \in Pages
      /\ file' = file /\ good' = good /\ uptodate' = uptodate
  BY DEF collect_inline, Flags
<1>2. CASE task[r].at = own(r)
  <2> DEFINE new == task'[r]
  <2>1. lock' = lock /\ cached' = cached /\ Moves(r, new)
    BY <1>2 DEF collect_inline, Moves, ReadInv
  <2>2. At(r)
    BY <1>1, Local
  <2>3. /\ DOMAIN new = Fields /\ new.pc = "inline" /\ new.queue = task[r].queue
        /\ new.mine = task[r].mine /\ new.err = task[r].err
    BY <1>1, <1>2, <2>2 DEF collect_inline, ReadInv, At, Fields
  <2> HIDE DEF new
  <2>4. Frame(r)
    BY <1>1, <2>1, Quiet, Zenon
  <2>5. Fits(r, new)
    BY <1>1, <2>1, <2>2, <2>3 DEF Fits, At, Holds, Busy, Empty, Unpacking, Unpacked
  <2> QED
    BY <1>1, <2>1, <2>4, <2>5, GoesOn
<1>3. CASE task[r].at # own(r)
  <2>1. grab_page(r, task[r].at)
    BY <1>3 DEF collect_inline
  <2> QED
    BY <1>1, <2>1, PageSets, GrabPage
<1> QED
  BY <1>2, <1>3

\* The hardware path locks every page in turn.
LEMMA FindGetPages ==
    ASSUME ReadInv, NEW r \in Reader, find_get_pages(r)
    PROVE  ReadInv'
<1> DEFINE new == task'[r]
           p == task[r].at
<1>1. /\ task[r].pc = "hw" /\ p \in Pages /\ lock[p] = Free
      /\ lock' = Lock({p}, r) /\ cached' = cached \cup {p} /\ Moves(r, new)
      /\ file' = file /\ uptodate' = uptodate /\ good' = good
  BY DEF find_get_pages, Flags, Moves, ReadInv
<1>2. At(r)
  BY <1>1, Local
<1>3. /\ DOMAIN new = Fields /\ new.pc = "hw" /\ new.queue = task[r].queue
      /\ new.mine = task[r].mine \cup {p} /\ new.err = task[r].err
  BY <1>1, <1>2 DEF find_get_pages, ReadInv, At, Fields
<1> HIDE DEF new, p
<1>4. Locking(r, {p}, r)
  BY <1>1, PageSets DEF Locking
<1>5. /\ Frame(r)
      /\ \A q \in All : lock'[q] = IF q \in {p} THEN r ELSE lock[q]
  BY <1>4, Locks
<1>6. Fits(r, new)
  BY <1>1, <1>2, <1>3, <1>5, PageSets, Takes
<1> QED
  BY <1>1, <1>5, <1>6, GoesOn

\* The blocks that are not up to date are handed to the device.
LEMMA Vdfs4Read ==
    ASSUME ReadInv, NEW r \in Reader, vdfs4__read(r)
    PROVE  ReadInv'
<1> DEFINE new == [task[r] EXCEPT !.pc = "wait"]
<1>1. /\ task[r].pc = "blocks" /\ task' = [task EXCEPT ![r] = new]
      /\ lock' = [p \in All |-> IF p \notin task[r].mine THEN lock[p]
                                ELSE IF p \in uptodate THEN Free ELSE IO]
      /\ file' = file /\ cached' = cached /\ uptodate' = uptodate /\ good' = good
  BY DEF vdfs4__read, Step, Flags, pool
<1>2. At(r)
  BY <1>1, Local
<1>3. /\ DOMAIN new = Fields /\ new.pc = "wait" /\ new.queue = task[r].queue
      /\ new.mine = task[r].mine /\ new.err = task[r].err
  BY <1>2 DEF Fields, At
<1>4. Moves(r, new)
  BY <1>1, StepMoves, ZenonT(30)
<1> HIDE DEF new
<1>5. \A p \in All : IF p \in task[r].mine THEN lock[p] = r /\ lock'[p] \in {Free, IO}
                     ELSE lock'[p] = lock[p]
  BY <1>1, <1>2 DEF At, Holds
<1>6. lock' \in [All -> Reader \cup {Free, IO, Left}]
  BY <1>1 DEF ReadInv
<1>7. Cached(lock', cached')
  BY <1>1, <1>2, <1>5, PageSets DEF Cached, ReadInv, At
<1>8. Frame(r)
  BY <1>1, <1>5, <1>6, <1>7 DEF Frame, ReadInv, UptodateIsUnpacked
<1>9. Fits(r, new)
  BY <1>1, <1>2, <1>3, <1>5, Zenon DEF Fits, At, Holds, Busy, Empty, Unpacking, Unpacked
<1> QED
  BY <1>1, <1>4, <1>8, <1>9, GoesOn

\* A block is marked, the last one leads on.
LEMMA MarkBlock ==
    ASSUME ReadInv, NEW r \in Reader, mark_block(r)
    PROVE  ReadInv'
<1> DEFINE new == Marked(task[r])
<1>1. /\ task[r].pc = "mark" /\ task' = [task EXCEPT ![r] = new]
      /\ lock' = lock /\ file' = file /\ cached' = cached /\ uptodate' \subseteq uptodate
      /\ good' = good
  BY DEF mark_block, Step
<1>2. At(r)
  BY <1>1, Local
<1>3. Moves(r, new)
  BY <1>1, StepMoves, ZenonT(30)
<1>4. Frame(r)
  BY <1>1, Quiet
<1>5. CASE new = Done(task[r])
  <2>1. Moves(r, Done(task[r]))
    BY <1>3, <1>5
  <2>2. Len(task[r].queue) = 2 => lock'[task[r].queue[2]] = r
    BY <1>1, <1>2 DEF At
  <2> QED
    BY <1>1, <1>4, <2>1, <2>2, Ends
<1>6. CASE new # Done(task[r])
  <2>1. /\ DOMAIN new = Fields /\ new.queue = task[r].queue /\ new.err \in BOOLEAN
        /\ \/ new.pc = "mark" /\ new.mine = task[r].mine
           \/ new.pc = "retry" /\ new.mine = {}
           \/ new.pc = "unpack" /\ new.mine = task[r].mine /\ file # "raw"
    BY <1>1, <1>2, <1>6 DEF Marked, Fields, At
  <2> HIDE DEF new
  <2>2. Fits(r, new)
    BY <1>1, <1>2, <2>1 DEF Fits, At, Holds, Busy, Empty, Unpacking, Unpacked
  <2> QED
    BY <1>1, <1>3, <1>4, <2>2, GoesOn
<1> QED
  BY <1>5, <1>6

\* The table of the buffers: one more is mapped, or there is none.
LEMMA SwDecompVmMap ==
    ASSUME ReadInv, NEW r \in Reader, sw_decomp_vm_map(r) \/ sw_decomp_vm_map_fails(r)
    PROVE  ReadInv'
<1> DEFINE new == task'[r]
<1>1. /\ task[r].pc = "map" /\ Moves(r, new)
      /\ lock' = lock /\ file' = file /\ cached' = cached /\ uptodate' = uptodate
      /\ good' = good
  BY DEF sw_decomp_vm_map, sw_decomp_vm_map_fails, Flags, Moves, ReadInv
<1>2. At(r)
  BY <1>1, Local
<1>3. /\ DOMAIN new = Fields /\ new.queue = task[r].queue /\ new.mine = task[r].mine
      /\ \/ new.pc = "map" /\ new.err = task[r].err
         \/ new.pc = "unmap" /\ new.err = TRUE
  BY <1>1, <1>2 DEF sw_decomp_vm_map, sw_decomp_vm_map_fails, ReadInv, At, Fields
<1> HIDE DEF new
<1>4. Frame(r)
  BY <1>1, Quiet
<1>5. Fits(r, new)
  BY <1>1, <1>2, <1>3, Zenon DEF Fits, At, Holds, Busy, Empty, Unpacking, Unpacked
<1> QED
  BY <1>1, <1>4, <1>5, GoesOn

\* The pages are released, as valid ones if they have been unpacked.
LEMMA SwDecompVmPut ==
    ASSUME ReadInv, NEW r \in Reader, sw_decomp_vm_put(r)
    PROVE  ReadInv'
<1> DEFINE t == [task[r] EXCEPT !.mine = @ \ Pages, !.priv = {}, !.map = {}]
           dropping == [t EXCEPT !.pc = "drop", !.at = Min(Blocks)]
<1>1. /\ task[r].pc = "put"
      /\ task' = [task EXCEPT ![r] = IF t.err THEN dropping ELSE Done(t)]
      /\ lock' = Lock(Held(r), Free)
      /\ uptodate' = IF ~task[r].err THEN uptodate \cup Held(r) ELSE uptodate
      /\ file' = file /\ cached' = cached /\ good' = good
  BY DEF sw_decomp_vm_put, Step, vdfs4_release_unpacked_page
<1>2. At(r)
  BY <1>1, Local
<1>3. /\ t.err = task[r].err /\ t.queue = task[r].queue
      /\ DOMAIN dropping = Fields /\ dropping.pc = "drop" /\ dropping.queue = task[r].queue
      /\ dropping.mine = task[r].mine \ Pages /\ dropping.err = task[r].err
  BY <1>2 DEF Fields, At
<1> HIDE DEF t, dropping
<1>4. /\ Held(r) \subseteq All /\ \A p \in Held(r) : lock[p] = r
      /\ ~task[r].err => Held(r) \subseteq good
  BY <1>1, <1>2 DEF At, Holds, Unpacking, Unpacked, Held
<1>5. Locking(r, Held(r), Free)
  BY <1>1, <1>4, Zenon DEF Locking
<1>6. /\ Frame(r)
      /\ \A p \in All : lock'[p] = IF p \in Held(r) THEN Free ELSE lock[p]
  BY <1>5, Locks
<1>7. Len(task[r].queue) = 2 => lock'[task[r].queue[2]] = r
  BY <1>2, <1>6 DEF At, Held
<1>8. CASE t.err
  <2>1. Moves(r, dropping)
    BY <1>1, <1>8, StepMoves, Zenon
  <2>2. Fits(r, dropping)
    BY <1>2, <1>3, <1>7, Zenon DEF Fits, At, Busy, Empty, Unpacking, Unpacked
  <2> QED
    BY <1>1, <1>6, <2>1, <2>2, GoesOn
<1>9. CASE ~t.err
  <2>1. Moves(r, Done(t))
    BY <1>1, <1>9, StepMoves, Zenon
  <2> QED
    BY <1>1, <1>3, <1>6, <1>7, <2>1, Ends
<1> QED
  BY <1>8, <1>9

\* After an error the blocks lose their flag.
LEMMA DropBlock ==
    ASSUME ReadInv, NEW r \in Reader, drop_block(r)
    PROVE  ReadInv'
<1> DEFINE new == task'[r]
<1>1. /\ task[r].pc = "drop" /\ Moves(r, new)
      /\ lock' = lock /\ file' = file /\ cached' = cached /\ uptodate' \subseteq uptodate
      /\ good' = good
  BY DEF drop_block, Step, Moves, ReadInv
<1>2. At(r)
  BY <1>1, Local
<1>3. /\ DOMAIN new = Fields /\ new.queue = task[r].queue /\ new.err = task[r].err
      /\ \/ new.pc = "drop" /\ new.mine = task[r].mine
         \/ new.pc = "retry" /\ new.mine = {}
  BY <1>1, <1>2 DEF drop_block, Step, ReadInv, At, Fields
<1> HIDE DEF new
<1>4. Frame(r)
  BY <1>1, Quiet
<1>5. Fits(r, new)
  BY <1>1, <1>2, <1>3 DEF Fits, At, Holds, Busy, Empty, Unpacking, Unpacked
<1> QED
  BY <1>1, <1>4, <1>5, GoesOn

\* A failed read starts again with the page locked, or is given up.
LEMMA Retry ==
    ASSUME ReadInv, NEW r \in Reader, retry(r)
    PROVE  ReadInv'
<1> DEFINE n == task[r].tries + 1
           new == [Idle EXCEPT !.pc = "folio", !.queue = task[r].queue, !.tries = n]
<1>1. /\ task[r].pc = "retry"
      /\ file' = file /\ cached' = cached /\ uptodate' = uptodate /\ good' = good
  BY DEF retry, Flags
<1>2. At(r)
  BY <1>1, Local
<1>3. CASE n < MAX_READPAGE_TUNED_RETRIES
  <2>1. /\ lock[own(r)] = Free /\ lock' = Lock({own(r)}, r)
        /\ task' = [task EXCEPT ![r] = new]
    BY <1>3 DEF retry, Step
  <2>2. /\ DOMAIN new = Fields /\ new.pc = "folio" /\ new.queue = task[r].queue
        /\ new.mine = {} /\ new.err = FALSE
    BY DEF Idle, Fields
  <2> HIDE DEF new
  <2>3. Moves(r, new)
    BY <2>1, StepMoves, ZenonT(30)
  <2>4. Locking(r, {own(r)}, r)
    BY <1>1, <1>2, <2>1 DEF Locking, At
  <2>5. /\ Frame(r)
        /\ \A p \in All : lock'[p] = IF p \in {own(r)} THEN r ELSE lock[p]
    BY <2>4, Locks
  <2>6. Fits(r, new)
    BY <1>2, <2>2, <2>5, Zenon DEF Fits, At, Busy, Unpacking, Unpacked
  <2> QED
    BY <1>1, <2>3, <2>5, <2>6, GoesOn
<1>4. CASE ~(n < MAX_READPAGE_TUNED_RETRIES)
  <2>1. task' = [task EXCEPT ![r] = Done(task[r])] /\ lock' = lock
    BY <1>4 DEF retry, Step
  <2>2. Moves(r, Done(task[r])) /\ Frame(r)
    BY <1>1, <2>1, StepMoves, Quiet, Zenon
  <2>3. Len(task[r].queue) = 2 => lock'[task[r].queue[2]] = r
    BY <1>2, <2>1 DEF At
  <2> QED
    BY <1>1, <2>2, <2>3, Ends
<1> QED
  BY <1>3, <1>4

\* The hardware path: the page is already valid, or the chunk is looked up.
LEMMA AuthDecompressHw2 ==
    ASSUME ReadInv, NEW r \in Reader, auth_decompress_hw2(r)
    PROVE  ReadInv'
<1> DEFINE new == [task[r] EXCEPT !.pc = "table"]
<1>1. /\ task[r].pc = "hwstart" /\ lock' = lock
      /\ file' = file /\ cached' = cached /\ uptodate' = uptodate /\ good' = good
      /\ task' = [task EXCEPT ![r] = IF own(r) \in uptodate THEN Done(task[r]) ELSE new]
  BY DEF auth_decompress_hw2, Step, Flags
<1>2. At(r)
  BY <1>1, Local
<1>3. /\ DOMAIN new = Fields /\ new.pc = "table" /\ new.queue = task[r].queue
      /\ new.mine = {} /\ new.err = task[r].err
  BY <1>1, <1>2 DEF Fields, At, Holds, Empty
<1> HIDE DEF new
<1>4. Frame(r)
  BY <1>1, Quiet
<1>5. Len(task[r].queue) = 2 => lock'[task[r].queue[2]] = r
  BY <1>1, <1>2 DEF At
<1>6. CASE own(r) \in uptodate
  <2>1. Moves(r, Done(task[r]))
    BY <1>1, <1>6, StepMoves, Zenon
  <2> QED
    BY <1>1, <1>4, <1>5, <2>1, Ends
<1>7. CASE own(r) \notin uptodate
  <2>1. Moves(r, new)
    BY <1>1, <1>7, StepMoves, ZenonT(30)
  <2>2. Fits(r, new)
    BY <1>2, <1>3, <1>5 DEF Fits, At, Busy, Unpacking, Unpacked
  <2> QED
    BY <1>1, <1>4, <2>1, <2>2, GoesOn
<1> QED
  BY <1>6, <1>7

--------------------------------------------------------------------------------
(* The VFS and the device.                                                      *)

\* A page is locked for an idle reader, or waited for.
LEMMA FilemapRead ==
    ASSUME ReadInv, NEW r \in Reader, NEW p \in Pages, filemap_read(r, p)
    PROVE  ReadInv'
<1> DEFINE new == [Idle EXCEPT !.pc = IF lock[p] = Free THEN "folio" ELSE "lock",
                               !.queue = <<p>>]
<1>1. /\ task' = [task EXCEPT ![r] = new]
      /\ lock' = IF lock[p] = Free THEN Lock({p}, r) ELSE lock
      /\ cached' = cached \cup {p}
      /\ file # "closed" /\ file' = file /\ uptodate' = uptodate /\ good' = good
  BY DEF filemap_read, Step, Flags
<1>2. /\ DOMAIN new = Fields /\ new.queue = <<p>>
      /\ new.pc = IF lock[p] = Free THEN "folio" ELSE "lock"
      /\ new.mine = {} /\ new.err = FALSE
      /\ Len(new.queue) = 1 /\ new.queue[1] = p
  BY DEF Idle, Fields
<1> HIDE DEF new
<1>3. Moves(r, new)
  BY <1>1, StepMoves, Zenon
<1>4. Frame(r) /\ (lock[p] = Free => lock'[p] = r)
  <2>1. CASE lock[p] = Free
    <3>1. Locking(r, {p}, r)
      BY <1>1, <2>1, PageSets DEF Locking
    <3> QED
      BY <3>1, Locks, PageSets
  <2>2. CASE lock[p] # Free
    BY <1>1, <2>2 DEF Frame, ReadInv, Cached, UptodateIsUnpacked
  <2> QED
    BY <2>1, <2>2
<1>5. TaskOK(new) /\ Unpacked(new, good')
  BY <1>2, Zenon DEF TaskOK, Busy, Unpacked
<1>6. Holds(r, new, lock', file)
  BY <1>2, <1>4 DEF Holds, Unpacking
<1>7. QueueCached(new, cached')
  <2>1. \A i \in 1..Len(new.queue) : i = 1
    BY <1>2
  <2> QED
    BY <1>1, <1>2, <2>1 DEF QueueCached
<1> QED
  BY <1>1, <1>3, <1>4, <1>5, <1>6, <1>7, ReaderStep

\* The page that a reader has waited for is free.
LEMMA FolioLock ==
    ASSUME ReadInv, NEW r \in Reader, folio_lock(r)
    PROVE  ReadInv'
<1> DEFINE new == [task[r] EXCEPT !.pc = "folio"]
<1>1. /\ task[r].pc = "lock" /\ lock[own(r)] = Free
      /\ file' = file /\ cached' = cached /\ uptodate' = uptodate /\ good' = good
  BY DEF folio_lock, Flags
<1>2. At(r)
  BY <1>1, Local
<1>3. CASE own(r) \in uptodate
  <2>1. task' = [task EXCEPT ![r] = Idle] /\ lock' = lock
    BY <1>3 DEF folio_lock, Step
  <2>2. Moves(r, Idle)
    BY <2>1, StepMoves, Zenon
  <2>3. Frame(r)
    BY <1>1, <2>1, Quiet
  <2>4. Idle.pc = "idle" /\ Idle.mine = {} /\ Idle.err = FALSE /\ DOMAIN Idle = Fields
    BY DEF Idle, Fields
  <2>5. TaskOK(Idle) /\ Unpacked(Idle, good') /\ QueueCached(Idle, cached')
    BY <2>4, Zenon DEF TaskOK, Unpacked, QueueCached
  <2>6. Holds(r, Idle, lock', file)
    BY <2>4, Zenon DEF Holds, Unpacking
  <2>7. file # "closed"
    BY <1>2 DEF At
  <2> QED
    BY <2>2, <2>3, <2>5, <2>6, <2>7, ReaderStep
<1>4. CASE own(r) \notin uptodate
  <2>1. task' = [task EXCEPT ![r] = new] /\ lock' = Lock({own(r)}, r)
    BY <1>4 DEF folio_lock, Step
  <2>2. /\ DOMAIN new = Fields /\ new.pc = "folio" /\ new.queue = task[r].queue
        /\ new.mine = {} /\ new.err = task[r].err
    BY <1>1, <1>2 DEF Fields, Holds, Empty, At
  <2>3. Moves(r, new)
    BY <2>1, StepMoves, Zenon
  <2> HIDE DEF new
  <2>4. Locking(r, {own(r)}, r)
    BY <1>1, <1>2, <2>1, PageSets DEF Locking, At
  <2>5. /\ Frame(r)
        /\ \A p \in All : lock'[p] = IF p \in {own(r)} THEN r ELSE lock[p]
    BY <2>4, Locks
  <2>6. Fits(r, new)
    BY <1>1, <1>2, <2>2, <2>5, PageSets, Zenon
       DEF Fits, At, Busy, Empty, Unpacking, Unpacked
  <2> QED
    BY <1>1, <2>3, <2>5, <2>6, GoesOn
<1> QED
  BY <1>3, <1>4

\* Read-ahead: two new pages are locked for an idle reader.  Nobody can hold them,
\* because a page that is locked is in the cache.
LEMMA ReadPages ==
    ASSUME ReadInv, NEW r \in Reader, NEW p \in Pages, read_pages(r, p)
    PROVE  ReadInv'
<1> DEFINE new == [Idle EXCEPT !.pc = "folio", !.queue = <<p, p + 1>>]
           S == {p, p + 1}
<1>1. /\ task' = [task EXCEPT ![r] = new]
      /\ S \subseteq Pages \ cached /\ lock' = Lock(S, r) /\ cached' = cached \cup S
      /\ file # "closed" /\ file' = file /\ uptodate' = uptodate /\ good' = good
  BY DEF read_pages, Step, Flags
<1>2. /\ DOMAIN new = Fields /\ new.pc = "folio" /\ new.queue = <<p, p + 1>>
      /\ new.mine = {} /\ new.err = FALSE
      /\ Len(new.queue) = 2 /\ new.queue[1] = p /\ new.queue[2] = p + 1
  BY DEF Idle, Fields
<1>3. p # p + 1 /\ p \in S /\ p + 1 \in S
  BY DEF Pages
<1> HIDE DEF new, S
<1>4. Moves(r, new)
  BY <1>1, StepMoves, Zenon
<1>5. \A q \in S : lock[q] = Free
  BY <1>1 DEF ReadInv, Cached
<1>6. Locking(r, S, r)
  BY <1>1, <1>5, PageSets DEF Locking
<1>7. /\ Frame(r)
      /\ \A q \in All : lock'[q] = IF q \in S THEN r ELSE lock[q]
  BY <1>6, Locks
<1>8. TaskOK(new) /\ Unpacked(new, good')
  BY <1>1, <1>2, <1>3, Zenon DEF TaskOK, Busy, Unpacked
<1>9. lock'[p] = r /\ lock'[p + 1] = r /\ p \in cached' /\ p + 1 \in cached'
  BY <1>1, <1>3, <1>7, PageSets
<1>10. Holds(r, new, lock', file)
  BY <1>2, <1>9 DEF Holds, Unpacking
<1>11. QueueCached(new, cached')
  <2>1. \A i \in 1..Len(new.queue) : i = 1 \/ i = 2
    BY <1>2
  <2> QED
    BY <1>2, <1>9, <2>1 DEF QueueCached
<1> QED
  BY <1>1, <1>4, <1>7, <1>8, <1>10, <1>11, ReaderStep

\* The device unlocks a page that no reader holds.
LEMMA EndIO ==
    ASSUME ReadInv, NEW p \in All, end_io(p) \/ end_io_error(p)
    PROVE  ReadInv'
<1>1. /\ lock[p] = IO /\ lock' = Lock({p}, Free)
      /\ file' = file /\ cached' = cached /\ task' = task
      /\ good \ {p} \subseteq good'
      /\ uptodate' \subseteq uptodate \cup {p}
      /\ file # "plain" => p \notin uptodate' \/ p \in good'
  BY DEF end_io, end_io_error
<1>2. \A q \in All : lock'[q] = IF q = p THEN Free ELSE lock[q]
  BY <1>1 DEF Lock
<1>3. lock' \in [All -> Reader \cup {Free, IO, Left}]
  BY <1>1 DEF ReadInv, Lock
<1>4. Cached(lock', cached')
  BY <1>1, <1>2, PageSets, Zenon DEF ReadInv, Cached
<1>5. UptodateIsUnpacked'
  BY <1>1 DEF ReadInv, UptodateIsUnpacked
<1>6. ASSUME NEW r \in Reader
      PROVE  /\ TaskOK(task'[r]) /\ Holds(r, task'[r], lock', file')
             /\ Unpacked(task'[r], good') /\ QueueCached(task'[r], cached')
  <2>1. /\ TaskOK(task[r]) /\ Holds(r, task[r], lock, file) /\ Unpacked(task[r], good)
        /\ QueueCached(task[r], cached) /\ r # IO
    BY DEF ReadInv
  <2>2. \A q \in All : lock[q] = r => lock'[q] = r
    BY <1>1, <1>2, <2>1, Zenon
  <2>3. /\ task[r].pc = "folio" => lock'[task[r].queue[1]] = r
        /\ task[r].pc # "idle" /\ Len(task[r].queue) = 2 => lock'[task[r].queue[2]] = r
    BY <2>1, <2>2, QueueOK DEF Holds
  <2>4. task[r].mine \subseteq All
    BY <2>1, ZenonT(30) DEF TaskOK
  <2>5. Holds(r, task[r], lock', file)
    BY <2>1, <2>2, <2>3, <2>4, Zenon DEF Holds
  <2>6. Unpacked(task[r], good')
    <3>1. ASSUME task[r].pc \in {"unmap", "put"}, ~task[r].err
          PROVE  task[r].mine \cap Pages \subseteq good'
      <4>1. task[r].mine \cap Pages \subseteq good
        BY <2>1, <3>1 DEF Unpacked
      <4>2. \A q \in task[r].mine \cap Pages : lock[q] = r
        BY <2>1, <3>1 DEF Holds, Unpacking
      <4> QED
        BY <1>1, <2>1, <4>1, <4>2
    <3> QED
      BY <3>1, Zenon DEF Unpacked
  <2> QED
    BY <1>1, <2>1, <2>5, <2>6
<1>7. ClosedIsIdle'
  BY <1>1 DEF ReadInv, ClosedIsIdle
<1> QED
  BY <1>1, <1>3, <1>4, <1>5, <1>6, <1>7 DEF ReadInv

--------------------------------------------------------------------------------
(* The invariant holds at first and every step of a reader keeps it.            *)

\* Before the first open there is nothing.
LEMMA InitRead == InitReads => ReadInv
<1> SUFFICES ASSUME InitReads PROVE ReadInv
  OBVIOUS
<1>1. lock \in [All -> Reader \cup {Free, IO, Left}] /\ Cached(lock, cached)
  BY PageSets DEF InitReads, Cached
<1>2. ASSUME NEW r \in Reader
      PROVE  /\ TaskOK(task[r]) /\ Holds(r, task[r], lock, file)
             /\ Unpacked(task[r], good) /\ QueueCached(task[r], cached)
  <2>1. task[r] = Idle
    BY DEF InitReads
  <2>2. /\ DOMAIN task[r] = Fields /\ task[r].pc = "idle" /\ task[r].mine = {}
        /\ task[r].err = FALSE
    BY <2>1 DEF Idle, Fields
  <2>3. TaskOK(task[r])
    BY <2>2, Zenon DEF TaskOK
  <2>4. Holds(r, task[r], lock, file)
    BY <2>2, Zenon DEF Holds, Unpacking
  <2> QED
    BY <2>2, <2>3, <2>4 DEF Unpacked, QueueCached
<1>3. ClosedIsIdle
  BY DEF InitReads, ClosedIsIdle, Idle
<1>4. DOMAIN task = Reader /\ UptodateIsUnpacked
  BY DEF InitReads, UptodateIsUnpacked
<1> QED
  BY <1>1, <1>2, <1>3, <1>4 DEF ReadInv

\* Every step of a reader that does not fail keeps the invariant.
LEMMA AdvanceReads ==
    ASSUME ReadInv, NEW r \in Reader, Advance(r)
    PROVE  ReadInv'
<1>1. CASE readpage_tuned_sw(r)
  BY <1>1, ReadpageTunedSw
<1>2. CASE read_comp_pages(r)
  BY <1>2, ReadCompPages
<1>3. CASE get_chunk_extent(r)
  BY <1>3, GetChunkExtent
<1>4. CASE collect_block(r)
  BY <1>4, CollectBlock
<1>5. CASE vdfs4__read(r)
  BY <1>5, Vdfs4Read
<1>6. CASE folio_wait_locked(r)
  BY <1>6, FolioWaitLocked
<1>7. CASE mark_block(r)
  BY <1>7, MarkBlock
<1>8. CASE collect_page(r)
  BY <1>8, CollectPage
<1>9. CASE already_read(r)
  BY <1>9, AlreadyRead
<1>10. CASE sw_decomp_vm_get(r)
  BY <1>10, SwDecompVmGet
<1>11. CASE sw_decomp_vm_map(r)
  BY <1>11, SwDecompVmMap
<1>12. CASE decomp_fn(r)
  BY <1>12, DecompFn
<1>13. CASE sw_decomp_vm_unmap(r)
  BY <1>13, SwDecompVmUnmap
<1>14. CASE sw_decomp_vm_put(r)
  BY <1>14, SwDecompVmPut
<1>15. CASE drop_block(r)
  BY <1>15, DropBlock
<1>16. CASE retry(r)
  BY <1>16, Retry
<1>17. CASE readpage_tuned_hw(r)
  BY <1>17, ReadpageTunedHw
<1>18. CASE auth_decompress_hw2(r)
  BY <1>18, AuthDecompressHw2
<1>19. CASE find_get_pages(r)
  BY <1>19, FindGetPages
<1>20. CASE hw2_unpack_chunk(r)
  BY <1>20, Hw2UnpackChunk
<1>21. CASE hw_falls_back(r)
  BY <1>21, HwFallsBack
<1>22. CASE readpage_comp_inline_data(r)
  BY <1>22, ReadpageCompInlineData
<1>23. CASE collect_inline(r)
  BY <1>23, CollectInline
<1>24. CASE unpack_inline(r)
  BY <1>24, UnpackInline
<1>25. CASE read_folio(r)
  BY <1>25, ReadFolio
<1>26. CASE folio_lock(r)
  BY <1>26, FolioLock
<1> QED
  BY <1>1, <1>2, <1>3, <1>4, <1>5, <1>6, <1>7, <1>8, <1>9, <1>10, <1>11, <1>12, <1>13,
     <1>14, <1>15, <1>16, <1>17, <1>18, <1>19, <1>20, <1>21, <1>22, <1>23, <1>24, <1>25, <1>26, ZenonT(30)
     DEF Advance

\* So do the calls of the VFS, the failures and the device.
LEMMA NextRead == ReadInv /\ NextReads => ReadInv'
<1> SUFFICES ASSUME ReadInv, NextReads PROVE ReadInv'
  OBVIOUS
<1>1. ASSUME NEW r \in Reader, NEW p \in Pages, filemap_read(r, p) PROVE ReadInv'
  BY <1>1, FilemapRead
<1>2. ASSUME NEW r \in Reader, NEW p \in Pages, read_pages(r, p) PROVE ReadInv'
  BY <1>2, ReadPages
<1>3. ASSUME NEW r \in Reader, Advance(r) PROVE ReadInv'
  BY <1>3, AdvanceReads
<1>4. ASSUME NEW r \in Reader, private_read_fails(r) PROVE ReadInv'
  BY <1>4, PrivateReadFails
<1>5. ASSUME NEW r \in Reader, sw_decomp_vm_map_fails(r) PROVE ReadInv'
  BY <1>5, SwDecompVmMap
<1>6. ASSUME NEW r \in Reader, decomp_fails(r) PROVE ReadInv'
  BY <1>6, DecompFails
<1>7. ASSUME NEW r \in Reader, hw2_fails(r) PROVE ReadInv'
  BY <1>7, Hw2Fails
<1>8. ASSUME NEW r \in Reader, unpack_inline_fails(r) PROVE ReadInv'
  BY <1>8, UnpackInlineFails
<1>9. ASSUME NEW p \in All, end_io(p) \/ end_io_error(p) PROVE ReadInv'
  BY <1>9, EndIO
<1>10. ASSUME NEW r \in Reader, chunk_extent_fails(r) PROVE ReadInv'
  BY <1>10, ChunkExtentFails
<1>11. ASSUME NEW r \in Reader, collect_block_fails(r) PROVE ReadInv'
  BY <1>11, CollectBlockFails
<1>12. ASSUME NEW r \in Reader, collect_page_fails(r) PROVE ReadInv'
  BY <1>12, CollectPageFails
<1>13. ASSUME NEW r \in Reader, readpage_comp_inline_fails(r) PROVE ReadInv'
  BY <1>13, ReadpageCompInlineFails
<1>14. ASSUME NEW r \in Reader, collect_inline_fails(r) PROVE ReadInv'
  BY <1>14, CollectInlineFails
<1> QED
  BY <1>1, <1>2, <1>3, <1>4, <1>5, <1>6, <1>7, <1>8, <1>9, <1>10, <1>11, <1>12, <1>13,
     <1>14, Zenon DEF NextReads

--------------------------------------------------------------------------------
(* The buffers that compressed blocks and pages are mapped to.                  *)

\* Where a reader has a slot of sw_decomp_vm_lock, and where it has buffers.
InPool == {"map", "unmap", "put"}
Mapping == {"map", "unmap"}
Users == {r \in Reader : task[r].pc \in InPool}
With(n) == {r \in Reader : Cardinality(task[r].map) = n}

\* No two readers have the same buffer, and each bit of the bitmap stands for one
\* that a reader has or that is lost.
PoolInv ==
    /\ lost \in Nat /\ sem \in Nat
    /\ bitmap \subseteq BUFFERS
    /\ \A r \in Reader : /\ task[r].map \subseteq bitmap
                         /\ Cardinality(task[r].map) \in 0..2
                         /\ task[r].map # {} => task[r].pc \in Mapping
    /\ \A r, s \in Reader : r # s => task[r].map \cap task[s].map = {}
    /\ IsFiniteSet(Users) /\ sem + Cardinality(Users) = Maps
    /\ Cardinality(bitmap) = Cardinality(With(1)) + 2 * Cardinality(With(2)) + lost

\* A step that takes and returns no slot and no buffer.
Bystander ==
    /\ sem' = sem /\ bitmap' = bitmap /\ lost' = lost
    /\ \A r \in Reader : /\ task'[r].map = task[r].map
                         /\ task'[r].pc \in InPool <=> task[r].pc \in InPool
                         /\ task[r].pc \in Mapping => task'[r].pc \in Mapping

\* Such a step keeps the invariant.
LEMMA StaysInPool ==
    ASSUME PoolInv, Bystander
    PROVE  PoolInv'
<1>1. Users' = Users
  BY DEF Users, Bystander
<1>2. With(1)' = With(1) /\ With(2)' = With(2)
  BY DEF With, Bystander
<1>3. /\ sem' = sem /\ bitmap' = bitmap /\ lost' = lost
      /\ \A r \in Reader : /\ task'[r].map = task[r].map
                           /\ task[r].pc \in Mapping => task'[r].pc \in Mapping
  BY DEF Bystander
<1>4. /\ lost' \in Nat /\ sem' \in Nat /\ bitmap' \subseteq BUFFERS
      /\ IsFiniteSet(Users') /\ sem' + Cardinality(Users') = Maps
      /\ Cardinality(bitmap') = Cardinality(With(1)') + 2 * Cardinality(With(2)') + lost'
  BY <1>1, <1>2, <1>3 DEF PoolInv
<1>5. \A r \in Reader : /\ task'[r].map \subseteq bitmap'
                        /\ Cardinality(task'[r].map) \in 0..2
                        /\ task'[r].map # {} => task'[r].pc \in Mapping
  BY <1>3 DEF PoolInv
<1>6. \A r, s \in Reader : r # s => task'[r].map \cap task'[s].map = {}
  BY <1>3 DEF PoolInv
<1> QED
  BY <1>4, <1>5, <1>6 DEF PoolInv

\* Reader r goes on without the pool, or keeps what it has of it.
Keeps(r, new) ==
    /\ new.map = task[r].map
    /\ \/ new.pc \notin InPool /\ task[r].pc \notin InPool
       \/ new.pc \in Mapping /\ task[r].pc \in Mapping

LEMMA ByStep ==
    ASSUME NEW r \in Reader, NEW new, Moves(r, new), pool' = pool, Keeps(r, new)
    PROVE  Bystander
BY DEF Moves, pool, Keeps, Bystander, InPool, Mapping

\* Reader r goes on, before or after it has a slot of the pool.
GoesOutside(r) ==
    /\ Moves(r, task'[r]) /\ pool' = pool
    /\ task'[r].map = task[r].map
    /\ task'[r].pc \notin InPool /\ task[r].pc \notin InPool

\* The steps of a page that has not been unpacked yet.
LEMMA ReadsOutside ==
    ASSUME ReadInv, NEW r \in Reader, task[r].pc # "idle",
           \/ readpage_tuned_sw(r) \/ read_comp_pages(r) \/ get_chunk_extent(r)
           \/ vdfs4__read(r) \/ folio_wait_locked(r) \/ private_read_fails(r)
           \/ readpage_tuned_hw(r) \/ hw2_fails(r) \/ hw_falls_back(r)
           \/ readpage_comp_inline_data(r) \/ chunk_extent_fails(r)
           \/ collect_block_fails(r) \/ collect_page_fails(r)
    PROVE  GoesOutside(r)
<1>1. DOMAIN task = Reader /\ DOMAIN task[r] = Fields
  BY Zenon DEF ReadInv, TaskOK
<1> USE DEF GoesOutside, Moves, Step, InPool, Fields, pool
<1>2. CASE readpage_tuned_sw(r)
  BY <1>1, <1>2 DEF readpage_tuned_sw
<1>3. CASE read_comp_pages(r)
  BY <1>1, <1>3 DEF read_comp_pages
<1>4. CASE get_chunk_extent(r)
  BY <1>1, <1>4 DEF get_chunk_extent
<1>5. CASE vdfs4__read(r)
  BY <1>1, <1>5 DEF vdfs4__read
<1>6. CASE folio_wait_locked(r)
  BY <1>1, <1>6 DEF folio_wait_locked
<1>7. CASE private_read_fails(r)
  BY <1>1, <1>7 DEF private_read_fails
<1>8. CASE readpage_tuned_hw(r)
  BY <1>1, <1>8 DEF readpage_tuned_hw
<1>9. CASE hw2_fails(r)
  BY <1>1, <1>9 DEF hw2_fails
<1>10. CASE hw_falls_back(r)
  BY <1>1, <1>10 DEF hw_falls_back
<1>11. CASE readpage_comp_inline_data(r)
  BY <1>1, <1>11 DEF readpage_comp_inline_data
<1>12. CASE chunk_extent_fails(r)
  BY <1>1, <1>12 DEF chunk_extent_fails
<1>13. CASE collect_block_fails(r)
  BY <1>1, <1>13 DEF collect_block_fails
<1>14. CASE collect_page_fails(r)
  BY <1>1, <1>14 DEF collect_page_fails
<1> QED
  BY <1>2, <1>3, <1>4, <1>5, <1>6, <1>7, <1>8, <1>9, <1>10, <1>11, <1>12, <1>13, <1>14, Zenon

\* Such steps are none of the pool.
LEMMA Outside ==
    ASSUME NEW r \in Reader, GoesOutside(r)
    PROVE  Bystander
<1>1. Keeps(r, task'[r])
  BY Zenon DEF GoesOutside, Keeps
<1> QED
  BY <1>1, ByStep DEF GoesOutside

\* Pages and blocks are collected.
LEMMA CollectsOutside ==
    ASSUME ReadInv, NEW r \in Reader,
           collect_block(r) \/ collect_page(r) \/ collect_inline(r) \/ find_get_pages(r)
    PROVE  GoesOutside(r)
<1>1. task[r].pc \in {"blocks", "unpack", "inline", "hw"}
  BY Zenon DEF collect_block, collect_page, collect_inline, find_get_pages
<1>2. DOMAIN task = Reader /\ DOMAIN task[r] = Fields
  BY <1>1, Local, Zenon DEF ReadInv, At
<1> USE DEF GoesOutside, Moves, InPool, Fields, pool
<1>3. ASSUME NEW p, grab_page(r, p), pool' = pool
      PROVE  GoesOutside(r)
  BY <1>1, <1>2, <1>3 DEF grab_page
<1>4. CASE collect_block(r)
  BY <1>3, <1>4, Zenon DEF collect_block
<1>5. CASE collect_page(r)
  BY <1>3, <1>5 DEF collect_page
<1>6. CASE collect_inline(r)
  <2>1. CASE task[r].at = own(r)
    BY <1>1, <1>2, <1>6, <2>1 DEF collect_inline
  <2>2. CASE task[r].at # own(r)
    BY <1>3, <1>6, <2>2 DEF collect_inline
  <2> QED
    BY <2>1, <2>2
<1>7. CASE find_get_pages(r)
  BY <1>1, <1>2, <1>7 DEF find_get_pages
<1> QED
  BY <1>4, <1>5, <1>6, <1>7

\* A page ends, or the next one starts.
LEMMA EndsOutside ==
    ASSUME ReadInv, PoolInv, NEW r \in Reader,
           \/ mark_block(r) \/ already_read(r) \/ drop_block(r) \/ retry(r)
           \/ auth_decompress_hw2(r) \/ hw2_unpack_chunk(r) \/ unpack_inline(r)
           \/ unpack_inline_fails(r) \/ read_folio(r) \/ folio_lock(r)
           \/ readpage_comp_inline_fails(r) \/ collect_inline_fails(r)
           \/ \E p \in Pages : filemap_read(r, p) \/ read_pages(r, p)
    PROVE  GoesOutside(r)
<1>1. DOMAIN task = Reader /\ DOMAIN task[r] = Fields
  BY Zenon DEF ReadInv, TaskOK
<1>2. task[r].pc \notin InPool => task[r].map = {}
  BY Zenon DEF PoolInv, InPool, Mapping
<1>3. ASSUME NEW t
      PROVE  Done(t).map = {} /\ Done(t).pc \in {"idle", "folio"}
  BY Zenon DEF Done, Idle
<1> USE DEF GoesOutside, Moves, Step, InPool, Fields, pool
<1>4. ASSUME NEW new, task' = [task EXCEPT ![r] = new], pool' = pool,
             new.map = {} \/ new.map = task[r].map, new.pc \notin InPool,
             task[r].pc \notin InPool
      PROVE  GoesOutside(r)
  BY <1>1, <1>2, <1>4, Zenon
<1>5. CASE mark_block(r)
  <2>1. /\ Marked(task[r]).map = {} \/ Marked(task[r]).map = task[r].map
        /\ Marked(task[r]).pc \notin InPool
    BY <1>1, <1>3, <1>5 DEF mark_block, Marked
  <2> QED
    BY <1>4, <1>5, <2>1, Zenon DEF mark_block
<1>6. CASE drop_block(r)
  BY <1>1, <1>6 DEF drop_block
<1>7. CASE retry(r)
  BY <1>3, <1>4, <1>7, Zenon DEF retry, Idle
<1>8. CASE auth_decompress_hw2(r)
  BY <1>1, <1>3, <1>4, <1>8, Zenon DEF auth_decompress_hw2
<1>9. CASE already_read(r)
  BY <1>3, <1>4, <1>9, Zenon DEF already_read
<1>10. CASE hw2_unpack_chunk(r)
  BY <1>3, <1>4, <1>10, Zenon DEF hw2_unpack_chunk
<1>11. CASE unpack_inline(r)
  BY <1>3, <1>4, <1>11, Zenon DEF unpack_inline
<1>12. CASE unpack_inline_fails(r)
  BY <1>3, <1>4, <1>12, Zenon DEF unpack_inline_fails
<1>13. CASE read_folio(r)
  BY <1>3, <1>4, <1>13, Zenon DEF read_folio
<1>14. CASE \E p \in Pages : filemap_read(r, p) \/ read_pages(r, p)
  <2>1. PICK p \in Pages : filemap_read(r, p) \/ read_pages(r, p)
    BY <1>14
  <2>2. ASSUME NEW k \in {"folio", "lock"}, NEW q
        PROVE  /\ [Idle EXCEPT !.pc = k, !.queue = q].map = {}
               /\ [Idle EXCEPT !.pc = k, !.queue = q].pc \notin InPool
    BY DEF Idle
  <2>3. \E k \in {"folio", "lock"} : \E q :
            task' = [task EXCEPT ![r] = [Idle EXCEPT !.pc = k, !.queue = q]]
    <3>1. CASE read_pages(r, p)
      BY <3>1, Zenon DEF read_pages
    <3>2. CASE filemap_read(r, p)
      <4>1. (IF lock[p] = Free THEN "folio" ELSE "lock") \in {"folio", "lock"}
        OBVIOUS
      <4> QED
        BY <3>2, <4>1, Zenon DEF filemap_read
    <3> QED
      BY <2>1, <3>1, <3>2, Zenon
  <2>4. task[r].pc \notin InPool /\ pool' = pool
    BY <2>1, Zenon DEF filemap_read, read_pages
  <2> QED
    BY <1>4, <2>2, <2>3, <2>4, Zenon
<1>15. CASE folio_lock(r)
  <2>1. PICK new : /\ task' = [task EXCEPT ![r] = new]
                   /\ new \in {Idle, [task[r] EXCEPT !.pc = "folio"]}
    BY <1>15, Zenon DEF folio_lock
  <2>2. (new.map = {} \/ new.map = task[r].map) /\ new.pc \in {"idle", "folio"}
    BY <1>1, <2>1 DEF Idle
  <2>3. task[r].pc = "lock" /\ pool' = pool
    BY <1>15 DEF folio_lock
  <2> QED
    BY <1>4, <2>1, <2>2, <2>3, Zenon
<1>16. CASE readpage_comp_inline_fails(r)
  BY <1>3, <1>4, <1>16, Zenon DEF readpage_comp_inline_fails
<1>17. CASE collect_inline_fails(r)
  BY <1>3, <1>4, <1>17, Zenon DEF collect_inline_fails
<1> QED
  BY <1>5, <1>6, <1>7, <1>8, <1>9, <1>10, <1>11, <1>12, <1>13, <1>14, <1>15, <1>16, <1>17,
     Zenon

\* The buffers stay mapped while the chunk is unpacked.
LEMMA UnpacksMapped ==
    ASSUME ReadInv, NEW r \in Reader, decomp_fn(r) \/ decomp_fails(r)
    PROVE  Bystander
<1>1. DOMAIN task = Reader /\ DOMAIN task[r] = Fields
  BY Zenon DEF ReadInv, TaskOK
<1>2. /\ Moves(r, task'[r]) /\ pool' = pool /\ task'[r].map = task[r].map
      /\ task'[r].pc \in Mapping /\ task[r].pc \in Mapping
  <2>1. PICK e : task' = [task EXCEPT ![r] = [task[r] EXCEPT !.pc = "unmap", !.err = e]]
    BY Zenon DEF decomp_fn, decomp_fails, Step
  <2>2. task[r].pc = "map" /\ pool' = pool
    BY DEF decomp_fn, decomp_fails, Step, pool
  <2> QED
    BY <1>1, <2>1, <2>2 DEF Moves, Mapping, Fields
<1> QED
  BY <1>2, ByStep DEF Keeps

\* So do they when an I/O ends.
LEMMA IOOutside ==
    ASSUME NEW p, end_io(p) \/ end_io_error(p)
    PROVE  Bystander
BY DEF end_io, end_io_error, pool, Bystander
================================================================================
