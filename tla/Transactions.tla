----------------------------- MODULE Transactions -----------------------------
(* Who may change a mounted volume, and when it is committed: transactions and   *)
(* writeback, the two semaphores vdfs4_sync_fs takes from them, the delayed      *)
(* commit, truncation that makes room for itself, fsync, remount and unmount.    *)
EXTENDS Integers, Sequences, FiniteSets

CONSTANTS User,         \* tasks that call the file system
          None,
          MaxCalls      \* bound: calls of the users and stores through mappings

Flusher == "flusher"
Worker == "worker"
Admin == "admin"
Task == User \cup {Flusher, Worker, Admin}

ASSUME TransactionsAssumption == MaxCalls \in Nat /\ None \notin Task

VARIABLES tl, wl, um,      \* transaction_lock, writeback_lock, s_umount
          page, mutex,     \* the lock of a page, truncate_mutex of its inode
          count,           \* current->journal_info of every task
          pc,              \* the rest of what a task does
          timer,           \* delayed_commit waits for its time
          dirty,           \* who changed metadata that is not committed
          data,            \* pages that are not written
          full,            \* free blocks wait for a commit
          active, rdonly, mounted, calls

vars == <<tl, wl, um, page, mutex, count, pc, timer, dirty, data, full,
          active, rdonly, mounted, calls>>
locks == <<tl, wl, um, page, mutex>>
state == <<dirty, data, full>>
flags == <<active, rdonly, mounted>>

--------------------------------------------------------------------------------
Idle(t) == pc[t] = <<>>
At(t, step) == ~Idle(t) /\ Head(pc[t]) = step

(* A semaphore of the kernel; who waits to write (at the given step) keeps new   *)
(* readers out.                                                                 *)
Sem == [w |-> None, r |-> {}]
CanRead(l, step) == l.w = None /\ \A t \in Task : ~At(t, step)
CanWrite(l) == l.w = None /\ l.r = {}
Read(l, t) == [l EXCEPT !.r = @ \cup {t}]
Unread(l, t) == [l EXCEPT !.r = @ \ {t}]
Write(l, t) == [l EXCEPT !.w = t]
Unwrite(l) == [l EXCEPT !.w = None]

Init ==
    /\ tl = Sem /\ wl = Sem /\ um = Sem
    /\ page = None /\ mutex = None
    /\ count = [t \in Task |-> 0]
    /\ pc = [t \in Task |-> <<>>]
    /\ timer = FALSE
    /\ dirty = {} /\ data = FALSE /\ full = FALSE
    /\ active = TRUE /\ rdonly = FALSE /\ mounted = TRUE
    /\ calls = 0

(* The end of the delayed commit wakes the tasks that wait for this run of it.   *)
Goto(t, steps) ==
    pc' = [x \in Task |-> IF x = t THEN steps
                          ELSE IF t = Worker /\ steps = <<>> /\ At(x, "flushed")
                          THEN Tail(pc[x]) ELSE pc[x]]
Next_(t) == Goto(t, Tail(pc[t]))

--------------------------------------------------------------------------------
(* What the calls consist of.                                                   *)

(* vdfs4_write_begin and vdfs4_write_end.                                       *)
write == <<"start", "lock_page", "fill_page", "stop">>
(* A change of the catalog with an inner transaction (vdfs4_unlink, xattrs).     *)
change == <<"start", "change", "start", "change", "stop", "stop">>
(* vdfs4_setattr with a new size, and vdfs4_evict_inode of a removed file:       *)
(* truncate_exttree gives way once.                                             *)
truncate == <<"start", "lock_mutex", "yield", "start", "lock_mutex", "truncate", "stop">>
(* vdfs4_file_fsync; vdfs4_writepages writes the pages of the file.             *)
writepages == <<"writeback", "allocate", "map_page", "write_page", "end_writeback">>
sync_fs == <<"sync", "take_tl", "sync_inodes", "take_wl", "commit">>
file_fsync == writepages \o <<"read_um">> \o sync_fs \o <<"unread_um">>
(* vdfs4_delayed_commit.                                                        *)
delayed_commit == <<"try_um">>
(* vdfs4_remount_fs to writable, which cleans up orphans; and unmounting.        *)
remount == <<"take_um">> \o truncate \o <<"leave_um">>
umount == <<"take_um">> \o sync_fs \o <<"inactive">> \o truncate \o
          <<"cancel", "put_super">>

Call(t, op) ==
    /\ Idle(t) /\ mounted /\ calls < MaxCalls
    /\ op \in {write, change, truncate} => ~rdonly
    /\ calls' = calls + 1
    /\ Goto(t, op)
    /\ UNCHANGED <<locks, count, timer, state, flags>>

(* An unmount needs that nobody uses the volume; afterwards no call comes.       *)
Administer ==
    /\ Idle(Admin) /\ mounted /\ calls < MaxCalls
    /\ \/ Goto(Admin, remount) /\ calls' = calls + 1
       \/ /\ \A u \in User : Idle(u)
          /\ Goto(Admin, umount)
          /\ calls' = MaxCalls
    /\ UNCHANGED <<locks, count, timer, state, flags>>

(* A store through a mapping of the file dirties a page without a transaction.   *)
MappedStore ==
    /\ mounted /\ calls < MaxCalls
    /\ calls' = calls + 1
    /\ data' = TRUE
    /\ UNCHANGED <<locks, count, pc, timer, dirty, full, flags>>

StartFlusher ==
    /\ Idle(Flusher) /\ data
    /\ Goto(Flusher, writepages)
    /\ UNCHANGED <<locks, count, timer, state, flags, calls>>

TimerExpires ==
    /\ timer /\ Idle(Worker)
    /\ timer' = FALSE
    /\ Goto(Worker, delayed_commit)
    /\ UNCHANGED <<locks, count, state, flags, calls>>

--------------------------------------------------------------------------------
(* vdfs4_start_transaction, vdfs4_stop_transaction.                             *)

is_commit_required == full

start_transaction(t) ==
    /\ At(t, "start")
    /\ IF count[t] > 0
       THEN Next_(t) /\ UNCHANGED tl
       ELSE IF is_commit_required
       THEN Goto(t, <<"flush", "begin">> \o Tail(pc[t])) /\ UNCHANGED tl
       ELSE CanRead(tl, "take_tl") /\ tl' = Read(tl, t) /\ Next_(t)
    /\ count' = IF count[t] = 0 /\ is_commit_required THEN count
                ELSE [count EXCEPT ![t] = @ + 1]
    /\ UNCHANGED <<wl, um, page, mutex, timer, state, flags, calls>>

(* flush_delayed_work: a waiting commit starts at once; the task waits until it  *)
(* has run.                                                                     *)
flush_delayed_work(t) ==
    /\ At(t, "flush")
    /\ IF Idle(Worker) /\ ~timer THEN Next_(t)
       ELSE pc' = [pc EXCEPT ![Worker] = IF Idle(Worker) THEN delayed_commit ELSE @,
                             ![t] = <<"flushed">> \o Tail(@)]
    /\ timer' = (timer /\ ~Idle(Worker))
    /\ UNCHANGED <<locks, count, state, flags, calls>>

begin(t) ==
    /\ At(t, "begin")
    /\ CanRead(tl, "take_tl")
    /\ tl' = Read(tl, t)
    /\ count' = [count EXCEPT ![t] = @ + 1]
    /\ Next_(t)
    /\ UNCHANGED <<wl, um, page, mutex, timer, state, flags, calls>>

(* Mutant of stop_transaction: the commit is left to somebody else. *)
stop_without_timer(t) ==
    /\ At(t, "stop")
    /\ tl' = IF count[t] = 1 THEN Unread(tl, t) ELSE tl
    /\ count' = [count EXCEPT ![t] = @ - 1]
    /\ Next_(t)
    /\ UNCHANGED <<wl, um, page, mutex, timer, state, flags, calls>>

stop_transaction(t) ==
    /\ At(t, "stop")
    /\ tl' = IF count[t] = 1 THEN Unread(tl, t) ELSE tl
    /\ timer' = (timer \/ count[t] = 1)
    /\ count' = [count EXCEPT ![t] = @ - 1]
    /\ Next_(t)
    /\ UNCHANGED <<wl, um, page, mutex, state, flags, calls>>

(* A change of metadata; it may use the last free blocks while others wait for   *)
(* a commit.                                                                    *)
change_metadata(t) ==
    /\ At(t, "change")
    /\ dirty' = dirty \cup {"transaction"}
    /\ full' \in {full, TRUE}
    /\ Next_(t)
    /\ UNCHANGED <<locks, count, timer, data, flags, calls>>

--------------------------------------------------------------------------------
lock_page(t) ==
    /\ At(t, "lock_page")
    /\ page = None
    /\ page' = t
    /\ Next_(t)
    /\ UNCHANGED <<tl, wl, um, mutex, count, timer, state, flags, calls>>

(* vdfs4_get_block_prep_da reserves the block under truncate_mutex.             *)
fill_page(t) ==
    /\ At(t, "fill_page")
    /\ mutex = None
    /\ page' = None
    /\ data' = TRUE
    /\ dirty' = dirty \cup {"transaction"}
    /\ Next_(t)
    /\ UNCHANGED <<tl, wl, um, mutex, count, timer, full, flags, calls>>

lock_mutex(t) ==
    /\ At(t, "lock_mutex")
    /\ mutex = None
    /\ mutex' = t
    /\ Next_(t)
    /\ UNCHANGED <<tl, wl, um, page, count, timer, state, flags, calls>>

(* truncate_exttree, when metadata runs short: everything is given up for a      *)
(* commit of what has been truncated so far.  Inside another transaction, or in   *)
(* a commit that evicts a file, only the count goes down: transaction_lock is     *)
(* kept, and the task waits for a commit that needs it.                          *)
truncate_yields(t) ==
    /\ At(t, "yield")
    /\ dirty' = dirty \cup {"transaction"}
    /\ mutex' = None
    /\ tl' = IF count[t] = 1 THEN Unread(tl, t) ELSE tl
    /\ timer' = (timer \/ count[t] = 1)
    /\ count' = [count EXCEPT ![t] = @ - 1]
    /\ Goto(t, <<"flush">> \o Tail(pc[t]))
    /\ UNCHANGED <<wl, um, page, data, full, flags, calls>>

truncate_goes_on(t) ==
    /\ At(t, "yield")
    /\ Goto(t, SubSeq(pc[t], 4, Len(pc[t])))
    /\ UNCHANGED <<locks, count, timer, state, flags, calls>>

truncate_blocks(t) ==
    /\ At(t, "truncate")
    /\ dirty' = dirty \cup {"transaction"}
    /\ full' \in {full, TRUE}
    /\ mutex' = None
    /\ Next_(t)
    /\ UNCHANGED <<tl, wl, um, page, count, timer, data, flags, calls>>

--------------------------------------------------------------------------------
(* vdfs4_writepages between vdfs4_start_writeback and vdfs4_stop_writeback.      *)

start_writeback(t) ==
    /\ At(t, "writeback")
    /\ count[t] = 0 => CanRead(wl, "take_wl")
    /\ wl' = IF count[t] = 0 THEN Read(wl, t) ELSE wl
    /\ count' = [count EXCEPT ![t] = @ + 1]
    /\ Next_(t)
    /\ UNCHANGED <<tl, um, page, mutex, timer, state, flags, calls>>

allocate_space(t) ==
    /\ At(t, "allocate")
    /\ mutex = None
    /\ dirty' = IF data THEN dirty \cup {"writeback"} ELSE dirty
    /\ Next_(t)
    /\ UNCHANGED <<locks, count, timer, data, full, flags, calls>>

writeback_iter(t) ==
    /\ At(t, "map_page")
    /\ page = None
    /\ page' = t
    /\ Next_(t)
    /\ UNCHANGED <<tl, wl, um, mutex, count, timer, state, flags, calls>>

mpage_writepage(t) ==
    /\ At(t, "write_page")
    /\ mutex = None
    /\ page' = None
    /\ dirty' = IF data THEN dirty \cup {"writeback"} ELSE dirty
    /\ data' = FALSE
    /\ Next_(t)
    /\ UNCHANGED <<tl, wl, um, mutex, count, timer, full, flags, calls>>

stop_writeback(t) ==
    /\ At(t, "end_writeback")
    /\ wl' = IF count[t] = 1 THEN Unread(wl, t) ELSE wl
    /\ count' = [count EXCEPT ![t] = @ - 1]
    /\ Next_(t)
    /\ UNCHANGED <<tl, um, page, mutex, timer, state, flags, calls>>

--------------------------------------------------------------------------------
(* sync_filesystem does nothing on a read-only volume.  vdfs4_sync_fs shuts out  *)
(* transactions, writes the pages, shuts out writeback and commits.             *)

sync_filesystem(t) ==
    /\ At(t, "sync")
    /\ Goto(t, IF rdonly THEN SubSeq(pc[t], Len(sync_fs) + 1, Len(pc[t])) ELSE Tail(pc[t]))
    /\ UNCHANGED <<locks, count, timer, state, flags, calls>>

take_tl(t) ==
    /\ At(t, "take_tl")
    /\ CanWrite(tl)
    /\ tl' = Write(tl, t)
    /\ count' = [count EXCEPT ![t] = @ + 1]
    /\ Next_(t)
    /\ UNCHANGED <<wl, um, page, mutex, timer, state, flags, calls>>

(* sync_inodes_sb: the flusher writes all pages, the task waits.                *)
sync_inodes_sb(t) ==
    /\ At(t, "sync_inodes")
    /\ ~data
    /\ Next_(t)
    /\ UNCHANGED <<locks, count, timer, state, flags, calls>>

(* It may drop the last reference to a removed file and evict it: the truncation  *)
(* is part of the commit.                                                       *)
sync_evicts(t) ==
    /\ At(t, "sync_inodes")
    /\ ~data /\ calls < MaxCalls
    /\ calls' = calls + 1
    /\ Goto(t, truncate \o Tail(pc[t]))
    /\ UNCHANGED <<locks, count, timer, state, flags>>

(* Mutant of take_wl: writeback goes on during the commit. *)
take_wl_skipped(t) ==
    /\ At(t, "take_wl")
    /\ Next_(t)
    /\ UNCHANGED <<locks, count, timer, state, flags, calls>>

take_wl(t) ==
    /\ At(t, "take_wl")
    /\ CanWrite(wl)
    /\ wl' = Write(wl, t)
    /\ Next_(t)
    /\ UNCHANGED <<tl, um, page, mutex, count, timer, state, flags, calls>>

sync_end(t) ==
    /\ At(t, "commit")
    /\ tl' = Unwrite(tl)
    /\ wl' = Unwrite(wl)
    /\ count' = [count EXCEPT ![t] = @ - 1]
    /\ Next_(t)
    /\ UNCHANGED <<um, page, mutex, timer, data, active, mounted>>

sync_metadata(t) ==
    /\ sync_end(t)
    /\ dirty' = {}
    /\ full' = FALSE
    /\ UNCHANGED <<rdonly, calls>>

(* vdfs4_fatal_error: the volume becomes read-only.                             *)
sync_metadata_fails(t) ==
    /\ sync_end(t)
    /\ calls < MaxCalls
    /\ calls' = MaxCalls
    /\ rdonly' = TRUE
    /\ UNCHANGED <<dirty, full>>

--------------------------------------------------------------------------------
(* Mutant of try_um: the worker waits for s_umount. *)
try_um_waits(t) ==
    /\ At(t, "try_um")
    /\ CanRead(um, "take_um")
    /\ um' = Read(um, t)
    /\ Goto(t, sync_fs \o <<"unread_um">>)
    /\ UNCHANGED <<tl, wl, page, mutex, count, timer, state, flags, calls>>

(* vdfs4_delayed_commit does not wait for s_umount; it tries again later.        *)
try_um(t) ==
    /\ At(t, "try_um")
    /\ IF CanRead(um, "take_um")
       THEN /\ um' = Read(um, t)
            /\ Goto(t, sync_fs \o <<"unread_um">>)
            /\ timer' = timer
       ELSE /\ um' = um
            /\ Next_(t)
            /\ timer' = (timer \/ active)
    /\ UNCHANGED <<tl, wl, page, mutex, count, state, flags, calls>>

read_um(t) ==
    /\ At(t, "read_um")
    /\ CanRead(um, "take_um")
    /\ um' = Read(um, t)
    /\ Next_(t)
    /\ UNCHANGED <<tl, wl, page, mutex, count, timer, state, flags, calls>>

unread_um(t) ==
    /\ At(t, "unread_um")
    /\ um' = Unread(um, t)
    /\ Next_(t)
    /\ UNCHANGED <<tl, wl, page, mutex, count, timer, state, flags, calls>>

take_um(t) ==
    /\ At(t, "take_um")
    /\ CanWrite(um)
    /\ um' = Write(um, t)
    /\ Next_(t)
    /\ UNCHANGED <<tl, wl, page, mutex, count, timer, state, flags, calls>>

leave_um(t) ==
    /\ At(t, "leave_um")
    /\ um' = Unwrite(um)
    /\ Next_(t)
    /\ UNCHANGED <<tl, wl, page, mutex, count, timer, state, flags, calls>>

(* The VFS clears MS_ACTIVE and evicts what is left.                            *)
inactive(t) ==
    /\ At(t, "inactive")
    /\ active' = FALSE
    /\ Next_(t)
    /\ UNCHANGED <<locks, count, timer, state, rdonly, mounted, calls>>

(* vdfs4_put_super: cancel_delayed_work_sync.                                   *)
cancel(t) ==
    /\ At(t, "cancel")
    /\ Idle(Worker)
    /\ timer' = FALSE
    /\ Next_(t)
    /\ UNCHANGED <<locks, count, state, flags, calls>>

put_super(t) ==
    /\ At(t, "put_super")
    /\ um' = Unwrite(um)
    /\ mounted' = FALSE
    /\ Next_(t)
    /\ UNCHANGED <<tl, wl, page, mutex, count, timer, state, active, rdonly, calls>>

--------------------------------------------------------------------------------
Advance(t) ==
    /\ ~Idle(t)
    /\ \/ start_transaction(t)
       \/ flush_delayed_work(t)
       \/ begin(t)
       \/ stop_transaction(t)
       \/ change_metadata(t)
       \/ lock_page(t)
       \/ fill_page(t)
       \/ lock_mutex(t)
       \/ truncate_yields(t)
       \/ truncate_goes_on(t)
       \/ truncate_blocks(t)
       \/ start_writeback(t)
       \/ allocate_space(t)
       \/ writeback_iter(t)
       \/ mpage_writepage(t)
       \/ stop_writeback(t)
       \/ sync_filesystem(t)
       \/ take_tl(t)
       \/ sync_inodes_sb(t)
       \/ sync_evicts(t)
       \/ take_wl(t)
       \/ sync_metadata(t)
       \/ sync_metadata_fails(t)
       \/ try_um(t)
       \/ read_um(t)
       \/ unread_um(t)
       \/ take_um(t)
       \/ leave_um(t)
       \/ inactive(t)
       \/ cancel(t)
       \/ put_super(t)

Next ==
    \/ \E u \in User, op \in {write, change, truncate, file_fsync} : Call(u, op)
    \/ Administer
    \/ MappedStore
    \/ StartFlusher
    \/ TimerExpires
    \/ \E t \in Task : Advance(t)

(* Tasks that can run do; writeback happens and the timer expires once no        *)
(* transaction sets it anew, which MaxCalls bounds.                             *)
Fairness ==
    /\ \A t \in Task : WF_vars(Advance(t))
    /\ WF_vars(StartFlusher)
    /\ WF_vars(TimerExpires)

Spec == Init /\ [][Next]_vars /\ Fairness

--------------------------------------------------------------------------------
(* A task is in the middle of a change: the next step of it belongs to the same   *)
(* transaction or the same writeback as the one before.                         *)
InTheMiddle(t) ==
    ~Idle(t) /\ Head(pc[t]) \in {"change", "lock_page", "fill_page", "lock_mutex",
                                 "truncate", "allocate", "map_page", "write_page"}

(* While vdfs4_sync_fs commits, no task is in the middle of a transaction or of   *)
(* the writeback of a file: what reaches the disk consists of whole changes.      *)
CommitsWholeChanges ==
    \A s \in Task : At(s, "commit") => \A t \in Task \ {s} : ~InTheMiddle(t)

(* The one circle there is: a truncation that gives way inside a commit waits     *)
(* for the delayed commit, which waits for the transaction_lock of its caller, or  *)
(* is its caller.                                                               *)
WaitsForItself ==
    \E t \in Task : /\ At(t, "flushed") /\ tl.w = t
                    /\ t = Worker \/ At(Worker, "take_tl")

(* Every change made in a transaction is committed in the end, with its data and  *)
(* without anybody calling sync: the delayed commit runs although remounting and   *)
(* unmounting hold s_umount, unless the volume becomes read-only or is unmounted,  *)
(* or vdfs4_sync_fs evicts a file whose truncation gives way and waits for itself. *)
EventuallyCommitted ==
    "transaction" \in dirty ~>
        ("transaction" \notin dirty \/ rdonly \/ ~mounted \/ WaitsForItself)

(* Once no new calls come, all of them return, unless a truncation gives way      *)
(* inside vdfs4_sync_fs and so waits for a commit that waits for it: transactions, *)
(* writeback, truncation outside of a commit, commits, evictions, remounts and     *)
(* unmounting wait in no other circle.                                          *)
CallsReturn == <>[](\A t \in Task : Idle(t)) \/ <>[]WaitsForItself
================================================================================
