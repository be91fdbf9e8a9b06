--------------------------- MODULE TransactionsProofs ---------------------------
(* While vdfs4_sync_fs commits, no task is in the middle of a change, however     *)
(* many tasks there are. The proof follows every task through the rest of its     *)
(* call: which rests there are, and which locks it holds and how deep its         *)
(* transactions are nested at each.                                              *)
EXTENDS Transactions, TLAPS

USE TransactionsAssumption

--------------------------------------------------------------------------------
(* The rests of the calls, from their ends.                                     *)

Steps == {"start", "stop", "begin", "flush", "flushed", "change", "lock_page", "fill_page",
          "lock_mutex", "yield", "truncate", "writeback", "allocate", "map_page", "write_page",
          "end_writeback", "sync", "take_tl", "sync_inodes", "take_wl", "commit", "try_um",
          "read_um", "unread_um", "take_um", "leave_um", "inactive", "cancel", "put_super"}

\* A step, then one of the rests S.
Then(step, S) == {<<step>> \o s : s \in S}
Over == {<<>>}

UnreadUm == Then("unread_um", Over)
LeaveUm == Then("leave_um", Over)
PutSuper == Then("put_super", Over)
Cancel == Then("cancel", PutSuper)

\* Transactions: of a write, of truncation, and of a change with an inner transaction.
Stop == Then("stop", Over \cup LeaveUm \cup Cancel)
FillPage == Then("fill_page", Stop)
LockPage == Then("lock_page", FillPage)
Truncate == Then("truncate", Stop)
LockMutex == Then("lock_mutex", Truncate)
Again == Then("start", LockMutex)
Yield == Then("yield", Again)
FirstMutex == Then("lock_mutex", Yield)
InnerStop == Then("stop", Stop)
InnerChange == Then("change", InnerStop)
InnerStart == Then("start", InnerChange)
OuterChange == Then("change", InnerStart)
Bodies == LockPage \cup FirstMutex \cup LockMutex \cup OuterChange
Begin == Then("begin", Bodies)
Start == Then("start", Bodies)
Flush == Then("flush", Begin \cup Start)
Flushed == Then("flushed", Begin \cup Start)

\* vdfs4_sync_fs, which may evict an inode, for fsync, the delayed commit and unmounting.
Inactive == Then("inactive", Start)
AfterSync == UnreadUm \cup Inactive
Commit == Then("commit", AfterSync)
TakeWl == Then("take_wl", Commit)
EvictStop == Then("stop", TakeWl)
EvictTruncate == Then("truncate", EvictStop)
EvictMutex == Then("lock_mutex", EvictTruncate)
EvictAgain == Then("start", EvictMutex)
EvictYield == Then("yield", EvictAgain)
EvictFirst == Then("lock_mutex", EvictYield)
EvictStart == Then("start", EvictFirst)
EvictFlush == Then("flush", EvictAgain)
EvictFlushed == Then("flushed", EvictAgain)
SyncInodes == Then("sync_inodes", TakeWl)
TakeTl == Then("take_tl", SyncInodes)
Sync == Then("sync", TakeTl)
ReadUm == Then("read_um", Sync)
TakeUm == Then("take_um", Sync \cup Start)
TryUm == Then("try_um", Over)

\* vdfs4_writepages, of the flusher and of fsync.
EndWriteback == Then("end_writeback", Over \cup ReadUm)
WritePage == Then("write_page", EndWriteback)
MapPage == Then("map_page", WritePage)
Allocate == Then("allocate", MapPage)
Writeback == Then("writeback", Allocate)

--------------------------------------------------------------------------------
(* What a task has.                                                             *)

Out == Over \cup Start \cup Flush \cup Flushed \cup Begin \cup Writeback \cup ReadUm \cup Sync
       \cup TakeTl \cup TakeUm \cup TryUm \cup AfterSync \cup LeaveUm \cup Cancel \cup PutSuper
InTransaction == Bodies \cup FillPage \cup Truncate \cup Yield \cup InnerStart \cup Stop
InInner == InnerChange \cup InnerStop
InWriteback == Allocate \cup MapPage \cup WritePage \cup EndWriteback
InSync == SyncInodes \cup TakeWl \cup EvictStart \cup EvictFlush \cup EvictFlushed \cup EvictAgain
InEvict == EvictFirst \cup EvictYield \cup EvictMutex \cup EvictTruncate \cup EvictStop

\* What task t has of a semaphore.
Nothing(l, t) == t \notin l.r /\ l.w # t
Reads(l, t) == t \in l.r /\ l.w # t
Writes(l, t) == t \notin l.r /\ l.w = t

\* What task t has of transaction_lock l and writeback_lock m at the rest s of its
\* call, with its transactions nested n deep.
Has(t, s, n, l, m) ==
    \/ s \in Out /\ n = 0 /\ Nothing(l, t) /\ Nothing(m, t)
    \/ s \in InTransaction /\ n = 1 /\ Reads(l, t) /\ Nothing(m, t)
    \/ s \in InInner /\ n = 2 /\ Reads(l, t) /\ Nothing(m, t)
    \/ s \in InWriteback /\ n = 1 /\ Nothing(l, t) /\ Reads(m, t)
    \/ s \in InSync /\ n = 1 /\ Writes(l, t) /\ Nothing(m, t)
    \/ s \in InEvict /\ n = 2 /\ Writes(l, t) /\ Nothing(m, t)
    \/ s \in Commit /\ n = 1 /\ Writes(l, t) /\ Writes(m, t)

\* A semaphore with a writer has no readers.
SemOK(l) == DOMAIN l = {"w", "r"} /\ (l.w # None => l.r = {})

\* The inductive invariant.
LockInv ==
    /\ DOMAIN pc = Task /\ DOMAIN count = Task
    /\ SemOK(tl) /\ SemOK(wl)
    /\ \A t \in Task : Has(t, pc[t], count[t], tl, wl)

--------------------------------------------------------------------------------
(* Where the rests lead.                                                        *)

Rest(S) == S \subseteq Seq(Steps)

\* A rest in S is at the step h and leads to T.
Leads(S, h, T) == \A s \in S : s # <<>> /\ Head(s) = h /\ Tail(s) \in T

LEMMA Cons ==
    ASSUME NEW X, NEW h \in X, NEW z \in Seq(X)
    PROVE  /\ <<h>> \o z \in Seq(X) /\ <<h>> \o z # <<>>
           /\ Head(<<h>> \o z) = h /\ Tail(<<h>> \o z) = z
<1>1. <<h>> \in Seq(X)
  OBVIOUS
<1>2. <<h>> \o z \in Seq(X)
  BY <1>1
<1>3. Len(<<h>> \o z) = Len(z) + 1 /\ Len(z) \in Nat
  BY <1>1
<1>4. <<h>> \o z # <<>> /\ Head(<<h>> \o z) = h
  BY <1>3
<1>5. Tail(<<h>> \o z) = z
  OBVIOUS
<1> QED
  BY <1>2, <1>4, <1>5

LEMMA ThenLeads ==
    ASSUME NEW h \in Steps, NEW S, Rest(S), NEW T, T = Then(h, S)
    PROVE  Rest(T) /\ Leads(T, h, S)
<1>1. ASSUME NEW s \in T
      PROVE  s \in Seq(Steps) /\ s # <<>> /\ Head(s) = h /\ Tail(s) \in S
  <2>1. PICK z \in S : s = <<h>> \o z
    BY <1>1, Zenon DEF Then
  <2>2. z \in Seq(Steps)
    BY Zenon DEF Rest
  <2> QED
    BY <2>1, <2>2, Cons, Zenon
<1> QED
  BY <1>1, Zenon DEF Rest, Leads

LEMMA ThenIn ==
    ASSUME NEW h, NEW S, NEW s \in S
    PROVE  <<h>> \o s \in Then(h, S)
BY Zenon DEF Then

\* The control flow of the calls.
LEMMA Flow ==
    /\ Rest(UnreadUm) /\ Leads(UnreadUm, "unread_um", Over)
    /\ Rest(LeaveUm) /\ Leads(LeaveUm, "leave_um", Over)
    /\ Rest(PutSuper) /\ Leads(PutSuper, "put_super", Over)
    /\ Rest(Cancel) /\ Leads(Cancel, "cancel", PutSuper)
    /\ Rest(Stop) /\ Leads(Stop, "stop", Over \cup LeaveUm \cup Cancel)
    /\ Rest(FillPage) /\ Leads(FillPage, "fill_page", Stop)
    /\ Rest(LockPage) /\ Leads(LockPage, "lock_page", FillPage)
    /\ Rest(Truncate) /\ Leads(Truncate, "truncate", Stop)
    /\ Rest(LockMutex) /\ Leads(LockMutex, "lock_mutex", Truncate)
    /\ Rest(Again) /\ Leads(Again, "start", LockMutex)
    /\ Rest(Yield) /\ Leads(Yield, "yield", Again)
    /\ Rest(FirstMutex) /\ Leads(FirstMutex, "lock_mutex", Yield)
    /\ Rest(InnerStop) /\ Leads(InnerStop, "stop", Stop)
    /\ Rest(InnerChange) /\ Leads(InnerChange, "change", InnerStop)
    /\ Rest(InnerStart) /\ Leads(InnerStart, "start", InnerChange)
    /\ Rest(OuterChange) /\ Leads(OuterChange, "change", InnerStart)
    /\ Rest(Begin) /\ Leads(Begin, "begin", Bodies)
    /\ Rest(Start) /\ Leads(Start, "start", Bodies)
    /\ Rest(Flush) /\ Leads(Flush, "flush", Begin \cup Start)
    /\ Rest(Flushed) /\ Leads(Flushed, "flushed", Begin \cup Start)
    /\ Rest(Inactive) /\ Leads(Inactive, "inactive", Start)
    /\ Rest(Commit) /\ Leads(Commit, "commit", AfterSync)
    /\ Rest(TakeWl) /\ Leads(TakeWl, "take_wl", Commit)
    /\ Rest(EvictStop) /\ Leads(EvictStop, "stop", TakeWl)
    /\ Rest(EvictTruncate) /\ Leads(EvictTruncate, "truncate", EvictStop)
    /\ Rest(EvictMutex) /\ Leads(EvictMutex, "lock_mutex", EvictTruncate)
    /\ Rest(EvictAgain) /\ Leads(EvictAgain, "start", EvictMutex)
    /\ Rest(EvictYield) /\ Leads(EvictYield, "yield", EvictAgain)
    /\ Rest(EvictFirst) /\ Leads(EvictFirst, "lock_mutex", EvictYield)
    /\ Rest(EvictStart) /\ Leads(EvictStart, "start", EvictFirst)
    /\ Rest(EvictFlush) /\ Leads(EvictFlush, "flush", EvictAgain)
    /\ Rest(EvictFlushed) /\ Leads(EvictFlushed, "flushed", EvictAgain)
    /\ Rest(SyncInodes) /\ Leads(SyncInodes, "sync_inodes", TakeWl)
    /\ Rest(TakeTl) /\ Leads(TakeTl, "take_tl", SyncInodes)
    /\ Rest(Sync) /\ Leads(Sync, "sync", TakeTl)
    /\ Rest(ReadUm) /\ Leads(ReadUm, "read_um", Sync)
    /\ Rest(TakeUm) /\ Leads(TakeUm, "take_um", Sync \cup Start)
    /\ Rest(TryUm) /\ Leads(TryUm, "try_um", Over)
    /\ Rest(EndWriteback) /\ Leads(EndWriteback, "end_writeback", Over \cup ReadUm)
    /\ Rest(WritePage) /\ Leads(WritePage, "write_page", EndWriteback)
    /\ Rest(MapPage) /\ Leads(MapPage, "map_page", WritePage)
    /\ Rest(Allocate) /\ Leads(Allocate, "allocate", MapPage)
    /\ Rest(Writeback) /\ Leads(Writeback, "writeback", Allocate)
    /\ Rest(AfterSync) /\ Rest(Bodies)
<1>1. Rest(Over)
  BY DEF Rest, Over
<1>2. ASSUME NEW S, NEW T, Rest(S), Rest(T) PROVE Rest(S \cup T)
  BY <1>2 DEF Rest
<1>3. Rest(UnreadUm) /\ Leads(UnreadUm, "unread_um", Over)
  BY <1>1, ThenLeads DEF UnreadUm, Steps
<1>4. Rest(LeaveUm) /\ Leads(LeaveUm, "leave_um", Over)
  BY <1>1, ThenLeads DEF LeaveUm, Steps
<1>5. Rest(PutSuper) /\ Leads(PutSuper, "put_super", Over)
  BY <1>1, ThenLeads DEF PutSuper, Steps
<1>6. Rest(Cancel) /\ Leads(Cancel, "cancel", PutSuper)
  BY <1>5, ThenLeads DEF Cancel, Steps
<1>7. Rest(Over \cup LeaveUm \cup Cancel)
  BY <1>1, <1>4, <1>6, <1>2, Zenon
<1>8. Rest(Stop) /\ Leads(Stop, "stop", Over \cup LeaveUm \cup Cancel)
  BY <1>7, ThenLeads DEF Stop, Steps
<1>9. Rest(FillPage) /\ Leads(FillPage, "fill_page", Stop)
  BY <1>8, ThenLeads DEF FillPage, Steps
<1>10. Rest(LockPage) /\ Leads(LockPage, "lock_page", FillPage)
  BY <1>9, ThenLeads DEF LockPage, Steps
<1>11. Rest(Truncate) /\ Leads(Truncate, "truncate", Stop)
  BY <1>8, ThenLeads DEF Truncate, Steps
<1>12. Rest(LockMutex) /\ Leads(LockMutex, "lock_mutex", Truncate)
  BY <1>11, ThenLeads DEF LockMutex, Steps
<1>13. Rest(Again) /\ Leads(Again, "start", LockMutex)
  BY <1>12, ThenLeads DEF Again, Steps
<1>14. Rest(Yield) /\ Leads(Yield, "yield", Again)
  BY <1>13, ThenLeads DEF Yield, Steps
<1>15. Rest(FirstMutex) /\ Leads(FirstMutex, "lock_mutex", Yield)
  BY <1>14, ThenLeads DEF FirstMutex, Steps
<1>17. Rest(InnerStop) /\ Leads(InnerStop, "stop", Stop)
  BY <1>8, ThenLeads DEF InnerStop, Steps
<1>18. Rest(InnerChange) /\ Leads(InnerChange, "change", InnerStop)
  BY <1>17, ThenLeads DEF InnerChange, Steps
<1>19. Rest(InnerStart) /\ Leads(InnerStart, "start", InnerChange)
  BY <1>18, ThenLeads DEF InnerStart, Steps
<1>20. Rest(OuterChange) /\ Leads(OuterChange, "change", InnerStart)
  BY <1>19, ThenLeads DEF OuterChange, Steps
<1>21. Rest(Bodies)
  BY <1>10, <1>15, <1>12, <1>20, <1>2, Zenon DEF Bodies
<1>22. Rest(Begin) /\ Leads(Begin, "begin", Bodies)
  BY <1>21, ThenLeads DEF Begin, Steps
<1>23. Rest(Start) /\ Leads(Start, "start", Bodies)
  BY <1>21, ThenLeads DEF Start, Steps
<1>24. Rest(Begin \cup Start)
  BY <1>22, <1>23, <1>2
<1>25. Rest(Flush) /\ Leads(Flush, "flush", Begin \cup Start)
  BY <1>24, ThenLeads DEF Flush, Steps
<1>26. Rest(Flushed) /\ Leads(Flushed, "flushed", Begin \cup Start)
  BY <1>24, ThenLeads DEF Flushed, Steps
<1>27. Rest(Inactive) /\ Leads(Inactive, "inactive", Start)
  BY <1>23, ThenLeads DEF Inactive, Steps
<1>28. Rest(AfterSync)
  BY <1>3, <1>27, <1>2 DEF AfterSync
<1>29. Rest(Commit) /\ Leads(Commit, "commit", AfterSync)
  BY <1>28, ThenLeads DEF Commit, Steps
<1>30. Rest(TakeWl) /\ Leads(TakeWl, "take_wl", Commit)
  BY <1>29, ThenLeads DEF TakeWl, Steps
<1>31. Rest(EvictStop) /\ Leads(EvictStop, "stop", TakeWl)
  BY <1>30, ThenLeads DEF EvictStop, Steps
<1>32. Rest(EvictTruncate) /\ Leads(EvictTruncate, "truncate", EvictStop)
  BY <1>31, ThenLeads DEF EvictTruncate, Steps
<1>33. Rest(EvictMutex) /\ Leads(EvictMutex, "lock_mutex", EvictTruncate)
  BY <1>32, ThenLeads DEF EvictMutex, Steps
<1>47. Rest(EvictAgain) /\ Leads(EvictAgain, "start", EvictMutex)
  BY <1>33, ThenLeads DEF EvictAgain, Steps
<1>48. Rest(EvictYield) /\ Leads(EvictYield, "yield", EvictAgain)
  BY <1>47, ThenLeads DEF EvictYield, Steps
<1>49. Rest(EvictFirst) /\ Leads(EvictFirst, "lock_mutex", EvictYield)
  BY <1>48, ThenLeads DEF EvictFirst, Steps
<1>50. Rest(EvictStart) /\ Leads(EvictStart, "start", EvictFirst)
  BY <1>49, ThenLeads DEF EvictStart, Steps
<1>51. Rest(EvictFlush) /\ Leads(EvictFlush, "flush", EvictAgain)
  BY <1>47, ThenLeads DEF EvictFlush, Steps
<1>52. Rest(EvictFlushed) /\ Leads(EvictFlushed, "flushed", EvictAgain)
  BY <1>47, ThenLeads DEF EvictFlushed, Steps
<1>34. Rest(SyncInodes) /\ Leads(SyncInodes, "sync_inodes", TakeWl)
  BY <1>30, ThenLeads DEF SyncInodes, Steps
<1>35. Rest(TakeTl) /\ Leads(TakeTl, "take_tl", SyncInodes)
  BY <1>34, ThenLeads DEF TakeTl, Steps
<1>36. Rest(Sync) /\ Leads(Sync, "sync", TakeTl)
  BY <1>35, ThenLeads DEF Sync, Steps
<1>37. Rest(ReadUm) /\ Leads(ReadUm, "read_um", Sync)
  BY <1>36, ThenLeads DEF ReadUm, Steps
<1>38. Rest(Sync \cup Start)
  BY <1>36, <1>23, <1>2
<1>39. Rest(TakeUm) /\ Leads(TakeUm, "take_um", Sync \cup Start)
  BY <1>38, ThenLeads DEF TakeUm, Steps
<1>40. Rest(TryUm) /\ Leads(TryUm, "try_um", Over)
  BY <1>1, ThenLeads DEF TryUm, Steps
<1>41. Rest(Over \cup ReadUm)
  BY <1>1, <1>37, <1>2
<1>42. Rest(EndWriteback) /\ Leads(EndWriteback, "end_writeback", Over \cup ReadUm)
  BY <1>41, ThenLeads DEF EndWriteback, Steps
<1>43. Rest(WritePage) /\ Leads(WritePage, "write_page", EndWriteback)
  BY <1>42, ThenLeads DEF WritePage, Steps
<1>44. Rest(MapPage) /\ Leads(MapPage, "map_page", WritePage)
  BY <1>43, ThenLeads DEF MapPage, Steps
<1>45. Rest(Allocate) /\ Leads(Allocate, "allocate", MapPage)
  BY <1>44, ThenLeads DEF Allocate, Steps
<1>46. Rest(Writeback) /\ Leads(Writeback, "writeback", Allocate)
  BY <1>45, ThenLeads DEF Writeback, Steps
<1> QED
  BY <1>3, <1>4, <1>5, <1>6, <1>8, <1>9, <1>10, <1>11, <1>12, <1>13, <1>14,
     <1>15, <1>17, <1>18, <1>19, <1>20, <1>22, <1>23, <1>25, <1>26,
     <1>27, <1>29, <1>30, <1>31, <1>32, <1>33, <1>34, <1>35, <1>36, <1>37,
     <1>39, <1>40, <1>42, <1>43, <1>44, <1>45, <1>46, <1>47, <1>48, <1>49, <1>50,
     <1>51, <1>52, <1>28, <1>21, Zenon

\* The same for the rests at which a task has the same.
LEMMA FlowOut ==
    ASSUME NEW s \in Out, s # <<>>
    PROVE  \/ Head(s) = "start" /\ Tail(s) \in Bodies
           \/ Head(s) = "begin" /\ Tail(s) \in Bodies
           \/ Head(s) = "flush" /\ Tail(s) \in Begin \cup Start
           \/ Head(s) = "writeback" /\ Tail(s) \in Allocate
           \/ Head(s) = "take_tl" /\ Tail(s) \in SyncInodes
           \/ Head(s) = "sync" /\ s \in Sync /\ Tail(s) \in Out
           \/ /\ Head(s) \in {"flushed", "read_um", "take_um", "try_um", "unread_um",
                              "inactive", "leave_um", "cancel", "put_super"}
              /\ Tail(s) \in Out
<1>1. s \notin Over
  BY DEF Over
<1> USE Flow DEF Leads, Out
<1>2. CASE s \in Start \cup Begin \cup Flush \cup Writeback \cup TakeTl
  BY <1>2
<1>3. CASE s \in Sync
  BY <1>3
<1>4. CASE s \in Flushed \cup ReadUm \cup TakeUm \cup TryUm
  BY <1>4
<1>5. CASE s \in UnreadUm \cup Inactive \cup LeaveUm \cup Cancel \cup PutSuper
  BY <1>5
<1> QED
  BY <1>1, <1>2, <1>3, <1>4, <1>5, Zenon DEF AfterSync

LEMMA FlowTransaction ==
    ASSUME NEW s \in InTransaction
    PROVE  /\ s # <<>>
           /\ \/ Head(s) = "start" /\ Tail(s) \in InInner
              \/ Head(s) = "stop" /\ Tail(s) \in Out
              \/ Head(s) = "yield" /\ s \in Yield /\ Tail(s) \in Start
              \/ /\ Head(s) \in {"lock_page", "fill_page", "change", "lock_mutex", "truncate"}
                 /\ Tail(s) \in InTransaction
<1> USE Flow DEF Leads
<1>1. CASE s \in LockPage \cup FirstMutex \cup LockMutex \cup OuterChange
  BY <1>1 DEF InTransaction, Bodies
<1>2. CASE s \in FillPage \cup Truncate
  BY <1>2 DEF InTransaction
<1>3. CASE s \in InnerStart
  BY <1>3 DEF InInner
<1>4. CASE s \in Stop
  BY <1>4 DEF Out
<1>5. CASE s \in Yield
  <2>1. Again \subseteq Start
    BY DEF Again, Start, Then, Bodies
  <2> QED
    BY <1>5, <2>1
<1> QED
  BY <1>1, <1>2, <1>3, <1>4, <1>5, Zenon DEF InTransaction, Bodies

LEMMA FlowInner ==
    ASSUME NEW s \in InInner
    PROVE  /\ s # <<>>
           /\ \/ Head(s) = "change" /\ Tail(s) \in InInner
              \/ Head(s) = "stop" /\ Tail(s) \in InTransaction
BY Flow DEF Leads, InInner, InTransaction

LEMMA FlowWriteback ==
    ASSUME NEW s \in InWriteback
    PROVE  /\ s # <<>>
           /\ \/ /\ Head(s) \in {"allocate", "map_page", "write_page"}
                 /\ Tail(s) \in InWriteback
              \/ Head(s) = "end_writeback" /\ Tail(s) \in Out
BY Flow DEF Leads, InWriteback, Out

LEMMA FlowSync ==
    ASSUME NEW s \in InSync
    PROVE  /\ s # <<>>
           /\ \/ Head(s) = "sync_inodes" /\ Tail(s) \in TakeWl
              \/ Head(s) = "take_wl" /\ Tail(s) \in Commit
              \/ Head(s) = "start" /\ Tail(s) \in InEvict
              \/ Head(s) = "flush" /\ Tail(s) \in EvictAgain
              \/ Head(s) = "flushed" /\ Tail(s) \in InSync
BY Flow DEF Leads, InSync, InEvict

LEMMA FlowEvict ==
    ASSUME NEW s \in InEvict
    PROVE  /\ s # <<>>
           /\ \/ Head(s) \in {"lock_mutex", "truncate"} /\ Tail(s) \in InEvict
              \/ Head(s) = "yield" /\ s \in EvictYield /\ Tail(s) \in EvictAgain
              \/ Head(s) = "stop" /\ Tail(s) \in InSync
BY Flow DEF Leads, InEvict, InSync

LEMMA FlowCommit ==
    ASSUME NEW s \in Commit
    PROVE  s # <<>> /\ Head(s) = "commit" /\ Tail(s) \in Out
BY Flow DEF Leads, Out

\* Steps that open and close nothing.
Steady == {"flushed", "read_um", "take_um", "try_um", "unread_um", "inactive", "leave_um",
           "cancel", "put_super", "sync", "lock_page", "fill_page", "change", "lock_mutex",
           "truncate", "allocate", "map_page", "write_page", "sync_inodes"}

LEMMA SteadyHas ==
    ASSUME NEW t, NEW s, NEW n, NEW l, NEW m, Has(t, s, n, l, m),
           s # <<>>, Head(s) \in Steady
    PROVE  Has(t, Tail(s), n, l, m)
<1>1. CASE s \in Out /\ n = 0 /\ Nothing(l, t) /\ Nothing(m, t)
  <2>1. Tail(s) \in Out
    BY <1>1, FlowOut, Zenon DEF Steady
  <2> QED
    BY <1>1, <2>1, Zenon DEF Has
<1>2. CASE s \in InTransaction /\ n = 1 /\ Reads(l, t) /\ Nothing(m, t)
  <2>1. Tail(s) \in InTransaction
    BY <1>2, FlowTransaction, Zenon DEF Steady
  <2> QED
    BY <1>2, <2>1, Zenon DEF Has
<1>3. CASE s \in InInner /\ n = 2 /\ Reads(l, t) /\ Nothing(m, t)
  <2>1. Tail(s) \in InInner
    BY <1>3, FlowInner, Zenon DEF Steady
  <2> QED
    BY <1>3, <2>1, Zenon DEF Has
<1>4. CASE s \in InWriteback /\ n = 1 /\ Nothing(l, t) /\ Reads(m, t)
  <2>1. Tail(s) \in InWriteback
    BY <1>4, FlowWriteback, Zenon DEF Steady
  <2> QED
    BY <1>4, <2>1, Zenon DEF Has
<1>5. CASE s \in InSync /\ n = 1 /\ Writes(l, t) /\ Nothing(m, t)
  <2>1. Tail(s) \in InSync
    BY <1>5, FlowSync, Zenon DEF Steady, InSync
  <2> QED
    BY <1>5, <2>1, Zenon DEF Has
<1>6. CASE s \in InEvict /\ n = 2 /\ Writes(l, t) /\ Nothing(m, t)
  <2>1. Tail(s) \in InEvict
    BY <1>6, FlowEvict, Zenon DEF Steady
  <2> QED
    BY <1>6, <2>1, Zenon DEF Has
<1>7. s \notin Commit
  BY FlowCommit, Zenon DEF Steady
<1> QED
  BY <1>1, <1>2, <1>3, <1>4, <1>5, <1>6, <1>7, Zenon DEF Has

--------------------------------------------------------------------------------
(* Semaphores.                                                                  *)

\* Nothing changes of l for task x.
Same(l, k, x) == (x \in k.r <=> x \in l.r) /\ (k.w = x <=> l.w = x)

LEMMA ReadSem ==
    ASSUME NEW l, SemOK(l), NEW t \in Task, l.w = None
    PROVE  /\ SemOK(Read(l, t)) /\ Reads(Read(l, t), t)
           /\ \A x \in Task \ {t} : Same(l, Read(l, t), x)
BY DEF SemOK, Read, Reads, Same

LEMMA UnreadSem ==
    ASSUME NEW l, SemOK(l), NEW t \in Task, Reads(l, t)
    PROVE  /\ SemOK(Unread(l, t)) /\ Nothing(Unread(l, t), t)
           /\ \A x \in Task \ {t} : Same(l, Unread(l, t), x)
BY DEF SemOK, Unread, Reads, Nothing, Same

LEMMA WriteSem ==
    ASSUME NEW l, SemOK(l), NEW t \in Task, CanWrite(l)
    PROVE  /\ SemOK(Write(l, t)) /\ Writes(Write(l, t), t)
           /\ \A x \in Task \ {t} : Same(l, Write(l, t), x)
BY DEF SemOK, Write, CanWrite, Writes, Same

LEMMA UnwriteSem ==
    ASSUME NEW l, SemOK(l), NEW t \in Task, Writes(l, t)
    PROVE  /\ SemOK(Unwrite(l)) /\ Nothing(Unwrite(l), t)
           /\ \A x \in Task \ {t} : Same(l, Unwrite(l), x)
BY DEF SemOK, Unwrite, Nothing, Writes, Same

--------------------------------------------------------------------------------
(* The steps.                                                                   *)

\* Task x goes on with what it has, except that the end of the delayed commit may
\* wake it.
Rests(x) ==
    /\ \/ pc'[x] = pc[x]
       \/ ~Idle(x) /\ Head(pc[x]) = "flushed" /\ pc'[x] = Tail(pc[x])
    /\ count'[x] = count[x]
    /\ Same(tl, tl', x) /\ Same(wl, wl', x)

LEMMA RestsHas ==
    ASSUME NEW x \in Task, Has(x, pc[x], count[x], tl, wl), Rests(x)
    PROVE  Has(x, pc'[x], count'[x], tl', wl')
<1>1. Has(x, pc'[x], count[x], tl, wl)
  BY SteadyHas, Zenon DEF Rests, Idle, Steady
<1>2. /\ Nothing(tl, x) => Nothing(tl', x)
      /\ Reads(tl, x) => Reads(tl', x)
      /\ Writes(tl, x) => Writes(tl', x)
  BY Zenon DEF Rests, Same, Nothing, Reads, Writes
<1>3. /\ Nothing(wl, x) => Nothing(wl', x)
      /\ Reads(wl, x) => Reads(wl', x)
      /\ Writes(wl, x) => Writes(wl', x)
  BY Zenon DEF Rests, Same, Nothing, Reads, Writes
<1>4. count'[x] = count[x]
  BY Zenon DEF Rests
<1> QED
  BY <1>1, <1>2, <1>3, <1>4, Zenon DEF Has

\* A step of task t, which goes on with s.
LEMMA TaskStep ==
    ASSUME LockInv, NEW t \in Task, NEW s, Goto(t, s), DOMAIN count' = Task,
           SemOK(tl'), SemOK(wl'),
           \A x \in Task \ {t} : count'[x] = count[x] /\ Same(tl, tl', x) /\ Same(wl, wl', x),
           Has(t, s, count'[t], tl', wl')
    PROVE  LockInv'
<1>1. DOMAIN pc' = Task /\ pc'[t] = s
  BY DEF Goto
<1>2. ASSUME NEW x \in Task \ {t} PROVE Rests(x)
  BY <1>2 DEF Goto, Rests, At, Idle
<1>3. ASSUME NEW x \in Task PROVE Has(x, pc'[x], count'[x], tl', wl')
  <2>1. CASE x = t
    BY <1>1, <2>1, Zenon
  <2>2. CASE x # t
    BY <1>2, <2>2, RestsHas, Zenon DEF LockInv
  <2> QED
    BY <2>1, <2>2
<1> QED
  BY <1>1, <1>3, Zenon DEF LockInv

\* A task goes on and has what it had.
LEMMA GoesOn ==
    ASSUME LockInv, NEW t \in Task, NEW s, Goto(t, s), tl' = tl, wl' = wl, count' = count,
           Has(t, s, count[t], tl, wl)
    PROVE  LockInv'
<1>1. \A x \in Task : Same(tl, tl', x) /\ Same(wl, wl', x)
  BY Zenon DEF Same
<1>2. SemOK(tl') /\ SemOK(wl') /\ DOMAIN count' = Task
  BY Zenon DEF LockInv
<1>3. Has(t, s, count'[t], tl', wl')
  BY Zenon
<1> QED
  BY <1>1, <1>2, <1>3, TaskStep, Zenon

LEMMA SteadyStep ==
    ASSUME LockInv, NEW t \in Task, NEW step \in Steady, At(t, step), Next_(t),
           tl' = tl, wl' = wl, count' = count
    PROVE  LockInv'
<1>1. Has(t, Tail(pc[t]), count[t], tl, wl)
  BY SteadyHas, Zenon DEF At, Idle, LockInv
<1> QED
  BY <1>1, GoesOn, Zenon DEF Next_

LEMMA SteadySteps ==
    ASSUME LockInv, NEW t \in Task,
           \/ change_metadata(t) \/ lock_page(t) \/ fill_page(t) \/ lock_mutex(t)
           \/ truncate_blocks(t) \/ allocate_space(t) \/ writeback_iter(t)
           \/ mpage_writepage(t) \/ sync_inodes_sb(t) \/ read_um(t) \/ unread_um(t)
           \/ take_um(t) \/ leave_um(t) \/ inactive(t) \/ cancel(t) \/ put_super(t)
    PROVE  LockInv'
<1>1. ASSUME NEW step \in Steady, At(t, step), Next_(t), UNCHANGED <<tl, wl, count>>
      PROVE  LockInv'
  BY <1>1, SteadyStep
<1> USE DEF locks
<1>2. CASE change_metadata(t) \/ lock_page(t) \/ fill_page(t) \/ lock_mutex(t)
  BY <1>1, <1>2, Zenon DEF change_metadata, lock_page, fill_page, lock_mutex, Steady
<1>3. CASE truncate_blocks(t) \/ allocate_space(t) \/ writeback_iter(t) \/ mpage_writepage(t)
  BY <1>1, <1>3, Zenon DEF truncate_blocks, allocate_space, writeback_iter, mpage_writepage,
                           Steady
<1>4. CASE sync_inodes_sb(t) \/ read_um(t) \/ unread_um(t) \/ take_um(t)
  BY <1>1, <1>4, Zenon DEF sync_inodes_sb, read_um, unread_um, take_um, Steady
<1>5. CASE leave_um(t) \/ inactive(t) \/ cancel(t) \/ put_super(t)
  BY <1>1, <1>5, Zenon DEF leave_um, inactive, cancel, put_super, Steady
<1> QED
  BY <1>2, <1>3, <1>4, <1>5

\* A task that is at a step has what the step needs.
LEMMA AtStart ==
    ASSUME LockInv, NEW t \in Task, At(t, "start")
    PROVE  \/ /\ Tail(pc[t]) \in Bodies /\ count[t] = 0
              /\ Nothing(tl, t) /\ Nothing(wl, t)
           \/ /\ Tail(pc[t]) \in InInner /\ count[t] = 1
              /\ Reads(tl, t) /\ Nothing(wl, t)
           \/ /\ Tail(pc[t]) \in InEvict /\ count[t] = 1
              /\ Writes(tl, t) /\ Nothing(wl, t)
<1>1. pc[t] # <<>> /\ Head(pc[t]) = "start" /\ Has(t, pc[t], count[t], tl, wl)
  BY Zenon DEF At, Idle, LockInv
<1> QED
  BY <1>1, FlowOut, FlowTransaction, FlowInner, FlowWriteback, FlowSync, FlowEvict, FlowCommit
     DEF Has

LEMMA AtStop ==
    ASSUME LockInv, NEW t \in Task, At(t, "stop")
    PROVE  \/ /\ Tail(pc[t]) \in Out /\ count[t] = 1
              /\ Reads(tl, t) /\ Nothing(wl, t)
           \/ /\ Tail(pc[t]) \in InTransaction /\ count[t] = 2
              /\ Reads(tl, t) /\ Nothing(wl, t)
           \/ /\ Tail(pc[t]) \in InSync /\ count[t] = 2
              /\ Writes(tl, t) /\ Nothing(wl, t)
<1>1. pc[t] # <<>> /\ Head(pc[t]) = "stop" /\ Has(t, pc[t], count[t], tl, wl)
  BY Zenon DEF At, Idle, LockInv
<1> QED
  BY <1>1, FlowOut, FlowTransaction, FlowInner, FlowWriteback, FlowSync, FlowEvict, FlowCommit
     DEF Has

LEMMA AtOut ==
    ASSUME LockInv, NEW t \in Task, NEW step \in {"begin", "writeback", "take_tl", "sync", "try_um"},
           At(t, step)
    PROVE  /\ pc[t] \in Out /\ pc[t] # <<>> /\ Head(pc[t]) = step
           /\ count[t] = 0 /\ Nothing(tl, t) /\ Nothing(wl, t)
<1>1. pc[t] # <<>> /\ Head(pc[t]) = step /\ Has(t, pc[t], count[t], tl, wl)
  BY Zenon DEF At, Idle, LockInv
<1> QED
  BY <1>1, FlowTransaction, FlowInner, FlowWriteback, FlowSync, FlowEvict, FlowCommit DEF Has

LEMMA AtFlush ==
    ASSUME LockInv, NEW t \in Task, At(t, "flush")
    PROVE  \/ /\ Tail(pc[t]) \in Begin \cup Start /\ count[t] = 0
              /\ Nothing(tl, t) /\ Nothing(wl, t)
           \/ /\ Tail(pc[t]) \in EvictAgain /\ count[t] = 1
              /\ Writes(tl, t) /\ Nothing(wl, t)
<1>1. pc[t] # <<>> /\ Head(pc[t]) = "flush" /\ Has(t, pc[t], count[t], tl, wl)
  BY Zenon DEF At, Idle, LockInv
<1> QED
  BY <1>1, FlowOut, FlowTransaction, FlowInner, FlowWriteback, FlowSync, FlowEvict, FlowCommit
     DEF Has

LEMMA AtYield ==
    ASSUME LockInv, NEW t \in Task, At(t, "yield")
    PROVE  \/ /\ pc[t] \in Yield /\ Tail(pc[t]) \in Start /\ count[t] = 1
              /\ Reads(tl, t) /\ Nothing(wl, t)
           \/ /\ pc[t] \in EvictYield /\ Tail(pc[t]) \in EvictAgain /\ count[t] = 2
              /\ Writes(tl, t) /\ Nothing(wl, t)
<1>1. pc[t] # <<>> /\ Head(pc[t]) = "yield" /\ Has(t, pc[t], count[t], tl, wl)
  BY Zenon DEF At, Idle, LockInv
<1> QED
  BY <1>1, FlowOut, FlowTransaction, FlowInner, FlowWriteback, FlowSync, FlowEvict, FlowCommit
     DEF Has

LEMMA AtEndWriteback ==
    ASSUME LockInv, NEW t \in Task, At(t, "end_writeback")
    PROVE  Tail(pc[t]) \in Out /\ count[t] = 1 /\ Nothing(tl, t) /\ Reads(wl, t)
<1>1. pc[t] # <<>> /\ Head(pc[t]) = "end_writeback" /\ Has(t, pc[t], count[t], tl, wl)
  BY Zenon DEF At, Idle, LockInv
<1> QED
  BY <1>1, FlowOut, FlowTransaction, FlowInner, FlowWriteback, FlowSync, FlowEvict, FlowCommit
     DEF Has

LEMMA AtSync ==
    ASSUME LockInv, NEW t \in Task, NEW step \in {"sync_inodes", "take_wl"}, At(t, step)
    PROVE  /\ count[t] = 1 /\ Writes(tl, t) /\ Nothing(wl, t)
           /\ step = "sync_inodes" => Tail(pc[t]) \in TakeWl
           /\ step = "take_wl" => Tail(pc[t]) \in Commit
<1>1. pc[t] # <<>> /\ Head(pc[t]) = step /\ Has(t, pc[t], count[t], tl, wl)
  BY Zenon DEF At, Idle, LockInv
<1> QED
  BY <1>1, FlowOut, FlowTransaction, FlowInner, FlowWriteback, FlowSync, FlowEvict, FlowCommit
     DEF Has

LEMMA AtCommit ==
    ASSUME LockInv, NEW t \in Task, At(t, "commit")
    PROVE  Tail(pc[t]) \in Out /\ count[t] = 1 /\ Writes(tl, t) /\ Writes(wl, t)
<1>1. pc[t] # <<>> /\ Head(pc[t]) = "commit" /\ Has(t, pc[t], count[t], tl, wl)
  BY Zenon DEF At, Idle, LockInv
<1> QED
  BY <1>1, FlowOut, FlowTransaction, FlowInner, FlowWriteback, FlowSync, FlowEvict, FlowCommit
     DEF Has

\* A task goes on with other locks.
LEMMA Relocks ==
    ASSUME LockInv, NEW t \in Task, NEW s, Goto(t, s), NEW n, count' = [count EXCEPT ![t] = n],
           SemOK(tl'), \A x \in Task \ {t} : Same(tl, tl', x),
           SemOK(wl'), \A x \in Task \ {t} : Same(wl, wl', x),
           Has(t, s, n, tl', wl')
    PROVE  LockInv'
<1>1. /\ DOMAIN count' = Task /\ count'[t] = n
      /\ \A x \in Task \ {t} : count'[x] = count[x]
  BY DEF LockInv
<1> QED
  BY <1>1, TaskStep, Zenon

LEMMA Keeps ==
    ASSUME LockInv, NEW l, NEW k, l = tl \/ l = wl, k = l
    PROVE  SemOK(k) /\ \A x \in Task : Same(l, k, x)
BY Zenon DEF LockInv, Same

\* vdfs4_start_transaction.
LEMMA StartTransaction ==
    ASSUME LockInv, NEW t \in Task, start_transaction(t)
    PROVE  LockInv'
<1> DEFINE s == Tail(pc[t])
<1>1. At(t, "start") /\ wl' = wl
  BY DEF start_transaction
<1>2. SemOK(wl') /\ \A x \in Task : Same(wl, wl', x)
  BY <1>1, Keeps, Zenon
<1>3. CASE s \in Bodies /\ count[t] = 0 /\ Nothing(tl, t) /\ Nothing(wl, t)
  <2>1. CASE is_commit_required
    <3>1. Goto(t, <<"flush", "begin">> \o s) /\ tl' = tl /\ count' = count
      BY <1>3, <2>1 DEF start_transaction
    <3>2. <<"flush", "begin">> \o s = <<"flush">> \o (<<"begin">> \o s)
      <4>1. s \in Seq(Steps)
        BY <1>3, Flow, Zenon DEF Rest
      <4> HIDE DEF s
      <4> QED
        BY <4>1
    <3>3. <<"begin">> \o s \in Begin
      BY <1>3, ThenIn, Zenon DEF Begin
    <3>4. <<"flush">> \o (<<"begin">> \o s) \in Flush
      BY <3>3, ThenIn, Zenon DEF Flush
    <3>5. Has(t, <<"flush", "begin">> \o s, count[t], tl, wl)
      BY <1>3, <3>2, <3>4, Zenon DEF Has, Out
    <3> QED
      BY <1>1, <3>1, <3>5, GoesOn, Zenon
  <2>2. CASE ~is_commit_required
    <3>1. tl.w = None /\ tl' = Read(tl, t) /\ Goto(t, s) /\ count' = [count EXCEPT ![t] = 1]
      BY <1>3, <2>2 DEF start_transaction, CanRead, Next_
    <3>2. SemOK(tl') /\ Reads(tl', t) /\ \A x \in Task \ {t} : Same(tl, tl', x)
      BY <3>1, ReadSem, Zenon DEF LockInv
    <3>3. Has(t, s, 1, tl', wl')
      BY <1>1, <1>3, <3>2, Zenon DEF Has, InTransaction
    <3> QED
      BY <1>2, <3>1, <3>2, <3>3, Relocks, Zenon
  <2> QED
    BY <2>1, <2>2
<1>4. CASE \/ s \in InInner /\ count[t] = 1 /\ Reads(tl, t) /\ Nothing(wl, t)
           \/ s \in InEvict /\ count[t] = 1 /\ Writes(tl, t) /\ Nothing(wl, t)
  <2>0. count[t] = 1
    BY <1>4, Zenon
  <2>1. Goto(t, s) /\ tl' = tl /\ count' = [count EXCEPT ![t] = 2]
    BY <2>0 DEF start_transaction, Next_
  <2>2. SemOK(tl') /\ \A x \in Task : Same(tl, tl', x)
    BY <2>1, Keeps, Zenon
  <2>3. Has(t, s, 2, tl', wl')
    BY <1>1, <1>4, <2>1, Zenon DEF Has
  <2> QED
    BY <1>2, <2>1, <2>2, <2>3, Relocks, Zenon
<1> QED
  BY <1>1, <1>3, <1>4, AtStart, Zenon

\* Once the commit has run.
LEMMA BeginTransaction ==
    ASSUME LockInv, NEW t \in Task, begin(t)
    PROVE  LockInv'
<1> DEFINE s == Tail(pc[t])
<1>1. At(t, "begin") /\ tl.w = None /\ tl' = Read(tl, t) /\ wl' = wl /\ Goto(t, s)
  BY DEF begin, CanRead, Next_
<1>2. pc[t] \in Out /\ pc[t] # <<>> /\ Head(pc[t]) = "begin" /\ count[t] = 0 /\ Nothing(wl, t)
  BY <1>1, AtOut, Zenon
<1>3. s \in Bodies
  BY <1>2, FlowOut
<1>4. count' = [count EXCEPT ![t] = 1]
  BY <1>2 DEF begin
<1>5. SemOK(tl') /\ Reads(tl', t) /\ \A x \in Task \ {t} : Same(tl, tl', x)
  BY <1>1, ReadSem, Zenon DEF LockInv
<1>6. SemOK(wl') /\ \A x \in Task : Same(wl, wl', x)
  BY <1>1, Keeps, Zenon
<1>7. Has(t, s, 1, tl', wl')
  BY <1>1, <1>2, <1>3, <1>5, Zenon DEF Has, InTransaction
<1> QED
  BY <1>1, <1>4, <1>5, <1>6, <1>7, Relocks, Zenon

\* vdfs4_stop_transaction.
LEMMA StopTransaction ==
    ASSUME LockInv, NEW t \in Task, stop_transaction(t)
    PROVE  LockInv'
<1> DEFINE s == Tail(pc[t])
<1>1. /\ At(t, "stop") /\ wl' = wl /\ Goto(t, s)
      /\ tl' = IF count[t] = 1 THEN Unread(tl, t) ELSE tl
      /\ count' = [count EXCEPT ![t] = @ - 1]
  BY DEF stop_transaction, Next_
<1>2. SemOK(wl') /\ \A x \in Task : Same(wl, wl', x)
  BY <1>1, Keeps, Zenon
<1>3. CASE s \in Out /\ count[t] = 1 /\ Reads(tl, t) /\ Nothing(wl, t)
  <2>1. tl' = Unread(tl, t) /\ count' = [count EXCEPT ![t] = 0]
    BY <1>1, <1>3
  <2>2. SemOK(tl') /\ Nothing(tl', t) /\ \A x \in Task \ {t} : Same(tl, tl', x)
    BY <1>3, <2>1, UnreadSem, Zenon DEF LockInv
  <2>3. Has(t, s, 0, tl', wl')
    BY <1>1, <1>3, <2>2, Zenon DEF Has
  <2> QED
    BY <1>1, <1>2, <2>1, <2>2, <2>3, Relocks, Zenon
<1>4. CASE \/ s \in InTransaction /\ count[t] = 2 /\ Reads(tl, t) /\ Nothing(wl, t)
           \/ s \in InSync /\ count[t] = 2 /\ Writes(tl, t) /\ Nothing(wl, t)
  <2>0. count[t] = 2
    BY <1>4, Zenon
  <2>1. tl' = tl /\ count' = [count EXCEPT ![t] = 1]
    BY <1>1, <2>0
  <2>2. SemOK(tl') /\ \A x \in Task : Same(tl, tl', x)
    BY <2>1, Keeps, Zenon
  <2>3. Has(t, s, 1, tl', wl')
    BY <1>1, <1>4, <2>1, Zenon DEF Has
  <2> QED
    BY <1>1, <1>2, <2>1, <2>2, <2>3, Relocks, Zenon
<1> QED
  BY <1>1, <1>3, <1>4, AtStop, Zenon

\* The rest of a call from one of its next steps on.
LEMMA Skip ==
    ASSUME NEW X, NEW s \in Seq(X), s # <<>>, NEW n \in Nat \ {0}, NEW m, m = n + 1
    PROVE  SubSeq(s, m, Len(s)) = SubSeq(Tail(s), n, Len(Tail(s)))
<1>1. Len(s) \in Nat /\ Len(s) # 0 /\ Tail(s) \in Seq(X) /\ Len(Tail(s)) = Len(s) - 1
  OBVIOUS
<1>2. \A i \in 1..(Len(s) - 1) : Tail(s)[i] = s[i + 1]
  OBVIOUS
<1>3. SubSeq(s, m, Len(s)) \in Seq(X) /\ SubSeq(Tail(s), n, Len(Tail(s))) \in Seq(X)
  BY <1>1
<1>4. Len(SubSeq(s, m, Len(s))) = Len(SubSeq(Tail(s), n, Len(Tail(s))))
  BY <1>1
<1>5. \A i \in 1..Len(SubSeq(s, m, Len(s))) :
         SubSeq(s, m, Len(s))[i] = SubSeq(Tail(s), n, Len(Tail(s)))[i]
  BY <1>1, <1>2
<1> QED
  BY <1>3, <1>4, <1>5

\* From the n-th step on, a rest in S is one in U.
Skips(S, n, U) == \A s \in S : SubSeq(s, n, Len(s)) \in U

LEMMA SkipNone ==
    ASSUME NEW S, Rest(S)
    PROVE  Skips(S, 1, S)
<1>1. ASSUME NEW z \in S PROVE SubSeq(z, 1, Len(z)) = z
  <2>1. z \in Seq(Steps)
    BY Zenon DEF Rest
  <2>2. Len(z) \in Nat /\ SubSeq(z, 1, Len(z)) \in Seq(Steps) /\ Len(SubSeq(z, 1, Len(z))) = Len(z)
    BY <2>1
  <2>3. \A i \in 1..Len(z) : SubSeq(z, 1, Len(z))[i] = z[i]
    BY <2>1, <2>2
  <2> QED
    BY <2>1, <2>2, <2>3
<1> QED
  BY <1>1, Zenon DEF Skips

LEMMA SkipStep ==
    ASSUME NEW U, NEW S, Rest(S), NEW h, NEW T, Leads(S, h, T), NEW n \in Nat \ {0},
           Skips(T, n, U), NEW m, m = n + 1
    PROVE  Skips(S, m, U)
<1>1. ASSUME NEW s \in S PROVE SubSeq(s, m, Len(s)) \in U
  <2>1. s \in Seq(Steps) /\ s # <<>> /\ Tail(s) \in T
    BY Zenon DEF Rest, Leads
  <2>2. SubSeq(s, m, Len(s)) = SubSeq(Tail(s), n, Len(Tail(s)))
    BY <2>1, Skip, Zenon
  <2> QED
    BY <2>1, <2>2, Zenon DEF Skips
<1> QED
  BY <1>1, Zenon DEF Skips

LEMMA SkipThree ==
    ASSUME NEW U, Rest(U), NEW S, Rest(S), NEW h, Leads(S, h, U),
           NEW T, Rest(T), NEW i, Leads(T, i, S), NEW W, Rest(W), NEW j, Leads(W, j, T)
    PROVE  Skips(T, 3, U) /\ Skips(W, 4, U)
<1>1. /\ 1 \in Nat \ {0} /\ 2 \in Nat \ {0} /\ 3 \in Nat \ {0}
      /\ 2 = 1 + 1 /\ 3 = 2 + 1 /\ 4 = 3 + 1
  OBVIOUS
<1>2. Skips(S, 2, U)
  BY <1>1, SkipNone, SkipStep, Zenon
<1>3. Skips(T, 3, U)
  BY <1>1, <1>2, SkipStep, Zenon
<1>4. Skips(W, 4, U)
  BY <1>1, <1>3, SkipStep, Zenon
<1> QED
  BY <1>3, <1>4

\* truncate_exttree gives way to a commit, or only lowers the count.
LEMMA TruncateYields ==
    ASSUME LockInv, NEW t \in Task, truncate_yields(t)
    PROVE  LockInv'
<1> DEFINE s == <<"flush">> \o Tail(pc[t])
<1>1. At(t, "yield") /\ wl' = wl /\ Goto(t, s)
  BY DEF truncate_yields
<1>2. SemOK(wl') /\ \A x \in Task : Same(wl, wl', x)
  BY <1>1, Keeps, Zenon
<1>3. CASE Tail(pc[t]) \in Start /\ count[t] = 1 /\ Reads(tl, t) /\ Nothing(wl, t)
  <2>1. tl' = Unread(tl, t) /\ count' = [count EXCEPT ![t] = 0]
    BY <1>3 DEF truncate_yields
  <2>2. s \in Flush
    BY <1>3, ThenIn, Zenon DEF Flush
  <2>3. SemOK(tl') /\ Nothing(tl', t) /\ \A x \in Task \ {t} : Same(tl, tl', x)
    BY <1>3, <2>1, UnreadSem, Zenon DEF LockInv
  <2>4. Has(t, s, 0, tl', wl')
    BY <1>1, <1>3, <2>2, <2>3, Zenon DEF Has, Out
  <2> QED
    BY <1>1, <1>2, <2>1, <2>3, <2>4, Relocks, Zenon
<1>4. CASE Tail(pc[t]) \in EvictAgain /\ count[t] = 2 /\ Writes(tl, t) /\ Nothing(wl, t)
  <2>1. tl' = tl /\ count' = [count EXCEPT ![t] = 1]
    BY <1>4 DEF truncate_yields
  <2>2. s \in EvictFlush
    BY <1>4, ThenIn, Zenon DEF EvictFlush
  <2>3. SemOK(tl') /\ \A x \in Task : Same(tl, tl', x)
    BY <2>1, Keeps, Zenon
  <2>4. Has(t, s, 1, tl', wl')
    BY <1>1, <1>4, <2>1, <2>2, Zenon DEF Has, InSync
  <2> QED
    BY <1>1, <1>2, <2>1, <2>3, <2>4, Relocks, Zenon
<1> QED
  BY <1>1, <1>3, <1>4, AtYield, Zenon

LEMMA TruncateGoesOn ==
    ASSUME LockInv, NEW t \in Task, truncate_goes_on(t)
    PROVE  LockInv'
<1> DEFINE s == SubSeq(pc[t], 4, Len(pc[t]))
<1>1. At(t, "yield") /\ Goto(t, s) /\ tl' = tl /\ wl' = wl /\ count' = count
  BY DEF truncate_goes_on, locks
<1>2. Skips(Yield, 4, Truncate)
  BY Flow, SkipThree, Zenon
<1>3. Skips(EvictYield, 4, EvictTruncate)
  BY Flow, SkipThree, Zenon
<1>4. ASSUME pc[t] \in Yield, count[t] = 1, Reads(tl, t), Nothing(wl, t)
      PROVE  Has(t, s, count[t], tl, wl)
  BY <1>2, <1>4, Zenon DEF Has, InTransaction, Skips
<1>5. ASSUME pc[t] \in EvictYield, count[t] = 2, Writes(tl, t), Nothing(wl, t)
      PROVE  Has(t, s, count[t], tl, wl)
  BY <1>3, <1>5, Zenon DEF Has, InEvict, Skips
<1>6. Has(t, s, count[t], tl, wl)
  BY <1>1, <1>4, <1>5, AtYield, Zenon
<1> QED
  BY <1>1, <1>6, GoesOn, Zenon

\* vdfs4_writepages.
LEMMA StartWriteback ==
    ASSUME LockInv, NEW t \in Task, start_writeback(t)
    PROVE  LockInv'
<1> DEFINE s == Tail(pc[t])
<1>1. At(t, "writeback") /\ tl' = tl /\ Goto(t, s)
  BY DEF start_writeback, Next_
<1>2. pc[t] \in Out /\ pc[t] # <<>> /\ Head(pc[t]) = "writeback" /\ count[t] = 0 /\ Nothing(tl, t)
  BY <1>1, AtOut, Zenon
<1>3. s \in Allocate
  BY <1>2, FlowOut
<1>4. wl.w = None /\ wl' = Read(wl, t) /\ count' = [count EXCEPT ![t] = 1]
  BY <1>2 DEF start_writeback, CanRead
<1>5. SemOK(wl') /\ Reads(wl', t) /\ \A x \in Task \ {t} : Same(wl, wl', x)
  BY <1>4, ReadSem, Zenon DEF LockInv
<1>6. SemOK(tl') /\ \A x \in Task : Same(tl, tl', x)
  BY <1>1, Keeps, Zenon
<1>7. Has(t, s, 1, tl', wl')
  BY <1>1, <1>2, <1>3, <1>5, Zenon DEF Has, InWriteback
<1> QED
  BY <1>1, <1>4, <1>5, <1>6, <1>7, Relocks, Zenon

LEMMA StopWriteback ==
    ASSUME LockInv, NEW t \in Task, stop_writeback(t)
    PROVE  LockInv'
<1> DEFINE s == Tail(pc[t])
<1>1. At(t, "end_writeback") /\ tl' = tl /\ Goto(t, s)
  BY DEF stop_writeback, Next_
<1>2. s \in Out /\ count[t] = 1 /\ Nothing(tl, t) /\ Reads(wl, t)
  BY <1>1, AtEndWriteback, Zenon
<1>3. wl' = Unread(wl, t) /\ count' = [count EXCEPT ![t] = 0]
  BY <1>2 DEF stop_writeback
<1>4. SemOK(wl') /\ Nothing(wl', t) /\ \A x \in Task \ {t} : Same(wl, wl', x)
  BY <1>2, <1>3, UnreadSem, Zenon DEF LockInv
<1>5. SemOK(tl') /\ \A x \in Task : Same(tl, tl', x)
  BY <1>1, Keeps, Zenon
<1>6. Has(t, s, 0, tl', wl')
  BY <1>1, <1>2, <1>4, Zenon DEF Has
<1> QED
  BY <1>1, <1>3, <1>4, <1>5, <1>6, Relocks, Zenon

\* sync_filesystem, which skips vdfs4_sync_fs on a read-only volume.
LEMMA SkipAll ==
    ASSUME NEW s \in Sync
    PROVE  SubSeq(s, Len(sync_fs) + 1, Len(s)) \in AfterSync
<1>1. Len(sync_fs) + 1 = 6
  BY DEF sync_fs
<1>2. Skips(SyncInodes, 4, AfterSync)
  BY Flow, SkipThree, Zenon
<1>3. Skips(TakeTl, 5, AfterSync)
  <2>1. 4 \in Nat \ {0} /\ 5 = 4 + 1
    OBVIOUS
  <2> QED
    BY <1>2, <2>1, Flow, SkipStep, Zenon
<1>4. Skips(Sync, 6, AfterSync)
  <2>1. 5 \in Nat \ {0} /\ 6 = 5 + 1
    OBVIOUS
  <2> QED
    BY <1>3, <2>1, Flow, SkipStep, Zenon
<1> QED
  BY <1>1, <1>4, Zenon DEF Skips

LEMMA SyncFilesystem ==
    ASSUME LockInv, NEW t \in Task, sync_filesystem(t)
    PROVE  LockInv'
<1>1. At(t, "sync") /\ tl' = tl /\ wl' = wl /\ count' = count
  BY DEF sync_filesystem, locks
<1>2. CASE rdonly
  <2>1. Goto(t, SubSeq(pc[t], Len(sync_fs) + 1, Len(pc[t])))
    BY <1>2, Zenon DEF sync_filesystem
  <2>2. /\ pc[t] \in Out /\ pc[t] # <<>> /\ Head(pc[t]) = "sync" /\ count[t] = 0
        /\ Nothing(tl, t) /\ Nothing(wl, t)
    BY <1>1, AtOut, Zenon
  <2>3. pc[t] \in Sync
    BY <2>2, FlowOut
  <2>4. SubSeq(pc[t], Len(sync_fs) + 1, Len(pc[t])) \in Out
    BY <2>3, SkipAll, Zenon DEF Out
  <2>5. Has(t, SubSeq(pc[t], Len(sync_fs) + 1, Len(pc[t])), count[t], tl, wl)
    BY <2>2, <2>4, Zenon DEF Has
  <2> QED
    BY <1>1, <2>1, <2>5, GoesOn, Zenon
<1>3. CASE ~rdonly
  <2>1. Next_(t)
    BY <1>3, Zenon DEF sync_filesystem, Next_
  <2> QED
    BY <1>1, <2>1, SteadyStep, Zenon DEF Steady
<1> QED
  BY <1>2, <1>3

\* vdfs4_sync_fs.
LEMMA TakeTransactionLock ==
    ASSUME LockInv, NEW t \in Task, take_tl(t)
    PROVE  LockInv'
<1> DEFINE s == Tail(pc[t])
<1>1. At(t, "take_tl") /\ CanWrite(tl) /\ tl' = Write(tl, t) /\ wl' = wl /\ Goto(t, s)
  BY DEF take_tl, Next_
<1>2. /\ pc[t] \in Out /\ pc[t] # <<>> /\ Head(pc[t]) = "take_tl" /\ count[t] = 0
      /\ Nothing(wl, t)
  BY <1>1, AtOut, Zenon
<1>3. s \in SyncInodes
  BY <1>2, FlowOut
<1>4. count' = [count EXCEPT ![t] = 1]
  BY <1>2 DEF take_tl
<1>5. SemOK(tl') /\ Writes(tl', t) /\ \A x \in Task \ {t} : Same(tl, tl', x)
  BY <1>1, WriteSem, Zenon DEF LockInv
<1>6. SemOK(wl') /\ \A x \in Task : Same(wl, wl', x)
  BY <1>1, Keeps, Zenon
<1>7. Has(t, s, 1, tl', wl')
  BY <1>1, <1>2, <1>3, <1>5, Zenon DEF Has, InSync
<1> QED
  BY <1>1, <1>4, <1>5, <1>6, <1>7, Relocks, Zenon

LEMMA TakeWritebackLock ==
    ASSUME LockInv, NEW t \in Task, take_wl(t)
    PROVE  LockInv'
<1> DEFINE s == Tail(pc[t])
<1>1. /\ At(t, "take_wl") /\ CanWrite(wl) /\ wl' = Write(wl, t) /\ tl' = tl /\ Goto(t, s)
      /\ count' = count
  BY DEF take_wl, Next_
<1>2. s \in Commit /\ count[t] = 1 /\ Writes(tl, t)
  BY <1>1, AtSync, Zenon
<1>3. SemOK(wl') /\ Writes(wl', t) /\ \A x \in Task \ {t} : Same(wl, wl', x)
  BY <1>1, WriteSem, Zenon DEF LockInv
<1>4. SemOK(tl') /\ \A x \in Task : Same(tl, tl', x)
  BY <1>1, Keeps, Zenon
<1>5. Has(t, s, count'[t], tl', wl')
  BY <1>1, <1>2, <1>3, Zenon DEF Has
<1>6. DOMAIN count' = Task /\ \A x \in Task : count'[x] = count[x]
  BY <1>1, Zenon DEF LockInv
<1> QED
  BY <1>1, <1>3, <1>4, <1>5, <1>6, TaskStep, Zenon

LEMMA SyncEnd ==
    ASSUME LockInv, NEW t \in Task, sync_end(t)
    PROVE  LockInv'
<1> DEFINE s == Tail(pc[t])
<1>1. At(t, "commit") /\ tl' = Unwrite(tl) /\ wl' = Unwrite(wl) /\ Goto(t, s)
  BY DEF sync_end, Next_
<1>2. s \in Out /\ count[t] = 1 /\ Writes(tl, t) /\ Writes(wl, t)
  BY <1>1, AtCommit, Zenon
<1>3. count' = [count EXCEPT ![t] = 0]
  BY <1>2 DEF sync_end
<1>4. SemOK(tl') /\ Nothing(tl', t) /\ \A x \in Task \ {t} : Same(tl, tl', x)
  BY <1>1, <1>2, UnwriteSem, Zenon DEF LockInv
<1>5. SemOK(wl') /\ Nothing(wl', t) /\ \A x \in Task \ {t} : Same(wl, wl', x)
  BY <1>1, <1>2, UnwriteSem, Zenon DEF LockInv
<1>6. Has(t, s, 0, tl', wl')
  BY <1>2, <1>4, <1>5, Zenon DEF Has
<1> QED
  BY <1>1, <1>3, <1>4, <1>5, <1>6, Relocks, Zenon

\* sync_inodes_sb evicts an inode.
LEMMA EvictStarts ==
    ASSUME NEW s \in TakeWl
    PROVE  truncate \o s \in EvictStart
<1>1. s \in Seq(Steps)
  BY Flow, Zenon DEF Rest
<1> DEFINE a == <<"stop">> \o s
           b == <<"truncate">> \o a
           c == <<"lock_mutex">> \o b
           d == <<"start">> \o c
           e == <<"yield">> \o d
           f == <<"lock_mutex">> \o e
           g == <<"start">> \o f
<1>2. a \in EvictStop
  BY ThenIn, Zenon DEF EvictStop
<1>3. b \in EvictTruncate
  BY <1>2, ThenIn, Zenon DEF EvictTruncate
<1>4. c \in EvictMutex
  BY <1>3, ThenIn, Zenon DEF EvictMutex
<1>5. d \in EvictAgain
  BY <1>4, ThenIn, Zenon DEF EvictAgain
<1>6. e \in EvictYield
  BY <1>5, ThenIn, Zenon DEF EvictYield
<1>7. f \in EvictFirst
  BY <1>6, ThenIn, Zenon DEF EvictFirst
<1>8. g \in EvictStart
  BY <1>7, ThenIn, Zenon DEF EvictStart
<1>9. truncate \o s = g
  BY <1>1 DEF truncate
<1> QED
  BY <1>8, <1>9, Zenon

LEMMA SyncEvicts ==
    ASSUME LockInv, NEW t \in Task, sync_evicts(t)
    PROVE  LockInv'
<1> DEFINE s == Tail(pc[t])
<1>1. /\ At(t, "sync_inodes") /\ Goto(t, truncate \o s)
      /\ tl' = tl /\ wl' = wl /\ count' = count
  BY DEF sync_evicts, locks
<1>2. s \in TakeWl /\ count[t] = 1 /\ Writes(tl, t) /\ Nothing(wl, t)
  BY <1>1, AtSync, Zenon
<1>3. Has(t, truncate \o s, count[t], tl, wl)
  BY <1>2, EvictStarts, Zenon DEF Has, InSync
<1> QED
  BY <1>1, <1>3, GoesOn, Zenon

--------------------------------------------------------------------------------
(* Calls.                                                                       *)

LEMMA Assoc ==
    ASSUME NEW X, NEW a \in Seq(X), NEW b \in Seq(X), NEW c \in Seq(X)
    PROVE  (a \o b) \o c = a \o (b \o c)
OBVIOUS

LEMMA Ends ==
    /\ <<"stop">> \in Stop /\ <<"unread_um">> \in AfterSync
    /\ <<>> \in Over /\ <<"leave_um">> \in LeaveUm /\ <<"cancel", "put_super">> \in Cancel
<1>1. <<"stop">> = <<"stop">> \o <<>> /\ <<"unread_um">> = <<"unread_um">> \o <<>>
  OBVIOUS
<1>2. <<"leave_um">> = <<"leave_um">> \o <<>> /\ <<"put_super">> = <<"put_super">> \o <<>>
  OBVIOUS
<1>3. <<>> \in Over
  BY DEF Over
<1>4. <<"unread_um">> \in UnreadUm /\ <<"leave_um">> \in LeaveUm /\ <<"put_super">> \in PutSuper
  BY <1>1, <1>2, <1>3, ThenIn, Zenon DEF UnreadUm, LeaveUm, PutSuper
<1>5. <<"cancel", "put_super">> = <<"cancel">> \o <<"put_super">>
  OBVIOUS
<1>6. <<"cancel", "put_super">> \in Cancel
  BY <1>4, <1>5, ThenIn, Zenon DEF Cancel
<1>7. <<"stop">> \in Stop
  BY <1>1, <1>3, ThenIn, Zenon DEF Stop
<1>8. <<"unread_um">> \in AfterSync
  BY <1>4, Zenon DEF AfterSync
<1> QED
  BY <1>3, <1>4, <1>6, <1>7, <1>8, Zenon

LEMMA WriteStarts == write \in Start
<1>1. <<"fill_page", "stop">> \in FillPage
  <2>1. <<"fill_page", "stop">> = <<"fill_page">> \o <<"stop">>
    OBVIOUS
  <2> QED
    BY <2>1, Ends, ThenIn, Zenon DEF FillPage
<1>2. <<"lock_page", "fill_page", "stop">> \in LockPage
  <2>1. <<"lock_page", "fill_page", "stop">> = <<"lock_page">> \o <<"fill_page", "stop">>
    OBVIOUS
  <2> QED
    BY <1>1, <2>1, ThenIn, Zenon DEF LockPage
<1>3. write = <<"start">> \o <<"lock_page", "fill_page", "stop">>
  BY DEF write
<1> QED
  BY <1>2, <1>3, ThenIn, Zenon DEF Start, Bodies

LEMMA ChangeStarts == change \in Start
<1>1. <<"stop", "stop">> \in InnerStop
  <2>1. <<"stop", "stop">> = <<"stop">> \o <<"stop">>
    OBVIOUS
  <2> QED
    BY <2>1, Ends, ThenIn, Zenon DEF InnerStop
<1>2. <<"change", "stop", "stop">> \in InnerChange
  <2>1. <<"change", "stop", "stop">> = <<"change">> \o <<"stop", "stop">>
    OBVIOUS
  <2> QED
    BY <1>1, <2>1, ThenIn, Zenon DEF InnerChange
<1>3. <<"start", "change", "stop", "stop">> \in InnerStart
  <2>1. <<"start", "change", "stop", "stop">> = <<"start">> \o <<"change", "stop", "stop">>
    OBVIOUS
  <2> QED
    BY <1>2, <2>1, ThenIn, Zenon DEF InnerStart
<1>4. <<"change", "start", "change", "stop", "stop">> \in OuterChange
  <2>1. <<"change", "start", "change", "stop", "stop">>
        = <<"change">> \o <<"start", "change", "stop", "stop">>
    OBVIOUS
  <2> QED
    BY <1>3, <2>1, ThenIn, Zenon DEF OuterChange
<1>5. change = <<"start">> \o <<"change", "start", "change", "stop", "stop">>
  BY DEF change
<1> QED
  BY <1>4, <1>5, ThenIn, Zenon DEF Start, Bodies

LEMMA TruncateStarts ==
    ASSUME NEW s \in Over \cup LeaveUm \cup Cancel
    PROVE  truncate \o s \in Start
<1>1. s \in Seq(Steps)
  <2>1. CASE s = <<>>
    BY <2>1
  <2>2. CASE s \in LeaveUm \cup Cancel
    BY <2>2, Flow, Zenon DEF Rest
  <2> QED
    BY <2>1, <2>2, Zenon DEF Over
<1> DEFINE a == <<"stop">> \o s
           b == <<"truncate">> \o a
           c == <<"lock_mutex">> \o b
           d == <<"start">> \o c
           e == <<"yield">> \o d
           f == <<"lock_mutex">> \o e
           g == <<"start">> \o f
<1>2. a \in Stop
  BY ThenIn, Zenon DEF Stop
<1>3. b \in Truncate
  BY <1>2, ThenIn, Zenon DEF Truncate
<1>4. c \in LockMutex
  BY <1>3, ThenIn, Zenon DEF LockMutex
<1>5. d \in Again
  BY <1>4, ThenIn, Zenon DEF Again
<1>6. e \in Yield
  BY <1>5, ThenIn, Zenon DEF Yield
<1>7. f \in FirstMutex
  BY <1>6, ThenIn, Zenon DEF FirstMutex
<1>8. g \in Start
  BY <1>7, ThenIn, Zenon DEF Start, Bodies
<1>9. truncate \o s = g
  BY <1>1 DEF truncate
<1> QED
  BY <1>8, <1>9, Zenon

\* vdfs4_sync_fs and what follows it.
LEMMA SyncStarts ==
    ASSUME NEW s \in AfterSync
    PROVE  sync_fs \o s \in Sync
<1>1. s \in Seq(Steps)
  BY Flow, Zenon DEF Rest
<1> DEFINE a == <<"commit">> \o s
           b == <<"take_wl">> \o a
           c == <<"sync_inodes">> \o b
           d == <<"take_tl">> \o c
           e == <<"sync">> \o d
<1>2. a \in Commit
  BY ThenIn, Zenon DEF Commit
<1>3. b \in TakeWl
  BY <1>2, ThenIn, Zenon DEF TakeWl
<1>4. c \in SyncInodes
  BY <1>3, ThenIn, Zenon DEF SyncInodes
<1>5. d \in TakeTl
  BY <1>4, ThenIn, Zenon DEF TakeTl
<1>6. e \in Sync
  BY <1>5, ThenIn, Zenon DEF Sync
<1>7. sync_fs \o s = e
  BY <1>1 DEF sync_fs
<1> QED
  BY <1>6, <1>7, Zenon

LEMMA WritepagesStarts ==
    ASSUME NEW s \in Over \cup ReadUm
    PROVE  writepages \o s \in Writeback
<1>1. s \in Seq(Steps)
  <2>1. CASE s = <<>>
    BY <2>1
  <2>2. CASE s \in ReadUm
    BY <2>2, Flow, Zenon DEF Rest
  <2> QED
    BY <2>1, <2>2, Zenon DEF Over
<1> DEFINE a == <<"end_writeback">> \o s
           b == <<"write_page">> \o a
           c == <<"map_page">> \o b
           d == <<"allocate">> \o c
           e == <<"writeback">> \o d
<1>2. a \in EndWriteback
  BY ThenIn, Zenon DEF EndWriteback
<1>3. b \in WritePage
  BY <1>2, ThenIn, Zenon DEF WritePage
<1>4. c \in MapPage
  BY <1>3, ThenIn, Zenon DEF MapPage
<1>5. d \in Allocate
  BY <1>4, ThenIn, Zenon DEF Allocate
<1>6. e \in Writeback
  BY <1>5, ThenIn, Zenon DEF Writeback
<1>7. writepages \o s = e
  BY <1>1 DEF writepages
<1> QED
  BY <1>6, <1>7, Zenon

\* Every call starts outside a transaction and without a lock of the journal.
LEMMA CallsStart ==
    /\ {write, change, truncate, file_fsync, delayed_commit, remount, umount, writepages} \subseteq Out
    /\ sync_fs \o <<"unread_um">> \in Out
<1>1. sync_fs \o <<"unread_um">> \in Sync
  BY SyncStarts, Ends, Zenon
<1>2. <<"read_um">> \o (sync_fs \o <<"unread_um">>) \in ReadUm
  BY <1>1, ThenIn, Zenon DEF ReadUm
<1>3. file_fsync \in Writeback
  <2>1. writepages \in Seq(Steps) /\ sync_fs \in Seq(Steps)
    BY DEF writepages, sync_fs, Steps
  <2>2. <<"read_um">> \in Seq(Steps) /\ <<"unread_um">> \in Seq(Steps)
    BY DEF Steps
  <2>3. file_fsync = writepages \o (<<"read_um">> \o (sync_fs \o <<"unread_um">>))
    <3>1. writepages \o <<"read_um">> \in Seq(Steps) /\ sync_fs \o <<"unread_um">> \in Seq(Steps)
      BY <2>1, <2>2
    <3>2. file_fsync = ((writepages \o <<"read_um">>) \o sync_fs) \o <<"unread_um">>
      BY Zenon DEF file_fsync
    <3>3. ((writepages \o <<"read_um">>) \o sync_fs) \o <<"unread_um">>
          = (writepages \o <<"read_um">>) \o (sync_fs \o <<"unread_um">>)
      BY <2>1, <2>2, <3>1, Assoc
    <3>4. (writepages \o <<"read_um">>) \o (sync_fs \o <<"unread_um">>)
          = writepages \o (<<"read_um">> \o (sync_fs \o <<"unread_um">>))
      BY <2>1, <2>2, <3>1, Assoc
    <3> QED
      BY <3>2, <3>3, <3>4, Zenon
  <2> QED
    BY <1>2, <2>3, WritepagesStarts, Zenon
<1>4. writepages \in Writeback
  <2>1. writepages = writepages \o <<>>
    BY DEF writepages
  <2> QED
    BY <2>1, WritepagesStarts, Zenon DEF Over
<1>5. delayed_commit \in TryUm
  <2>1. delayed_commit = <<"try_um">> \o <<>>
    BY DEF delayed_commit
  <2> QED
    BY <2>1, ThenIn, Zenon DEF TryUm, Over
<1>6. truncate \in Start
  <2>1. truncate = truncate \o <<>>
    BY DEF truncate
  <2> QED
    BY <2>1, Ends, TruncateStarts, Zenon
<1>7. truncate \in Seq(Steps) /\ sync_fs \in Seq(Steps)
  BY DEF truncate, sync_fs, Steps
<1>8. /\ <<"take_um">> \in Seq(Steps) /\ <<"leave_um">> \in Seq(Steps)
      /\ <<"inactive">> \in Seq(Steps) /\ <<"cancel", "put_super">> \in Seq(Steps)
  BY DEF Steps
<1>9. remount \in TakeUm
  <2>1. remount = (<<"take_um">> \o truncate) \o <<"leave_um">>
    BY Zenon DEF remount
  <2>2. remount = <<"take_um">> \o (truncate \o <<"leave_um">>)
    BY <1>7, <1>8, <2>1, Assoc
  <2>3. truncate \o <<"leave_um">> \in Start
    BY Ends, TruncateStarts, Zenon
  <2> QED
    BY <2>2, <2>3, ThenIn, Zenon DEF TakeUm
<1>10. umount \in TakeUm
  <2> DEFINE y == truncate \o <<"cancel", "put_super">>
             z == <<"inactive">> \o y
  <2>1. y \in Start
    BY Ends, TruncateStarts, Zenon
  <2>2. z \in AfterSync
    BY <2>1, ThenIn, Zenon DEF AfterSync, Inactive
  <2>3. sync_fs \o z \in Sync
    BY <2>2, SyncStarts, Zenon
  <2>4. umount = <<"take_um">> \o (sync_fs \o z)
    <3>1. y \in Seq(Steps) /\ z \in Seq(Steps)
      BY <2>1, <2>2, Flow, Zenon DEF Rest
    <3> DEFINE a == <<"take_um">> \o sync_fs
               b == a \o <<"inactive">>
    <3>2. a \in Seq(Steps) /\ b \in Seq(Steps)
      BY <1>7, <1>8
    <3>3. umount = (b \o truncate) \o <<"cancel", "put_super">>
      BY Zenon DEF umount
    <3>4. (b \o truncate) \o <<"cancel", "put_super">> = b \o y
      <4> DEFINE w == <<"cancel", "put_super">>
      <4>1. b \in Seq(Steps) /\ truncate \in Seq(Steps) /\ w \in Seq(Steps)
        BY <1>7, <1>8, <3>2, Zenon
      <4>2. (b \o truncate) \o w = b \o (truncate \o w)
        <5> HIDE DEF b, w
        <5> QED
          BY <4>1, SMTT(30)
      <4> QED
        BY <4>2, Zenon
    <3>5. b \o y = a \o z
      <4> HIDE DEF a, y
      <4> QED
        BY <1>8, <3>1, <3>2, Assoc
    <3>6. a \o z = <<"take_um">> \o (sync_fs \o z)
      <4> HIDE DEF z
      <4> QED
        BY <1>7, <1>8, <3>1, Assoc
    <3> QED
      BY <3>3, <3>4, <3>5, <3>6, Zenon
  <2> QED
    BY <2>3, <2>4, ThenIn, Zenon DEF TakeUm
<1> QED
  BY <1>1, <1>3, <1>4, <1>5, <1>6, <1>9, <1>10, WriteStarts, ChangeStarts DEF Out

\* A task that does nothing has nothing.
LEMMA IdleHas ==
    ASSUME LockInv, NEW t \in Task, Idle(t)
    PROVE  pc[t] \in Out /\ count[t] = 0 /\ Nothing(tl, t) /\ Nothing(wl, t)
<1>1. pc[t] = <<>> /\ Has(t, pc[t], count[t], tl, wl)
  BY Zenon DEF Idle, LockInv
<1> QED
  BY <1>1, FlowTransaction, FlowInner, FlowWriteback, FlowSync, FlowEvict, FlowCommit, Zenon
     DEF Has

\* An idle task starts a call.
LEMMA CallStep ==
    ASSUME LockInv, NEW t \in Task, Idle(t), NEW s \in Out, Goto(t, s), tl' = tl, wl' = wl,
           count' = count
    PROVE  LockInv'
<1>1. Has(t, s, count[t], tl, wl)
  BY IdleHas, Zenon DEF Has
<1> QED
  BY <1>1, GoesOn, Zenon

LEMMA Calls ==
    ASSUME LockInv,
           \/ \E u \in User, op \in {write, change, truncate, file_fsync} : Call(u, op)
           \/ Administer \/ StartFlusher \/ TimerExpires
    PROVE  LockInv'
<1> USE DEF locks
<1>1. CASE \E u \in User, op \in {write, change, truncate, file_fsync} : Call(u, op)
  <2>1. PICK u \in User : \E op \in {write, change, truncate, file_fsync} : Call(u, op)
    BY <1>1, Zenon
  <2>2. PICK op \in {write, change, truncate, file_fsync} : Call(u, op)
    BY <2>1, Zenon
  <2>3. u \in Task /\ op \in Out
    BY CallsStart, Zenon DEF Task
  <2>4. Idle(u) /\ Goto(u, op) /\ tl' = tl /\ wl' = wl /\ count' = count
    BY <2>2, Zenon DEF Call
  <2> QED
    BY <2>3, <2>4, CallStep, Zenon
<1>2. CASE Administer
  <2>1. Admin \in Task /\ remount \in Out /\ umount \in Out
    BY CallsStart, Zenon DEF Task
  <2>2. /\ Idle(Admin) /\ tl' = tl /\ wl' = wl /\ count' = count
        /\ Goto(Admin, remount) \/ Goto(Admin, umount)
    BY <1>2, Zenon DEF Administer
  <2> QED
    BY <2>1, <2>2, CallStep, Zenon
<1>3. CASE StartFlusher
  <2>1. Flusher \in Task /\ writepages \in Out
    BY CallsStart, Zenon DEF Task
  <2>2. Idle(Flusher) /\ Goto(Flusher, writepages) /\ tl' = tl /\ wl' = wl /\ count' = count
    BY <1>3, Zenon DEF StartFlusher
  <2> QED
    BY <2>1, <2>2, CallStep, Zenon
<1>4. CASE TimerExpires
  <2>1. Worker \in Task /\ delayed_commit \in Out
    BY CallsStart, Zenon DEF Task
  <2>2. Idle(Worker) /\ Goto(Worker, delayed_commit) /\ tl' = tl /\ wl' = wl /\ count' = count
    BY <1>4, Zenon DEF TimerExpires
  <2> QED
    BY <2>1, <2>2, CallStep, Zenon
<1> QED
  BY <1>1, <1>2, <1>3, <1>4, Zenon

\* vdfs4_delayed_commit.
LEMMA TryUmount ==
    ASSUME LockInv, NEW t \in Task, try_um(t)
    PROVE  LockInv'
<1>1. At(t, "try_um") /\ tl' = tl /\ wl' = wl /\ count' = count
  BY DEF try_um
<1>2. CASE Goto(t, sync_fs \o <<"unread_um">>)
  <2>1. Has(t, sync_fs \o <<"unread_um">>, count[t], tl, wl)
    BY <1>1, AtOut, CallsStart, Zenon DEF Has
  <2> QED
    BY <1>1, <1>2, <2>1, GoesOn, Zenon
<1>3. CASE Next_(t)
  BY <1>1, <1>3, SteadyStep, Zenon DEF Steady
<1> QED
  BY <1>2, <1>3, Zenon DEF try_um

\* flush_delayed_work, which may start the delayed commit.
LEMMA FlushDelayedWork ==
    ASSUME LockInv, NEW t \in Task, flush_delayed_work(t)
    PROVE  LockInv'
<1> DEFINE s == Tail(pc[t])
<1>1. At(t, "flush") /\ tl' = tl /\ wl' = wl /\ count' = count
  BY DEF flush_delayed_work, locks
<1>2. Has(t, s, count[t], tl, wl)
  BY <1>1, AtFlush, Zenon DEF Has, Out, InSync
<1>3. Has(t, <<"flushed">> \o s, count[t], tl, wl)
  <2>1. CASE s \in Begin \cup Start /\ count[t] = 0 /\ Nothing(tl, t) /\ Nothing(wl, t)
    <3>1. <<"flushed">> \o s \in Flushed
      BY <2>1, ThenIn, Zenon DEF Flushed
    <3> QED
      BY <2>1, <3>1, Zenon DEF Has, Out
  <2>2. CASE s \in EvictAgain /\ count[t] = 1 /\ Writes(tl, t) /\ Nothing(wl, t)
    <3>1. <<"flushed">> \o s \in EvictFlushed
      BY <2>2, ThenIn, Zenon DEF EvictFlushed
    <3> QED
      BY <2>2, <3>1, Zenon DEF Has, InSync
  <2> QED
    BY <1>1, <2>1, <2>2, AtFlush, Zenon
<1>4. CASE Next_(t)
  BY <1>1, <1>2, <1>4, GoesOn, Zenon DEF Next_
<1>5. CASE pc' = [pc EXCEPT ![Worker] = IF Idle(Worker) THEN delayed_commit ELSE @,
                            ![t] = <<"flushed">> \o Tail(@)]
  <2>1. DOMAIN pc' = Task /\ Worker \in Task
    BY <1>5 DEF LockInv, Task
  <2>2. CASE t = Worker
    <3>1. ~Idle(Worker)
      BY <1>1, <2>2, Zenon DEF At
    <3>2. /\ pc'[t] = <<"flushed">> \o s
          /\ \A x \in Task \ {t} : pc'[x] = pc[x]
      BY <1>5, <2>1, <2>2, <3>1 DEF LockInv
    <3>3. ASSUME NEW x \in Task PROVE Has(x, pc'[x], count'[x], tl', wl')
      <4>3. Has(x, pc[x], count[x], tl, wl)
        BY Zenon DEF LockInv
      <4> QED
        BY <1>1, <1>3, <3>2, <4>3, Zenon
    <3> QED
      BY <1>1, <2>1, <3>3, Zenon DEF LockInv
  <2>3. CASE t # Worker
    <3>1. /\ pc'[t] = <<"flushed">> \o s
          /\ pc'[Worker] = IF Idle(Worker) THEN delayed_commit ELSE pc[Worker]
          /\ \A x \in Task \ {t, Worker} : pc'[x] = pc[x]
      BY <1>5, <2>1, <2>3 DEF LockInv
    <3>2. ASSUME NEW x \in Task PROVE Has(x, pc'[x], count'[x], tl', wl')
      <4>3. Has(x, pc[x], count[x], tl, wl)
        BY Zenon DEF LockInv
      <4>4. Idle(Worker) => Has(Worker, delayed_commit, count[Worker], tl, wl)
        BY <2>1, IdleHas, CallsStart, Zenon DEF Has
      <4>5. CASE x = Worker
        BY <1>1, <3>1, <4>3, <4>4, <4>5, Zenon
      <4>6. CASE x # Worker
        BY <1>1, <1>3, <3>1, <4>3, <4>6, Zenon
      <4> QED
        BY <4>5, <4>6
    <3> QED
      BY <1>1, <2>1, <3>2, Zenon DEF LockInv
  <2> QED
    BY <2>2, <2>3
<1> QED
  BY <1>4, <1>5, Zenon DEF flush_delayed_work

--------------------------------------------------------------------------------
(* The invariant, and what it is for.                                           *)

LEMMA InitLocks == Init => LockInv
<1> SUFFICES ASSUME Init PROVE LockInv
  OBVIOUS
<1>1. DOMAIN pc = Task /\ DOMAIN count = Task /\ SemOK(tl) /\ SemOK(wl)
  BY DEF Init, Sem, SemOK
<1>2. ASSUME NEW t \in Task PROVE Has(t, pc[t], count[t], tl, wl)
  <2>1. pc[t] = <<>> /\ count[t] = 0
    BY DEF Init
  <2>2. Nothing(tl, t) /\ Nothing(wl, t)
    BY DEF Init, Sem, Nothing
  <2>3. pc[t] \in Out
    BY <2>1, Zenon DEF Out, Over
  <2> QED
    BY <2>1, <2>2, <2>3, Zenon DEF Has
<1> QED
  BY <1>1, <1>2, Zenon DEF LockInv

LEMMA NextLocks == LockInv /\ [Next]_vars => LockInv'
<1> SUFFICES ASSUME LockInv, [Next]_vars PROVE LockInv'
  OBVIOUS
<1>1. ASSUME tl' = tl, wl' = wl, count' = count, pc' = pc PROVE LockInv'
  BY <1>1, Zenon DEF LockInv
<1>2. CASE UNCHANGED vars
  BY <1>1, <1>2 DEF vars
<1>3. CASE MappedStore
  BY <1>1, <1>3 DEF MappedStore, locks
<1>4. CASE \/ \E u \in User, op \in {write, change, truncate, file_fsync} : Call(u, op)
           \/ Administer \/ StartFlusher \/ TimerExpires
  BY <1>4, Calls, Zenon
<1>5. ASSUME NEW t \in Task, Advance(t) PROVE LockInv'
  <2>1. CASE \/ change_metadata(t) \/ lock_page(t) \/ fill_page(t) \/ lock_mutex(t)
             \/ truncate_blocks(t) \/ allocate_space(t) \/ writeback_iter(t)
             \/ mpage_writepage(t) \/ sync_inodes_sb(t) \/ read_um(t) \/ unread_um(t)
             \/ take_um(t) \/ leave_um(t) \/ inactive(t) \/ cancel(t) \/ put_super(t)
    BY <2>1, SteadySteps, Zenon
  <2>2. CASE start_transaction(t) \/ flush_delayed_work(t) \/ begin(t) \/ stop_transaction(t)
    BY <2>2, StartTransaction, FlushDelayedWork, BeginTransaction, StopTransaction, Zenon
  <2>3. CASE \/ truncate_yields(t) \/ truncate_goes_on(t)
             \/ start_writeback(t) \/ stop_writeback(t)
    BY <2>3, TruncateYields, TruncateGoesOn, StartWriteback, StopWriteback, Zenon
  <2>4. CASE sync_filesystem(t) \/ take_tl(t) \/ sync_evicts(t) \/ take_wl(t) \/ try_um(t)
    BY <2>4, SyncFilesystem, TakeTransactionLock, SyncEvicts, TakeWritebackLock, TryUmount,
       Zenon
  <2>5. CASE sync_metadata(t) \/ sync_metadata_fails(t)
    BY <2>5, SyncEnd, Zenon DEF sync_metadata, sync_metadata_fails
  <2> QED
    BY <1>5, <2>1, <2>2, <2>3, <2>4, <2>5, Zenon DEF Advance
<1> QED
  BY <1>2, <1>3, <1>4, <1>5, Zenon DEF Next

\* Who is in the middle of a change has a lock that the committing task would have.
LEMMA MiddleHas ==
    ASSUME LockInv, NEW t \in Task, InTheMiddle(t)
    PROVE  Reads(tl, t) \/ Writes(tl, t) \/ Reads(wl, t)
<1>1. pc[t] # <<>> /\ Has(t, pc[t], count[t], tl, wl)
  BY Zenon DEF InTheMiddle, Idle, LockInv
<1>2. pc[t] \notin Out
  BY <1>1, FlowOut DEF InTheMiddle
<1> QED
  BY <1>1, <1>2, Zenon DEF Has

LEMMA WholeChanges == LockInv => CommitsWholeChanges
<1> SUFFICES ASSUME LockInv, NEW s \in Task, At(s, "commit"), NEW t \in Task \ {s}, InTheMiddle(t)
             PROVE  FALSE
  BY Zenon DEF CommitsWholeChanges
<1>1. Writes(tl, s) /\ Writes(wl, s)
  BY AtCommit, Zenon
<1>2. Reads(tl, t) \/ Writes(tl, t) \/ Reads(wl, t)
  BY MiddleHas, Zenon
<1> QED
  BY <1>1, <1>2 DEF LockInv, SemOK, Reads, Writes

\* Every reachable state has the invariant: what every task holds of
\* transaction_lock and writeback_lock, and how deep current->journal_info counts,
\* follow from where it is in its call.
THEOREM LocksFollowCalls == Spec => []LockInv
<1> QED
  BY InitLocks, NextLocks, PTL DEF Spec

\* While vdfs4_sync_fs commits, no other task is between two steps of one
\* transaction or of the writeback of one file, however many tasks call, fsync,
\* truncate, write back, remount or unmount at once: what sync_metadata writes
\* consists of whole changes.
THEOREM CommitsAreWhole == Spec => []CommitsWholeChanges
<1> QED
  BY LocksFollowCalls, WholeChanges, PTL

================================================================================
