-------------------------- MODULE TransTablesProofs ---------------------------
(* Theorems about TransTables, for any set of chunks and blocks, any number of  *)
(* extended tables and any size of the tables area that leaves room: whatever   *)
(* write a crash interrupts, a mount finds the last commit.                     *)
EXTENDS TransTablesInv, FiniteSetTheorems

USE Sizes

\* A superblock whose write was cut short is not used by a mount.
LEMMA TornSuperblock ==
    ASSUME TypeOK, NEW h, Superblocks(h), slot'[h].ver = slot[h].ver, committed' = committed,
           \/ /\ Good(exsb_copy) /\ exsb' = [exsb EXCEPT !.ok = FALSE]
              /\ UNCHANGED exsb_copy
           \/ /\ Good(exsb) /\ exsb_copy' = [exsb_copy EXCEPT !.ok = FALSE]
              /\ UNCHANGED exsb
    PROVE  Superblocks(h)' /\ exsb' \in Exsb /\ exsb_copy' \in Exsb
<1>1. exsb \in Exsb /\ exsb_copy \in Exsb
  BY DEF TypeOK
<1>2. \A e \in Exsb : LET r == [e EXCEPT !.ok = FALSE]
                      IN  r \in Exsb /\ ~ Verify(r)
  BY Zenon DEF Exsb, Verify
<1>3. CASE /\ Good(exsb_copy) /\ exsb' = [exsb EXCEPT !.ok = FALSE]
           /\ UNCHANGED exsb_copy
  <2>1. ~ Verify(exsb') /\ exsb' \in Exsb
    BY <1>1, <1>2, <1>3
  <2>2. Good(exsb_copy)'
    BY <1>3 DEF Good, Verify
  <2> QED
    BY <1>1, <1>3, <2>1, <2>2 DEF Superblocks
<1>4. CASE /\ Good(exsb) /\ exsb_copy' = [exsb_copy EXCEPT !.ok = FALSE]
           /\ UNCHANGED exsb
  <2>1. ~ Verify(exsb_copy') /\ exsb_copy' \in Exsb
    BY <1>1, <1>2, <1>4
  <2>2. Good(exsb)'
    BY <1>4 DEF Good, Verify
  <2> QED
    BY <1>1, <1>4, <2>1, <2>2 DEF Superblocks
<1> QED
  BY <1>3, <1>4

\* A crash: the write in progress may be cut short.
LEMMA CrashInv ==
    ASSUME Fits, NEW h \in Halves, InvAt(h), Crash
    PROVE  InvAt(h)'
<1>1. TypeOK /\ Tables(h) /\ Superblocks(h) /\ Memory(h) /\ committed' = committed
  BY DEF InvAt, Crash
<1> DEFINE Goal == /\ Tables(h)' /\ Superblocks(h)' /\ exsb' \in Exsb /\ exsb_copy' \in Exsb
                   /\ DOMAIN slot' = Slots /\ \A j \in Slots : IsPage(slot'[j])
<1>2. ASSUME UNCHANGED disk
      PROVE  Goal
  BY <1>1, <1>2, MemoryStep DEF TypeOK, disk
<1>3. ASSUME UNCHANGED slot,
             \/ /\ Good(exsb_copy) /\ exsb' = [exsb EXCEPT !.ok = FALSE]
                /\ UNCHANGED exsb_copy
             \/ /\ Good(exsb) /\ exsb_copy' = [exsb_copy EXCEPT !.ok = FALSE]
                /\ UNCHANGED exsb
      PROVE  Goal
  <2>1. Superblocks(h)' /\ exsb' \in Exsb /\ exsb_copy' \in Exsb
    BY <1>1, <1>3, TornSuperblock
  <2>2. Tables(h)' /\ DOMAIN slot' = Slots /\ \A j \in Slots : IsPage(slot'[j])
    BY <1>1, <1>3, Zenon DEF Tables, Exts, TypeOK
  <2> QED
    BY <2>1, <2>2
<1>4. ASSUME TornWrite
      PROVE  Goal
  <2>1. CASE pc = "mount"
    <3>1. LoadBase(slot) = h /\ Verify(exsb) /\ Verify(exsb_copy)
      BY <1>1, <2>1, LoadsBase DEF Memory
    <3>2. \/ /\ UseCopy(exsb, exsb_copy, slot[h].ver)
             /\ exsb' = [exsb EXCEPT !.ok = FALSE]
             /\ UNCHANGED <<slot, exsb_copy>>
          \/ /\ DropCopy(exsb, exsb_copy, slot[h].ver)
             /\ exsb_copy' = [exsb_copy EXCEPT !.ok = FALSE]
             /\ UNCHANGED <<slot, exsb>>
      BY <1>4, <2>1, <3>1 DEF TornWrite
    <3>3. /\ UseCopy(exsb, exsb_copy, slot[h].ver) => Good(exsb_copy)
          /\ DropCopy(exsb, exsb_copy, slot[h].ver) => Good(exsb)
      BY <1>1, <3>1, RestoresSuperblocks, Zenon DEF UseCopy, DropCopy
    <3> QED
      BY <1>3, <3>2, <3>3
  <2>2. CASE pc = "copy"
    <3>1. Good(exsb)
      BY <1>1, <2>2, Zenon DEF Memory, Uncommitted, Collecting, Changes
    <3> QED
      BY <1>3, <1>4, <2>2, <3>1 DEF TornWrite
  <2>3. CASE pc = "tail"
    <3>1. PICK i \in out.tail : \E p \in Torn(slot[i], TailPage) :
             slot' = [slot EXCEPT ![i] = p]
      BY <1>4, <2>3 DEF TornWrite
    <3>2. UNCHANGED <<exsb, exsb_copy>>
      BY <1>4, <2>3 DEF TornWrite
    <3> QED
      BY <1>1, <2>3, <3>1, <3>2, BadPage, Zenon DEF TypeOK
  <2>4. CASE pc = "head"
    <3>1. PICK p \in Torn(slot[out.at], HeadPage) : slot' = [slot EXCEPT ![out.at] = p]
      BY <1>4, <2>4 DEF TornWrite
    <3>2. UNCHANGED <<exsb, exsb_copy>>
      BY <1>4, <2>4 DEF TornWrite
    <3> QED
      BY <1>1, <2>4, <3>1, <3>2, BadPage, Zenon DEF TypeOK
  <2>5. CASE pc = "fin"
    <3>1. exsb_dirty /\ exsb' = [exsb EXCEPT !.ok = FALSE] /\ UNCHANGED <<slot, exsb_copy>>
      BY <1>4, <2>5, Zenon DEF TornWrite
    <3>2. /\ Mounted /\ committed.ver = Ver /\ raw_exsb.meta = committed.meta
          /\ exsb_copy = raw_exsb /\ raw_exsb.ver = Ver
      BY <1>1, <2>5, <3>1, Zenon DEF Memory, CopyWritten
    <3>3. Ver # Zero
      BY <3>2 DEF Mounted, Ver, Zero
    <3>4. Good(exsb_copy)
      BY <3>2, <3>3 DEF Good, Verify, Mounted
    <3> QED
      BY <1>3, <3>1, <3>4
  <2> QED
    BY <1>4, <2>1, <2>2, <2>3, <2>4, <2>5 DEF TornWrite
<1>5. Goal
  BY <1>2, <1>4 DEF Crash
<1> HIDE DEF Goal
<1>6. /\ base_t' = NoRecords /\ extended_table' = NoRecords
      /\ exteneded_table_count' = 0 /\ iblock' = 0 /\ sync_count' = 0
      /\ use_base_table' = FALSE /\ exsb_dirty' = FALSE
      /\ raw_exsb' = exsb' /\ dirty' = {} /\ out' = NoOut /\ pc' = "down"
  BY DEF Crash
<1>7. IsTable(base_t)' /\ IsRecords(extended_table)'
  BY <1>6 DEF IsTable, IsRecords, NoRecords
<1>8. out' \in [base : BOOLEAN, at : Nat, tail : SUBSET Nat]
  BY <1>6, ZenonT(30) DEF NoOut
<1>9. use_base_table' \in BOOLEAN /\ exsb_dirty' \in BOOLEAN
  BY <1>6, Zenon
<1>10. exteneded_table_count' \in 0 .. ExtTables /\ iblock' \in Nat /\ sync_count' \in Nat
       /\ dirty' \in SUBSET Object
  BY <1>6
<1>11. TypeOK'
  BY <1>1, <1>5, <1>6, <1>7, <1>8, <1>9, <1>10 DEF TypeOK, Goal
<1>12. Memory(h)'
  BY <1>6, DownMemory, Zenon
<1> QED
  BY <1>5, <1>11, <1>12 DEF InvAt, Goal

\* What the mount comes up with is the last commit.
LEMMA BuildsLastCommit ==
    ASSUME Fits, TablesInv, BuildSnapshotManager
    PROVE  base_t' = committed.table /\ raw_exsb'.meta = committed.meta
<1>1. PICK h \in Halves : InvAt(h)
  BY Zenon DEF TablesInv
<1>2. TypeOK /\ Tables(h) /\ Superblocks(h) /\ Verify(exsb) /\ Verify(exsb_copy)
  BY <1>1 DEF InvAt, Memory, BuildSnapshotManager
<1> DEFINE e == RestoredExsb(exsb, exsb_copy, slot[h].ver)
<1>3. LoadBase(slot) = h /\ Replay(slot, h) = committed.table
  BY <1>2, LoadsBase, ReplaysCommit
<1>4. e \in Exsb /\ e.meta = committed.meta
  BY <1>2, RestoresSuperblocks, Zenon
<1>5. base_t' = committed.table /\ raw_exsb' = [e EXCEPT !.ver = <<e.ver[1] + 1, e.ver[2]>>]
  BY <1>3 DEF BuildSnapshotManager
<1> HIDE DEF e
<1>6. raw_exsb'.meta = e.meta
  BY <1>4, <1>5 DEF Exsb
<1> QED
  BY <1>4, <1>5, <1>6

--------------------------------------------------------------------------------
(* The writes of the tables area.                                             *)

\* The next base table goes to the other half: the pages in use are in half h.
LEMMA OtherHalf ==
    ASSUME Fits, TypeOK, NEW h \in Halves, Tables(h), AtEnd(h)
    PROVE  NextHalf = Half - h
<1>1. PICK a, b, n, x \in Nat : Layout(h, a, b, n, x)
  BY HasLayout
<1>2. iblock = x + n /\ n <= ExtTables /\ h < x /\ x + ExtTables < h + Half
  BY <1>1 DEF AtEnd, Layout
<1>3. Half \in Nat /\ Half > 0
  BY HalvesFit
<1>4. CASE h = 0
  BY <1>2, <1>3, <1>4 DEF NextHalf
<1>5. CASE h = Half
  BY <1>2, <1>3, <1>5 DEF NextHalf
<1> QED
  BY <1>4, <1>5 DEF Halves

\* The kind of the table, and its place, are chosen.
LEMMA UpdateTranslationTablesInv ==
    ASSUME Fits, NEW h \in Halves, InvAt(h), UpdateTranslationTables
    PROVE  InvAt(h)'
<1>1. TypeOK /\ Tables(h) /\ Memory(h) /\ pc = "tables"
  BY DEF InvAt, UpdateTranslationTables
<1>2. Mounted /\ Changes /\ AtEnd(h) /\ (use_base_table \/ ChangesInExt)
      /\ CopyWritten /\ (exsb_dirty => use_base_table)
      /\ \A o \in dirty : base_t[o].v = Ver
  BY <1>1, Zenon DEF Memory, Uncommitted, Collecting
<1>3. Tables(h)' /\ Superblocks(h)' /\ Exts(h)' = Exts(h)
      /\ ExtStart(slot', h) = ExtStart(slot, h)
  BY MemoryStep DEF UpdateTranslationTables
<1>4. UNCHANGED <<slot, exsb, exsb_copy, base_t, extended_table, raw_exsb, exsb_dirty,
                  dirty, iblock, sync_count, committed>>
  BY DEF UpdateTranslationTables, disk
<1>5. Ver' = Ver
  BY <1>4, Zenon DEF Ver
<1>6. pc' \in Writing => Mounted' /\ Changes' /\ CopyWritten'
                         /\ \A o \in dirty' : base_t'[o].v = Ver'
  BY <1>1, <1>2, <1>4, <1>5
     DEF Mounted, Changes, CopyWritten, Good, Verify, Uncommitted, Collecting, Writing
<1>7. CASE WriteBaseTable
  <2>1. NextHalf = Half - h /\ Half - h \in Nat
    BY <1>1, <1>2, OtherHalf, HalvesFit, Zenon DEF Halves
  <2> DEFINE T == TailPages(NextHalf)
  <2>2. /\ out' = [base |-> TRUE, at |-> NextHalf, tail |-> T]
        /\ use_base_table' = FALSE
        /\ exteneded_table_count' = 0
        /\ pc' = IF T = {} THEN "head" ELSE "tail"
    BY <1>7 DEF UpdateTranslationTables
  <2>3. T \in SUBSET Nat
    <3>1. DOMAIN base_t \in SUBSET Object
      BY <1>1 DEF TypeOK, IsTable
    <3>2. BasePages(base_t) \in Nat
      BY <3>1, PagesFit
    <3> QED
      BY <2>1, <3>2 DEF TailPages
  <2>4. TailPages(NextHalf)' = TailPages(NextHalf)
    BY <1>4 DEF TailPages, NextHalf
  <2>5. /\ out'.base = TRUE /\ out'.at = Half - h /\ out'.tail = T
        /\ TailPages(out.at)' = T
        /\ pc' \in {"head", "tail"} /\ (pc' = "head" => T = {})
    BY <1>4, <2>1, <2>2, Zenon DEF TailPages
  <2>6. out' \in [base : BOOLEAN, at : Nat, tail : SUBSET Nat]
    BY <2>1, <2>2, <2>3, Zenon
  <2> HIDE DEF T
  <2>7. TypeOK'
    <3>1. exteneded_table_count' \in 0 .. ExtTables
      BY <2>2
    <3>2. use_base_table' \in BOOLEAN
      BY <2>2, Zenon
    <3> QED
      BY <1>1, <1>4, <2>5, <2>6, <3>1, <3>2 DEF TypeOK
  <2>8. Memory(h)'
    BY <1>6, <2>2, <2>5, Zenon DEF Memory, Uncommitted, Collecting, Writing
  <2> QED
    BY <1>3, <2>7, <2>8, Zenon DEF InvAt
<1>8. CASE ~ WriteBaseTable
  <2>1. /\ out' = [base |-> FALSE, at |-> iblock, tail |-> {}]
        /\ exteneded_table_count' = exteneded_table_count + 1
        /\ pc' = "head"
        /\ UNCHANGED use_base_table
    BY <1>8, Zenon DEF UpdateTranslationTables
  <2>2. ~ use_base_table /\ exteneded_table_count < ExtTables
        /\ exteneded_table_count \in Nat
    BY <1>1, <1>8 DEF WriteBaseTable, TypeOK
  <2>3. out' \in [base : BOOLEAN, at : Nat, tail : SUBSET Nat]
    BY <1>1, <2>1, Zenon DEF TypeOK
  <2>4. exteneded_table_count' \in 0 .. ExtTables
    BY <2>1, <2>2
  <2>5. TypeOK'
    BY <1>1, <1>4, <2>1, <2>3, <2>4 DEF TypeOK
  <2>6. ChangesInExt' /\ ~ exsb_dirty'
    BY <1>2, <1>4, <2>2, Zenon DEF ChangesInExt
  <2>7. /\ iblock' = ExtStart(slot', h) + Exts(h)' /\ out'.at = iblock'
        /\ exteneded_table_count' = Exts(h)' + 1 /\ exteneded_table_count' <= ExtTables
        /\ out'.base = FALSE
    BY <1>2, <1>3, <1>4, <2>1, <2>4 DEF AtEnd
  <2>8. Memory(h)'
    BY <1>6, <2>1, <2>2, <2>6, <2>7, ZenonT(30) DEF Memory, Uncommitted, Collecting, Writing
  <2> QED
    BY <1>3, <2>5, <2>8 DEF InvAt
<1> QED
  BY <1>7, <1>8, Zenon

\* A tail page is written into the half not in use.
LEMMA WriteTailInv ==
    ASSUME Fits, NEW h \in Halves, InvAt(h), NEW i \in Slots, WriteTail(i)
    PROVE  InvAt(h)'
<1>1. TypeOK /\ Tables(h) /\ Superblocks(h) /\ Memory(h) /\ pc = "tail" /\ i \in out.tail
  BY DEF InvAt, WriteTail
<1>2. /\ Mounted /\ Changes /\ CopyWritten /\ (exsb_dirty => out.base)
      /\ \A o \in dirty : base_t[o].v = Ver
      /\ out.base /\ ~ use_base_table
      /\ out.at = Half - h
      /\ out.tail \subseteq TailPages(out.at)
      /\ \A j \in TailPages(out.at) \ out.tail : slot[j] = TailPage
      /\ exteneded_table_count = 0
  BY <1>1, Zenon DEF Memory, Uncommitted, Writing
<1>3. /\ slot' = [slot EXCEPT ![i] = TailPage]
      /\ out' = [out EXCEPT !.tail = @ \ {i}]
      /\ pc' = IF out'.tail = {} THEN "head" ELSE "tail"
      /\ UNCHANGED <<exsb, exsb_copy, base_t, extended_table, exteneded_table_count,
                     use_base_table, iblock, sync_count, raw_exsb, exsb_dirty, dirty,
                     committed>>
  BY DEF WriteTail
<1>4. Spares(h, i, TailPage)
  BY <1>1, <1>3, WritesElsewhere, WritesPages, Zenon DEF Spares
<1>5. Tables(h)' /\ slot'[h] = slot[h]
  BY <1>1, <1>3, <1>4, SameTables, Zenon
<1>6. Superblocks(h)'
  BY <1>1, <1>3, <1>5, SameSuperblocks, Zenon
<1>7. /\ out'.base = out.base /\ out'.at = out.at /\ out'.tail = out.tail \ {i}
      /\ out' \in [base : BOOLEAN, at : Nat, tail : SUBSET Nat]
  BY <1>1, <1>3 DEF TypeOK
<1>8. DOMAIN slot' = Slots /\ \A j \in Slots : IsPage(slot'[j])
  BY <1>1, <1>3, PageWritten, WritesPages, Zenon
<1>9. pc' \in {"tail", "head"} /\ (pc' = "head" => out'.tail = {})
  BY <1>3
<1>10. TypeOK'
  BY <1>1, <1>3, <1>7, <1>8, <1>9 DEF TypeOK
<1>11. Ver' = Ver /\ TailPage' = TailPage /\ TailPages(out.at)' = TailPages(out.at)
  BY <1>3, <1>7, Zenon DEF Ver, TailPage, TailPages
<1>12. \A j \in TailPages(out.at) \ out'.tail : slot'[j] = TailPage
  <2> SUFFICES ASSUME NEW j \in TailPages(out.at) \ out'.tail
               PROVE  slot'[j] = TailPage
    OBVIOUS
  <2>1. CASE j = i
    BY <1>1, <1>3, <2>1, Zenon DEF TypeOK
  <2>2. CASE j # i
    BY <1>2, <1>3, <1>7, <2>2
  <2> QED
    BY <2>1, <2>2, Zenon
<1>13. Mounted' /\ Changes' /\ CopyWritten' /\ \A o \in dirty' : base_t'[o].v = Ver'
  BY <1>1, <1>2, <1>3, <1>9, <1>11, Zenon
     DEF Mounted, Changes, CopyWritten, Good, Verify, Uncommitted, Writing
<1>14. Memory(h)'
  BY <1>2, <1>3, <1>7, <1>9, <1>11, <1>12, <1>13
     DEF Memory, Uncommitted, Collecting, Writing
<1> QED
  BY <1>5, <1>6, <1>10, <1>14, Zenon DEF InvAt

\* The write of an extended table makes it the last one of half h.
LEMMA ExtCommits ==
    ASSUME Fits, NEW h \in Halves, InvAt(h), HeadWritten, ~ out.base
    PROVE  /\ Tables(h)' /\ slot'[h] = slot[h] /\ out.at \in Slots
           /\ ExtStart(slot', h) = ExtStart(slot, h) /\ Exts(h)' = Exts(h) + 1
<1>1. TypeOK /\ Tables(h) /\ Mounted /\ Changes /\ ChangesInExt /\ pc \in Uncommitted
  BY DEF InvAt, Memory, HeadWritten, Uncommitted, Writing
<1>2. PICK a, b, n, x \in Nat : Layout(h, a, b, n, x)
  BY <1>1, HasLayout, Zenon
<1> DEFINE i == x + n
<1>3. /\ out.at = i /\ n + 1 <= ExtTables /\ ~ exsb_dirty
      /\ \A o \in dirty : base_t[o].v = Ver
  BY <1>2, ZenonT(30) DEF InvAt, Memory, HeadWritten, Writing, Layout
<1>4. /\ h \in Nat /\ h \in Slots /\ Half - h \in Slots /\ h < x
      /\ x + ExtTables < h + Half /\ h \in {0, Half}
  BY <1>2, HalvesFit, Zenon DEF Layout, Halves
<1>5. i \in Slots /\ i # h /\ i # Half - h
  <2>1. CASE h = 0
    BY <1>3, <1>4, <2>1 DEF Slots
  <2>2. CASE h = Half
    BY <1>3, <1>4, <2>2 DEF Slots
  <2> QED
    BY <1>4, <2>1, <2>2, Zenon
<1>6. /\ DOMAIN slot' = Slots /\ slot'[i] = HeadPage
      /\ \A j \in Slots : j # i => slot'[j] = slot[j]
      /\ committed'.table = base_t /\ committed'.ver = Ver
  BY <1>1, <1>3, <1>5, Zenon DEF HeadWritten, Commits, TypeOK
<1>7. /\ HeadPage.sig = "ext" /\ HeadPage.ok /\ HeadPage.ver = Ver
      /\ HeadPage.table = extended_table
  BY DEF HeadPage
<1>8. Ver = <<a, b + n + 1>>
  <2>1. committed.ver = <<raw_exsb.ver[1], sync_count - 1>>
    BY <1>1, <1>3 DEF Mounted
  <2>2. PICK y \in Nat : sync_count = y
    BY <1>1 DEF TypeOK
  <2>3. raw_exsb.ver[1] = a /\ y - 1 = b + n
    BY <1>2, <2>1, <2>2 DEF Layout
  <2>4. y = b + n + 1
    BY <2>3
  <2> QED
    BY <2>2, <2>3, <2>4, Zenon DEF Ver
<1>9. slot'[h] = slot[h] /\ ExtStart(slot', h) = x /\ slot[h].ver = <<a, b>>
      /\ ExtStart(slot, h) = x
  BY <1>2, <1>4, <1>5, <1>6, Zenon DEF ExtStart, Layout
<1>10. \A k : ExtAt(slot', h, k) = x + k - 1 /\ ExtAt(slot, h, k) = x + k - 1
  BY <1>9 DEF ExtAt
<1>11. ASSUME NEW k \in 1 .. n
       PROVE  x + k - 1 \in Slots /\ slot'[x + k - 1] = slot[x + k - 1]
  <2>1. x + k - 1 \in Slots
    <3>1. ExtFollows(slot, x + k - 1, <<slot[h].ver[1], slot[h].ver[2] + k>>)
      BY <1>1, <1>2, <1>10, Zenon DEF Tables, Layout
    <3> QED
      BY <1>1, <3>1, Zenon DEF ExtFollows, TypeOK
  <2>2. x + k - 1 # i
    OBVIOUS
  <2> QED
    BY <1>6, <2>1, <2>2, Zenon
<1>12. x + (n + 1) - 1 = i
  OBVIOUS
<1>13. Exts(h)' = n + 1
  <2>1. Exts(h)' = Ver[2] - slot'[h].ver[2]
    BY <1>6 DEF Exts
  <2>2. Ver[2] = b + n + 1 /\ slot'[h].ver[2] = b
    BY <1>8, <1>9
  <2> QED
    BY <2>1, <2>2
<1>14. ValidBase(slot', h)
  <2>1. ValidBase(slot, h) /\ BasePages(slot[h].table) = x - h
    BY <1>1, <1>2, ZenonT(30) DEF Tables, Layout
  <2>2. ASSUME NEW k \in 1 .. x - h - 1
        PROVE  h + k \in Slots /\ slot'[h + k] = slot[h + k]
    <3>1. h + k \in Slots
      BY <1>1, <2>1, Zenon DEF ValidBase, TypeOK
    <3>2. h + k # i
      BY <1>4
    <3> QED
      BY <1>6, <3>1, <3>2, Zenon
  <2> QED
    BY <1>6, <1>9, <2>1, <2>2 DEF ValidBase
<1>15. DOMAIN base_t = DOMAIN slot[h].table
  BY <1>1, ZenonT(30) DEF ChangesInExt, Tables, Replayed
<1>16. ASSUME NEW k \in 1 .. n + 1
       PROVE  /\ ExtFollows(slot', ExtAt(slot', h, k),
                            <<slot'[h].ver[1], slot'[h].ver[2] + k>>)
              /\ DOMAIN slot'[ExtAt(slot', h, k)].table \subseteq DOMAIN slot'[h].table
  <2>1. ExtAt(slot', h, k) = x + k - 1 /\ slot'[h].ver[1] = a /\ slot'[h].ver[2] = b
    BY <1>9, <1>10
  <2>2. CASE k = n + 1
    <3>1. x + k - 1 = i /\ b + k = b + n + 1
      BY <2>2
    <3>2. DOMAIN extended_table \subseteq DOMAIN base_t
      BY <1>1, Zenon DEF ChangesInExt, Changes
    <3> QED
      BY <1>5, <1>6, <1>7, <1>8, <1>9, <1>15, <2>1, <3>1, <3>2 DEF ExtFollows
  <2>3. CASE k # n + 1
    <3>1. k \in 1 .. n
      BY <2>3
    <3>2. /\ ExtFollows(slot, x + k - 1, <<slot[h].ver[1], slot[h].ver[2] + k>>)
          /\ DOMAIN slot[x + k - 1].table \subseteq DOMAIN slot[h].table
      BY <1>1, <1>2, <1>10, <3>1, ZenonT(30) DEF Tables, Layout
    <3> QED
      BY <1>6, <1>9, <1>11, <2>1, <3>1, <3>2 DEF ExtFollows
  <2> QED
    BY <2>2, <2>3, Zenon
<1>17. Replayed(slot', h, n + 1, base_t)
  <2>1. DOMAIN base_t = DOMAIN slot'[h].table
    BY <1>9, <1>15
  <2>2. ASSUME NEW o \in DOMAIN base_t
        PROVE  \/ /\ \A k \in 1 .. n + 1 : o \notin DOMAIN slot'[ExtAt(slot', h, k)].table
                  /\ base_t[o] = slot'[h].table[o]
               \/ \E k \in 1 .. n + 1 : /\ LastRecord(slot', h, n + 1, o, k)
                                        /\ base_t[o] = RecordIn(slot'[ExtAt(slot', h, k)], o)
    <3>0. ExtAt(slot', h, n + 1) = i
      BY <1>10, <1>12, Zenon
    <3>1. CASE o \in dirty
      <4>1. o \in DOMAIN slot'[i].table
        BY <1>1, <1>6, <1>7, <3>1 DEF ChangesInExt
      <4>2. LastRecord(slot', h, n + 1, o, n + 1)
        BY <3>0, <4>1 DEF LastRecord
      <4>3. base_t[o] \in Record /\ base_t[o].v = Ver /\ base_t[o].b = extended_table[o]
        BY <1>1, <1>3, <3>1, Zenon DEF TypeOK, IsTable, ChangesInExt
      <4>4. base_t[o] = RecordIn(HeadPage, o)
        BY <1>7, <4>3 DEF RecordIn, Record
      <4>5. n + 1 \in 1 .. n + 1
        OBVIOUS
      <4> QED
        BY <1>6, <3>0, <4>2, <4>4, <4>5
    <3>2. CASE o \notin dirty
      <4>1. o \in DOMAIN committed.table /\ base_t[o] = committed.table[o]
        BY <1>1, <3>2, Zenon DEF Changes
      <4>2. o \notin DOMAIN slot'[ExtAt(slot', h, n + 1)].table
        BY <1>1, <1>6, <1>7, <3>0, <3>2 DEF ChangesInExt
      <4>3. \A k \in 1 .. n + 1 : k = n + 1 \/ k \in 1 .. n
        OBVIOUS
      <4>4. \A k \in 1 .. n : slot'[ExtAt(slot', h, k)] = slot[ExtAt(slot, h, k)]
        BY <1>10, <1>11, Zenon
      <4>5. CASE /\ \A k \in 1 .. n : o \notin DOMAIN slot[ExtAt(slot, h, k)].table
                 /\ committed.table[o] = slot[h].table[o]
        BY <1>9, <4>1, <4>2, <4>3, <4>4, <4>5
      <4>6. ASSUME NEW k \in 1 .. n, LastRecord(slot, h, n, o, k),
                   committed.table[o] = RecordIn(slot[ExtAt(slot, h, k)], o)
            PROVE  /\ LastRecord(slot', h, n + 1, o, k) /\ k \in 1 .. n + 1
                   /\ base_t[o] = RecordIn(slot'[ExtAt(slot', h, k)], o)
        <5>1. LastRecord(slot', h, n + 1, o, k)
          BY <4>2, <4>3, <4>4, <4>6, Zenon DEF LastRecord
        <5>2. k \in 1 .. n + 1
          OBVIOUS
        <5> QED
          BY <4>1, <4>4, <4>6, <5>1, <5>2, ZenonT(30)
      <4>7. Replayed(slot, h, n, committed.table)
        BY <1>1, <1>2, ZenonT(30) DEF Tables, Layout
      <4> QED
        BY <4>1, <4>5, <4>6, <4>7, ZenonT(30) DEF Replayed
    <3> QED
      BY <3>1, <3>2, Zenon
  <2> QED
    BY <2>1, <2>2, Zenon DEF Replayed
<1>18. \A j \in Slots : slot'[j].sig = "ext" /\ slot'[j].ok => ~ Newer(slot'[j].ver, Ver)
  <2>1. ~ Newer(Ver, Ver)
    BY <1>8, NewerParts
  <2> QED
    BY <1>1, <1>6, <1>7, <2>1, NothingNewer, Zenon
<1>19. slot'[Half - h].sig = "base" /\ slot'[Half - h].ok =>
          Newer(slot'[h].ver, slot'[Half - h].ver)
  BY <1>1, <1>4, <1>5, <1>6, <1>9, ZenonT(30) DEF Tables
<1>20. /\ slot'[h].ver # Zero
       /\ DOMAIN slot'[h].table # {}
       /\ committed'.ver[1] = slot'[h].ver[1]
  <2>1. slot'[h].ver # Zero /\ DOMAIN slot'[h].table # {}
    BY <1>1, <1>9, ZenonT(30) DEF Tables
  <2>2. slot[h].ver = <<a, b>> /\ committed'.ver = <<a, b + n + 1>>
    BY <1>2, <1>6, <1>8, Zenon DEF Layout
  <2>3. slot[h].ver[1] = a /\ committed'.ver[1] = a
    BY <2>2
  <2> QED
    BY <1>9, <2>1, <2>3, ZenonT(30)
<1>21. n + 1 \in 0 .. ExtTables
  BY <1>3
<1>22. Tables(h)'
  BY <1>6, <1>13, <1>14, <1>16, <1>17, <1>18, <1>19, <1>20, <1>21, ZenonT(30) DEF Tables
<1> QED
  BY <1>2, <1>3, <1>5, <1>9, <1>13, <1>22, ZenonT(30) DEF Layout

\* The write of the head of a base table makes its half the one in use.
LEMMA BaseCommits ==
    ASSUME Fits, NEW h \in Halves, NEW g \in Halves, g = Half - h, InvAt(h),
           HeadWritten, out.base
    PROVE  /\ Tables(g)' /\ slot'[g].ver = Ver /\ out.at = g /\ out.at \in Slots
           /\ ExtStart(slot', g) = g + BasePages(base_t) /\ Exts(g)' = 0
<1>1. TypeOK /\ Tables(h) /\ Mounted /\ Changes /\ pc \in Uncommitted
  BY Zenon DEF InvAt, Memory, HeadWritten, Uncommitted, Writing
<1>2. /\ out.at = g /\ \A i \in TailPages(g) : slot[i] = TailPage
  BY DEF InvAt, Memory, HeadWritten, Writing
<1>3. /\ h \in Nat /\ h \in Slots /\ g \in Nat /\ g \in Slots /\ g # h /\ Half - g = h
      /\ g \in {0, Half}
  BY HalvesFit, Zenon DEF Halves
<1>4. /\ DOMAIN slot' = Slots /\ slot'[g] = HeadPage
      /\ \A j \in Slots : j # g => slot'[j] = slot[j]
      /\ committed'.table = base_t /\ committed'.ver = Ver
  BY <1>1, <1>2, <1>3, Zenon DEF HeadWritten, Commits, TypeOK
<1>5. /\ HeadPage.sig = "base" /\ HeadPage.ok /\ HeadPage.ver = Ver
      /\ HeadPage.table = base_t
  BY Zenon DEF HeadPage
<1>6. DOMAIN base_t \in SUBSET Object /\ DOMAIN base_t # {}
  <2>1. DOMAIN committed.table # {}
    BY <1>1, Zenon DEF Tables, Replayed
  <2> QED
    BY <1>1, <2>1, Zenon DEF TypeOK, IsTable, Changes
<1>7. PICK p \in Nat : p = BasePages(base_t) /\ p >= 1 /\ p + ExtTables < Half
  BY <1>6, PagesFit, Zenon
<1>8. Ver \in Version /\ Ver # Zero
  BY <1>1, VerIsNewer, Zenon
<1>9. PICK a \in Nat, b \in Nat : Ver = <<a, b>>
  BY <1>8, VersionParts, Zenon
<1>10. Exts(g)' = 0
  <2>1. Exts(g)' = Ver[2] - Ver[2]
    BY <1>4, <1>5, Zenon DEF Exts
  <2> QED
    BY <1>9, <2>1
<1>11. ValidBase(slot', g)
  <2>1. ASSUME NEW k \in 1 .. p - 1
        PROVE  g + k \in Slots /\ slot'[g + k] = TailPage
    <3>1. g + k \in Slots /\ g + k # g
      <4>1. CASE g = 0
        BY <1>7, <4>1 DEF Slots
      <4>2. CASE g = Half
        BY <1>7, <4>2 DEF Slots
      <4> QED
        BY <1>3, <4>1, <4>2, Zenon
    <3>2. g + k \in TailPages(g)
      BY <1>7, Zenon DEF TailPages
    <3> QED
      BY <1>2, <1>4, <3>1, <3>2, Zenon
  <2>2. /\ TailPage.sig = "tail" /\ TailPage.ok /\ TailPage.ver = Ver
        /\ TailPage.table = base_t
    BY Zenon DEF TailPage
  <2> QED
    BY <1>4, <1>5, <1>7, <2>1, <2>2 DEF ValidBase
<1>12. Replayed(slot', g, 0, base_t)
  BY <1>4, <1>5 DEF Replayed
<1>13. \A j \in Slots : slot'[j].sig = "ext" /\ slot'[j].ok => ~ Newer(slot'[j].ver, Ver)
  BY <1>1, <1>4, <1>5, NothingNewer, Zenon
<1>14. Newer(slot'[g].ver, slot'[Half - g].ver)
  BY <1>1, <1>3, <1>4, <1>5, VerAfterBase
<1>15. /\ slot'[g].ver # Zero
       /\ DOMAIN slot'[g].table # {}
       /\ committed'.ver[1] = slot'[g].ver[1]
       /\ 0 \in 0 .. ExtTables
  BY <1>4, <1>5, <1>6, <1>8
<1>16. \A k \in 1 .. 0 : FALSE
  OBVIOUS
<1>17. Tables(g)'
  BY <1>4, <1>10, <1>11, <1>12, <1>13, <1>14, <1>15, <1>16 DEF Tables
<1>18. ExtStart(slot', g) = g + BasePages(base_t)
  BY <1>4, <1>5, Zenon DEF ExtStart
<1> QED
  BY <1>2, <1>3, <1>4, <1>5, <1>10, <1>17, <1>18, ZenonT(30)

\* At the commit point the superblocks become the ones of the new commit.
LEMMA SuperblocksCommit ==
    ASSUME NEW h, NEW g, InvAt(h), HeadWritten, UNCHANGED <<exsb, exsb_copy>>,
           out.base => slot'[g].ver = Ver
    PROVE  /\ Superblocks(g)'
           /\ exsb_dirty \/ (Good(exsb)' /\ Good(exsb_copy)')
<1>1. TypeOK /\ Mounted /\ Changes /\ CopyWritten /\ Superblocks(h) /\ pc \in Uncommitted
      /\ (exsb_dirty => out.base)
  BY DEF InvAt, Memory, HeadWritten, Uncommitted, Writing
<1>2. /\ committed'.meta = raw_exsb.meta /\ committed'.ver = Ver
  BY Zenon DEF HeadWritten, Commits
<1>3. Ver \in Version /\ Ver # Zero /\ Ver[1] = raw_exsb.ver[1] /\ Ver[1] > 0 /\ Ver[1] \in Nat
  BY <1>1, VerIsNewer, Zenon DEF Ver, Mounted, Version
<1>4. exsb.ver \in Version /\ Newer(Ver, exsb.ver)
  BY <1>1, Zenon DEF TypeOK, Exsb, Mounted
<1>5. Ver # exsb.ver /\ Ver[1] >= exsb.ver[1]
  BY <1>3, <1>4, NewerOrder, Zenon
<1>6. \A e \in {exsb, exsb_copy} : Verify(e) /\ e.ver[1] = 0 => e.ver = <<0, 1>>
  BY <1>1, Zenon DEF Superblocks
<1>7. exsb.ver[1] <= Ver[1]
  <2>1. exsb.ver[1] \in Nat
    BY <1>4, Zenon DEF Version
  <2> QED
    BY <1>3, <1>5, <2>1, Zenon
<1>8. CASE exsb_dirty
  <2>1. exsb_copy = raw_exsb /\ exsb_copy.ver = Ver
    BY <1>1, <1>8, Zenon DEF CopyWritten
  <2>2. Good(exsb_copy)'
    BY <1>1, <1>2, <1>3, <2>1, Zenon DEF Good, Verify, Mounted
  <2>3. slot'[g].ver = Ver
    BY <1>1, <1>8, Zenon
  <2> QED
    BY <1>2, <1>5, <1>6, <1>7, <1>8, <2>1, <2>2, <2>3 DEF Superblocks
<1>9. CASE ~ exsb_dirty
  <2>1. committed.meta = raw_exsb.meta /\ committed.ver[1] = Ver[1]
        /\ Good(exsb) /\ Good(exsb_copy)
    BY <1>1, <1>3, <1>9 DEF Mounted, Changes
  <2>2. Good(exsb)' /\ Good(exsb_copy)'
    BY <1>2, <2>1, Zenon DEF Good
  <2> QED
    BY <1>2, <1>6, <1>7, <2>2, Zenon DEF Superblocks
<1> QED
  BY <1>8, <1>9, Zenon

\* The write of a head page, as far as the disk goes; g is the half that has the
\* last commit afterwards.
LEMMA HeadWrittenInv ==
    ASSUME Fits, NEW h \in Halves, InvAt(h), HeadWritten, UNCHANGED <<exsb, exsb_copy>>
    PROVE  \E g \in Halves :
              /\ Tables(g)' /\ Superblocks(g)'
              /\ exsb_dirty \/ (Good(exsb)' /\ Good(exsb_copy)')
              /\ out.at + (IF out.base THEN BasePages(base_t) ELSE 1)
                    = ExtStart(slot', g) + Exts(g)'
              /\ exteneded_table_count = Exts(g)'
              /\ DOMAIN slot' = Slots /\ \A j \in Slots : IsPage(slot'[j])
              /\ committed' \in [table : {committed'.table}, meta : SUBSET Block,
                                 ver : Version]
              /\ IsTable(committed'.table)
<1>1. TypeOK /\ Memory(h) /\ pc = "head" /\ Tables(h)
  BY Zenon DEF InvAt, HeadWritten
<1>2. /\ committed' \in [table : {committed'.table}, meta : SUBSET Block, ver : Version]
      /\ IsTable(committed'.table)
  <2>1. Ver \in Version /\ raw_exsb.meta \in SUBSET Block /\ IsTable(base_t)
    BY <1>1, Zenon DEF TypeOK, Exsb, Version, Ver
  <2>2. committed' = [table |-> base_t, meta |-> raw_exsb.meta, ver |-> Ver]
    BY DEF HeadWritten, Commits
  <2> QED
    BY <2>1, <2>2, Zenon
<1>3. out.at \in Slots
  BY <1>1, WritesElsewhere
<1>4. DOMAIN slot' = Slots /\ \A j \in Slots : IsPage(slot'[j])
  BY <1>1, <1>3, PageWritten, WritesPages, Zenon DEF HeadWritten
<1>5. CASE out.base
  <2>1. PICK g \in Halves : g = Half - h
    BY HalvesFit, Zenon
  <2>2. /\ Tables(g)' /\ slot'[g].ver = Ver /\ out.at = g
        /\ ExtStart(slot', g) = g + BasePages(base_t) /\ Exts(g)' = 0
    BY <1>5, <2>1, BaseCommits, Zenon
  <2>3. Superblocks(g)' /\ (exsb_dirty \/ (Good(exsb)' /\ Good(exsb_copy)'))
    BY <2>2, SuperblocksCommit, Zenon
  <2>4. exteneded_table_count = 0
    BY <1>1, <1>5, Zenon DEF Memory, Writing
  <2>5. BasePages(base_t) \in Nat /\ g \in Nat
    <3>1. DOMAIN base_t \in SUBSET Object
      BY <1>1, Zenon DEF TypeOK, IsTable
    <3> QED
      BY <2>1, <3>1, PagesFit, HalvesFit, Zenon
  <2>6. out.at + BasePages(base_t) = ExtStart(slot', g) + Exts(g)'
    BY <2>2, <2>5
  <2> QED
    BY <1>2, <1>4, <1>5, <2>2, <2>3, <2>4, <2>6
<1>6. CASE ~ out.base
  <2>1. /\ Tables(h)' /\ ExtStart(slot', h) = ExtStart(slot, h)
        /\ Exts(h)' = Exts(h) + 1
    BY <1>6, ExtCommits, Zenon
  <2>2. Superblocks(h)' /\ (exsb_dirty \/ (Good(exsb)' /\ Good(exsb_copy)'))
    BY <1>6, SuperblocksCommit, Zenon
  <2>3. out.at = ExtStart(slot, h) + Exts(h) /\ exteneded_table_count = Exts(h) + 1
    BY <1>1, <1>6 DEF Memory
  <2>4. Exts(h) \in Nat /\ ExtStart(slot, h) \in Nat
    BY <1>1, ChainFits, Zenon
  <2>5. out.at + 1 = ExtStart(slot', h) + Exts(h)'
    BY <2>1, <2>3, <2>4
  <2> QED
    BY <1>2, <1>4, <1>6, <2>1, <2>2, <2>3, <2>5
<1> QED
  BY <1>5, <1>6, Zenon

\* The commit point.
LEMMA WriteHeadInv ==
    ASSUME Fits, NEW h \in Halves, InvAt(h), WriteHead
    PROVE  TablesInv'
<1>1. TypeOK /\ Memory(h) /\ pc = "head"
  BY DEF InvAt, WriteHead
<1>2. /\ Mounted /\ CopyWritten /\ ~ use_base_table
  BY <1>1, Zenon DEF Memory, Uncommitted, Writing
<1>3. /\ Commits
      /\ iblock' = out.at + (IF out.base THEN BasePages(base_t) ELSE 1)
      /\ dirty' = {}
      /\ extended_table' = NoRecords
      /\ out' = NoOut
      /\ pc' = "fin"
      /\ UNCHANGED <<exsb, exsb_copy, base_t, exteneded_table_count, use_base_table,
                     sync_count, raw_exsb, exsb_dirty>>
      /\ HeadWritten
  BY Zenon DEF WriteHead, HeadWritten
<1>4. PICK g \in Halves :
              /\ Tables(g)' /\ Superblocks(g)'
              /\ exsb_dirty \/ (Good(exsb)' /\ Good(exsb_copy)')
              /\ out.at + (IF out.base THEN BasePages(base_t) ELSE 1)
                    = ExtStart(slot', g) + Exts(g)'
              /\ exteneded_table_count = Exts(g)'
              /\ DOMAIN slot' = Slots /\ \A j \in Slots : IsPage(slot'[j])
              /\ committed' \in [table : {committed'.table}, meta : SUBSET Block,
                                 ver : Version]
              /\ IsTable(committed'.table)
  BY <1>3, HeadWrittenInv, Zenon
<1>5. IsRecords(extended_table)' /\ DOMAIN extended_table' = {}
  BY <1>3, Zenon DEF NoRecords, IsRecords
<1>6. out' \in [base : BOOLEAN, at : Nat, tail : SUBSET Nat]
  BY <1>3, Zenon DEF NoOut
<1>7. iblock' \in Nat
  <2>1. out.at \in Nat
    BY <1>1, Zenon DEF TypeOK
  <2>2. BasePages(base_t) \in Nat
    <3>1. DOMAIN base_t \in SUBSET Object
      BY <1>1, Zenon DEF TypeOK, IsTable
    <3> QED
      BY <3>1, PagesFit, Zenon
  <2> QED
    BY <1>3, <2>1, <2>2
<1>8. TypeOK'
  BY <1>1, <1>3, <1>4, <1>5, <1>6, <1>7 DEF TypeOK
<1>9. Ver' = Ver /\ committed'.ver = Ver /\ committed'.table = base_t
      /\ committed'.meta = raw_exsb.meta
  BY <1>3, Zenon DEF Ver, Commits
<1>10. AtEnd(g)'
  BY <1>3, <1>4, Zenon DEF AtEnd
<1>11. Mounted'
  BY <1>2, <1>3, <1>4, <1>9 DEF Mounted, Uncommitted, Collecting, Writing
<1>12. CopyWritten'
  BY <1>2, <1>3, <1>9, Zenon DEF CopyWritten
<1>13. Memory(g)'
  BY <1>2, <1>3, <1>4, <1>5, <1>9, <1>10, <1>11, <1>12
     DEF Memory, Uncommitted, Collecting, Writing
<1> QED
  BY <1>4, <1>8, <1>13, Zenon DEF InvAt, TablesInv

\* The commit point, reported as an error.
LEMMA LateTableWriteErrorInv ==
    ASSUME Fits, NEW h \in Halves, InvAt(h), LateTableWriteError
    PROVE  TablesInv'
<1>1. TypeOK /\ HeadWritten /\ pc' = "ro" /\ UNCHANGED <<exsb, exsb_copy, mem>>
  BY Zenon DEF InvAt, LateTableWriteError, HeadWritten
<1>2. PICK g \in Halves :
              /\ Tables(g)' /\ Superblocks(g)'
              /\ DOMAIN slot' = Slots /\ \A j \in Slots : IsPage(slot'[j])
              /\ committed' \in [table : {committed'.table}, meta : SUBSET Block,
                                 ver : Version]
              /\ IsTable(committed'.table)
  BY <1>1, HeadWrittenInv, Zenon
<1>3. TypeOK'
  BY <1>1, <1>2, Zenon DEF TypeOK, mem
<1>4. Memory(g)'
  BY <1>1, ReadOnlyMemory, Zenon
<1> QED
  BY <1>2, <1>3, <1>4, Zenon DEF InvAt, TablesInv

\* A table write that failed for good.
LEMMA TableWriteErrorInv ==
    ASSUME Fits, NEW h \in Halves, InvAt(h), TableWriteError
    PROVE  InvAt(h)'
<1>1. TypeOK /\ pc' = "ro" /\ UNCHANGED <<exsb, exsb_copy, mem, committed>>
  BY Zenon DEF InvAt, TableWriteError
<1>2. PICK i, p : /\ slot' = [slot EXCEPT ![i] = p]
                  /\ \/ /\ pc = "tail" /\ i \in out.tail
                        /\ p \in {slot[i], TailPage} \cup Torn(slot[i], TailPage)
                     \/ /\ pc = "head" /\ i = out.at
                        /\ p \in {slot[i]} \cup Torn(slot[i], HeadPage)
  <2>1. CASE pc = "tail"
    <3>1. PICK i \in out.tail :
             \E p \in {slot[i], TailPage} \cup Torn(slot[i], TailPage) :
                slot' = [slot EXCEPT ![i] = p]
      BY <2>1 DEF TableWriteError
    <3> QED
      BY <2>1, <3>1, Zenon
  <2>2. CASE pc = "head"
    <3>1. PICK p \in {slot[out.at]} \cup Torn(slot[out.at], HeadPage) :
             slot' = [slot EXCEPT ![out.at] = p]
      BY <2>2 DEF TableWriteError
    <3> QED
      BY <2>2, <3>1, Zenon
  <2> QED
    BY <2>1, <2>2, Zenon DEF TableWriteError
<1>3. /\ Tables(h)' /\ Superblocks(h)'
      /\ DOMAIN slot' = Slots /\ \A j \in Slots : IsPage(slot'[j])
  BY <1>1, <1>2, BadPage, Zenon
<1>4. TypeOK'
  BY <1>1, <1>3, Zenon DEF TypeOK, mem
<1>5. Memory(h)'
  BY <1>1, ReadOnlyMemory, Zenon
<1> QED
  BY <1>3, <1>4, <1>5, Zenon DEF InvAt

HIDE Sizes

--------------------------------------------------------------------------------
(* The invariant and what it is for.                                            *)

\* The room calculate_translation_tables_size has to provide: the largest base
\* table and its extended tables fill less than a half.
Room == Pages(Object) + ExtTables < Half

\* Rounding a number of records up to pages.
LEMMA RoundUp ==
    ASSUME NEW r \in Nat \ {0}, NEW x \in Nat, NEW y \in Nat, x <= y
    PROVE  /\ (x + r - 1) \div r \in Nat
           /\ x >= 1 => (x + r - 1) \div r >= 1
           /\ (x + r - 1) \div r <= (y + r - 1) \div r
<1>1. (x + r - 1) \div r \in Int
  OBVIOUS
<1>2. (x + r - 1) \div r >= 0
  OBVIOUS
<1>3. x >= 1 => (x + r - 1) \div r >= 1
  OBVIOUS
<1>4. (x + r - 1) \div r <= (y + r - 1) \div r
  OBVIOUS
<1> QED
  BY <1>1, <1>2, <1>3, <1>4

\* With that room every base table fits.
LEMMA RoomFits ==
    ASSUME Room
    PROVE  Fits
<1>1. IsFiniteSet(Object) /\ RecordsPerPage \in Nat \ {0}
  BY ConstantsAssumption, Zenon
<1>2. ASSUME NEW S \in SUBSET Object
      PROVE  /\ Cardinality(S) \in Nat /\ Cardinality(Object) \in Nat
             /\ Cardinality(S) <= Cardinality(Object)
             /\ S # {} => Cardinality(S) >= 1
  <2>1. IsFiniteSet(S) /\ Cardinality(S) <= Cardinality(Object)
    BY <1>1, FS_Subset, Zenon
  <2>2. Cardinality(S) \in Nat /\ Cardinality(Object) \in Nat
    BY <1>1, <2>1, FS_CardinalityType, Zenon
  <2>3. S # {} => Cardinality(S) # 0
    BY <2>1, FS_EmptySet, Zenon
  <2> QED
    BY <2>1, <2>2, <2>3
<1>3. ASSUME NEW S \in SUBSET Object
      PROVE  Pages(S) \in Nat /\ (S # {} => Pages(S) >= 1) /\ Pages(S) <= Pages(Object)
  BY <1>1, <1>2, RoundUp, Zenon DEF Pages
<1>4. Pages(Object) \in Nat
  BY <1>3
<1>5. ASSUME NEW S \in SUBSET Object
      PROVE  Pages(S) + ExtTables < Half
  BY <1>3, <1>4, Sizes DEF Room
<1> QED
  BY <1>3, <1>5, Zenon DEF Fits

\* Every step keeps the invariant.
LEMMA NextInv ==
    ASSUME Fits, TablesInv, [Next]_vars
    PROVE  TablesInv'
<1>1. PICK h \in Halves : InvAt(h)
  BY DEF TablesInv
<1>2. ASSUME InvAt(h)'
      PROVE  TablesInv'
  BY <1>2 DEF TablesInv
<1>3. CASE SbRead
  BY <1>1, <1>2, <1>3, SbReadInv, Zenon
<1>4. CASE BuildSnapshotManager
  BY <1>1, <1>2, <1>4, BuildSnapshotManagerInv, Zenon
<1>5. CASE Update
  <2>1. CASE \E o \in Object, b \in raw_exsb.meta : MoveIblock(o, b)
    BY <1>1, <1>2, <2>1, MoveIblockInv
  <2>2. CASE \E o \in Object, B \in SUBSET (Block \ raw_exsb.meta) :
                \E b \in raw_exsb.meta \cup B : CheckPageOffset(o, b, B)
    <3>1. PICK o \in Object, B \in SUBSET (Block \ raw_exsb.meta) :
             \E b \in raw_exsb.meta \cup B : CheckPageOffset(o, b, B)
      BY <2>2, Zenon
    <3>2. PICK b \in raw_exsb.meta \cup B : CheckPageOffset(o, b, B)
      BY <3>1, Zenon
    <3> QED
      BY <1>1, <1>2, <3>2, CheckPageOffsetInv, Zenon
  <2>3. CASE \E B \in (SUBSET (Block \ raw_exsb.meta)) \ {{}} : CheckMetaSpace(B)
    BY <1>1, <1>2, <2>3, CheckMetaSpaceInv, Zenon
  <2> QED
    BY <1>5, <2>1, <2>2, <2>3, Zenon DEF Update
<1>6. CASE SyncMetadata
  BY <1>1, <1>2, <1>6, SyncMetadataInv
<1>7. CASE SyncExsbCopy
  BY <1>1, <1>2, <1>7, SyncExsbCopyInv
<1>8. CASE MetaWrite
  BY <1>1, <1>2, <1>8, MetaWriteInv
<1>9. CASE UpdateTranslationTables
  BY <1>1, <1>2, <1>9, UpdateTranslationTablesInv
<1>10. CASE \E i \in Slots : WriteTail(i)
  BY <1>1, <1>2, <1>10, WriteTailInv, Zenon
<1>11. CASE WriteHead
  BY <1>1, <1>11, WriteHeadInv, Zenon
<1>12. CASE FinishSync
  BY <1>1, <1>2, <1>12, FinishSyncInv
<1>13. CASE FatalError \/ ExsbWriteError \/ MetaWriteError
  BY <1>1, <1>2, <1>13, ReadOnlyInv, Zenon
<1>14. CASE TableWriteError
  BY <1>1, <1>2, <1>14, TableWriteErrorInv
<1>15. CASE LateTableWriteError
  BY <1>1, <1>15, LateTableWriteErrorInv
<1>16. CASE Crash
  BY <1>1, <1>2, <1>16, CrashInv
<1>17. CASE UNCHANGED vars
  <2>1. UNCHANGED <<slot, exsb, exsb_copy, base_t, extended_table, exteneded_table_count,
                    use_base_table, iblock, sync_count, raw_exsb, exsb_dirty, dirty, out,
                    pc, committed>>
    BY <1>17, Zenon DEF vars, disk, mem
  <2>2. TypeOK'
    BY <1>1, <2>1, Zenon DEF InvAt, TypeOK
  <2>3. Tables(h)' /\ Superblocks(h)' /\ Exts(h)' = Exts(h)
    BY <1>1, <2>1, SameDisk, Zenon DEF InvAt, Exts
  <2>4. /\ Good(exsb)' = Good(exsb) /\ Good(exsb_copy)' = Good(exsb_copy)
        /\ Verify(exsb)' = Verify(exsb) /\ Verify(exsb_copy)' = Verify(exsb_copy)
    BY <2>1, ZenonT(30) DEF Good, Verify
  <2>5. Ver' = Ver /\ TailPage' = TailPage /\ TailPages(out.at)' = TailPages(out.at)
    BY <2>1, ZenonT(30) DEF Ver, TailPage, TailPages
  <2>6. /\ Mounted' = Mounted /\ Changes' = Changes /\ ChangesInExt' = ChangesInExt
        /\ CopyWritten' = CopyWritten /\ AtEnd(h)' = AtEnd(h)
    BY <2>1, <2>3, <2>4, <2>5, ZenonT(30) DEF Mounted, Changes, ChangesInExt, CopyWritten, AtEnd
  <2>7. Memory(h)'
    BY <1>1, <2>1, <2>3, <2>4, <2>5, <2>6, ZenonT(30) DEF InvAt, Memory
  <2> QED
    BY <1>2, <2>2, <2>3, <2>7, Zenon DEF InvAt
<1> QED
  BY <1>3, <1>4, <1>5, <1>6, <1>7, <1>8, <1>9, <1>10, <1>11, <1>12, <1>13, <1>14, <1>15,
     <1>16, <1>17 DEF Next

\* What the invariant says of a mount, and of the writer.
LEMMA MountFinds ==
    ASSUME Fits, TablesInv
    PROVE  /\ TypeOK /\ Mountable /\ RecoveryIsCommitted /\ ReplayInBounds
           /\ WriterMatchesDisk /\ TwoTableSets
<1>1. PICK h \in Halves : InvAt(h)
  BY DEF TablesInv
<1>2. TypeOK /\ Tables(h) /\ Superblocks(h) /\ Memory(h)
  BY <1>1, Zenon DEF InvAt
<1>3. LoadBase(slot) = h /\ ExtCount(slot, h) = Exts(h) /\ Replay(slot, h) = committed.table
  BY <1>2, LoadsBase, CountsExts, ReplaysCommit
<1>4. h # -1 /\ Half - h # h
  <2>1. h \in Nat /\ Half - h # h
    BY HalvesFit
  <2> QED
    BY <2>1
<1>5. Mountable
  BY <1>2, <1>3, <1>4, FindsSuperblock, ZenonT(30) DEF Mountable
<1>6. RecoveryIsCommitted
  <2>1. committed = [table |-> committed.table, meta |-> committed.meta,
                     ver |-> committed.ver]
    BY <1>2, Zenon DEF TypeOK
  <2>2. committed.ver = <<slot[h].ver[1], slot[h].ver[2] + Exts(h)>>
    BY <1>2, ChainFits, Zenon
  <2>3. RestoredExsb(ReadExsb(exsb, exsb_copy), ReadExsbCopy(exsb, exsb_copy),
                     slot[h].ver).meta = committed.meta
    BY <1>2, FindsSuperblock, Zenon
  <2> QED
    BY <1>3, <2>1, <2>2, <2>3 DEF RecoveryIsCommitted, Recovered
<1>7. ReplayInBounds
  BY <1>2, <1>3, Zenon DEF ReplayInBounds, Tables, ExtAt
<1>8. WriterMatchesDisk
  <2>1. pc = "idle" => AtEnd(h) /\ Changes
    BY <1>2, Zenon DEF Memory, Uncommitted, Collecting
  <2> QED
    BY <1>3, <2>1, Zenon DEF WriterMatchesDisk, AtEnd, Changes
<1>9. TwoTableSets
  BY <1>2, <1>3, <1>4, Zenon DEF TwoTableSets, Memory, Writing
<1> QED
  BY <1>2, <1>5, <1>6, <1>7, <1>8, <1>9

\* The inductive invariant holds in every state.
THEOREM LastCommitInOneHalf ==
    ASSUME Room
    PROVE  Spec => []TablesInv
<1>1. Init => TablesInv
  BY InitInv, HalvesFit, RoomFits, Zenon DEF TablesInv, Halves
<1>2. TablesInv /\ [Next]_vars => TablesInv'
  BY NextInv, RoomFits
<1> QED
  BY <1>1, <1>2, PTL DEF Spec

\* The state of the driver and of the disk is well-formed.
THEOREM TypeCorrect ==
    ASSUME Room
    PROVE  Spec => []TypeOK
<1>1. TablesInv => TypeOK
  BY MountFinds, RoomFits, Zenon
<1> QED
  BY <1>1, LastCommitInOneHalf, PTL

\* However the driver stops, a mount finds a superblock and a base table.
THEOREM AlwaysMountable ==
    ASSUME Room
    PROVE  Spec => []Mountable
<1>1. TablesInv => Mountable
  BY MountFinds, RoomFits, Zenon
<1> QED
  BY <1>1, LastCommitInOneHalf, PTL

\* A mount finds the translation table, the metadata area and the version of the
\* last commit, whichever write of vdfs4_sync_metadata a crash interrupted.
THEOREM MountFindsLastCommit ==
    ASSUME Room
    PROVE  Spec => []RecoveryIsCommitted
<1>1. TablesInv => RecoveryIsCommitted
  BY MountFinds, RoomFits, Zenon
<1> QED
  BY <1>1, LastCommitInOneHalf, PTL

\* parse_extended_table meets no record outside the base table.
THEOREM ReplayStaysInBounds ==
    ASSUME Room
    PROVE  Spec => []ReplayInBounds
<1>1. TablesInv => ReplayInBounds
  BY MountFinds, RoomFits, Zenon
<1> QED
  BY <1>1, LastCommitInOneHalf, PTL

\* Between commits the writer's counters are the ones a mount would form.
THEOREM WriterAndDiskAgree ==
    ASSUME Room
    PROVE  Spec => []WriterMatchesDisk
<1>1. TablesInv => WriterMatchesDisk
  BY MountFinds, RoomFits, Zenon
<1> QED
  BY <1>1, LastCommitInOneHalf, PTL

\* A base table being written does not overwrite the one a mount would use.
THEOREM BaseTablesAlternate ==
    ASSUME Room
    PROVE  Spec => []TwoTableSets
<1>1. TablesInv => TwoTableSets
  BY MountFinds, RoomFits, Zenon
<1> QED
  BY <1>1, LastCommitInOneHalf, PTL

\* Only the write of a head page, or of an extended table, changes what a mount
\* finds.
LEMMA CommitPoint ==
    ASSUME [Next]_vars, committed' # committed
    PROVE  HeadWritten
BY Zenon DEF Next, vars, SbRead, BuildSnapshotManager, Update, MoveIblock, CheckPageOffset,
       CheckMetaSpace, SyncMetadata, SyncExsbCopy, MetaWrite, UpdateTranslationTables,
       WriteTail, WriteHead, FinishSync, FatalError, ExsbWriteError, MetaWriteError,
       TableWriteError, LateTableWriteError, Crash, HeadWritten

\* Every commit is newer than the one before.
THEOREM VersionsGrow ==
    ASSUME Room
    PROVE  Spec => VersionGrows
<1>1. ASSUME TablesInv, [Next]_vars
      PROVE  [committed' # committed => Newer(committed'.ver, committed.ver)]_vars
  <2> SUFFICES ASSUME committed' # committed
               PROVE  Newer(committed'.ver, committed.ver)
    OBVIOUS
  <2>1. HeadWritten
    BY <1>1, CommitPoint
  <2>2. PICK h \in Halves : InvAt(h)
    BY <1>1, Zenon DEF TablesInv
  <2>3. TypeOK /\ Mounted /\ pc \in Uncommitted /\ committed'.ver = Ver
    BY <2>1, <2>2, ZenonT(30) DEF InvAt, Memory, HeadWritten, Commits, Uncommitted, Writing
  <2> QED
    BY <2>3, VerIsNewer
<1> QED
  BY <1>1, LastCommitInOneHalf, PTL DEF Spec, VersionGrows

\* The translation tables and the superblock are one atomic store.
THEOREM TablesAreAtomicStore ==
    ASSUME Room
    PROVE  Spec => AtomicCommit
<1>1. Init => Store!Init
  BY ZenonT(30) DEF Init, Store!Init
<1>2. ASSUME TablesInv, [Next]_vars
      PROVE  [Store!Next]_(Store!vars)
  <2>1. CASE SbRead
    BY <2>1, Zenon DEF SbRead, Store!vars
  <2>2. CASE BuildSnapshotManager
    <3>1. /\ pc = "mount" /\ pc' = "idle" /\ committed' = committed
          /\ base_t' = committed.table /\ raw_exsb'.meta = committed.meta
      BY <1>2, <2>2, BuildsLastCommit, RoomFits DEF BuildSnapshotManager
    <3> QED
      BY <3>1, Zenon DEF Store!Next, Store!Start
  <2>3. CASE HeadWritten /\ (WriteHead \/ LateTableWriteError)
    <3>1. /\ pc = "head" /\ pc' \in {"fin", "ro"}
          /\ UNCHANGED <<base_t, raw_exsb>>
          /\ committed'.table = base_t /\ committed'.meta = raw_exsb.meta
      BY <2>3 DEF WriteHead, LateTableWriteError, mem, Commits
    <3> QED
      BY <3>1, ZenonT(30) DEF Store!Next, Store!Commit
  <2>4. CASE Crash
    BY <2>4, Zenon DEF Crash, Store!Next, Store!Stop
  <2>5. CASE \/ Update \/ SyncMetadata \/ SyncExsbCopy \/ MetaWrite
             \/ UpdateTranslationTables \/ (\E i \in Slots : WriteTail(i))
             \/ FinishSync \/ FatalError \/ ExsbWriteError \/ MetaWriteError
             \/ TableWriteError
    <3>1. pc \notin {"down", "mount"} /\ pc' \notin {"down", "mount"}
          /\ committed' = committed
      BY <2>5, Zenon DEF Update, MoveIblock, CheckPageOffset,
            CheckMetaSpace, SyncMetadata, SyncExsbCopy, MetaWrite, UpdateTranslationTables,
            WriteTail, FinishSync, FatalError, ExsbWriteError, MetaWriteError,
            TableWriteError
    <3> QED
      BY <3>1 DEF Store!Next, Store!Modify
  <2>6. CASE UNCHANGED vars
    BY <2>6, Zenon DEF vars, mem, Store!vars
  <2>7. WriteHead \/ LateTableWriteError => HeadWritten
    BY DEF WriteHead, LateTableWriteError, HeadWritten
  <2> QED
    BY <1>2, <2>1, <2>2, <2>3, <2>4, <2>5, <2>6, <2>7 DEF Next
<1> QED
  BY <1>1, <1>2, LastCommitInOneHalf, PTL DEF Spec, AtomicCommit, Store!Spec

================================================================================
