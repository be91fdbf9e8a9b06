---------------------------- MODULE TransTablesInv ----------------------------
(* The inductive invariant of TransTables, the lemmas that the proofs of its    *)
(* steps share, and the steps that do not write the tables area.                *)
(* TransTablesProofs has those that do, and the theorems.                       *)
EXTENDS TransTables, TLAPS

\* Every base table has a page, and leaves room for its extended tables in its
\* half.
Pages(S) == (Cardinality(S) + RecordsPerPage - 1) \div RecordsPerPage
Fits == \A S \in SUBSET Object : /\ Pages(S) \in Nat
                                 /\ S # {} => Pages(S) >= 1
                                 /\ Pages(S) + ExtTables < Half

Halves == {0, Half}

--------------------------------------------------------------------------------
(* The tables on the disk.                                                      *)

\* Number of extended tables committed since the base table of half h.
Exts(h) == committed.ver[2] - slot[h].ver[2]

\* Page of the extended table k of half h.
ExtAt(s, h, k) == ExtStart(s, h) + k - 1

\* Extended table k is the last of the first n of half h that has a record of o.
LastRecord(s, h, n, o, k) ==
    /\ o \in DOMAIN s[ExtAt(s, h, k)].table
    /\ \A j \in 1 .. n : j > k => o \notin DOMAIN s[ExtAt(s, h, j)].table
RecordIn(p, o) == [b |-> p.table[o], v |-> p.ver]

\* Table t is the base table of half h under its first n extended tables.
Replayed(s, h, n, t) ==
    /\ DOMAIN t = DOMAIN s[h].table
    /\ \A o \in DOMAIN t :
          \/ /\ \A k \in 1 .. n : o \notin DOMAIN s[ExtAt(s, h, k)].table
             /\ t[o] = s[h].table[o]
          \/ \E k \in 1 .. n : /\ LastRecord(s, h, n, o, k)
                               /\ t[o] = RecordIn(s[ExtAt(s, h, k)], o)

\* Half h has the last commit: a valid base table, its extended tables, and
\* nothing on the disk that a mount could take for a later table.
Tables(h) ==
    /\ ValidBase(slot, h)
    /\ slot[h].ver # Zero
    /\ DOMAIN slot[h].table # {}
    /\ committed.ver[1] = slot[h].ver[1]
    /\ Exts(h) \in 0 .. ExtTables
    /\ \A k \in 1 .. Exts(h) :
          /\ ExtFollows(slot, ExtAt(slot, h, k), <<slot[h].ver[1], slot[h].ver[2] + k>>)
          /\ DOMAIN slot[ExtAt(slot, h, k)].table \subseteq DOMAIN slot[h].table
    /\ Replayed(slot, h, Exts(h), committed.table)
    /\ \A i \in Slots : slot[i].sig = "ext" /\ slot[i].ok =>
                           ~ Newer(slot[i].ver, committed.ver)
    /\ slot[Half - h].sig = "base" /\ slot[Half - h].ok =>
          Newer(slot[h].ver, slot[Half - h].ver)

\* An extended superblock of the last commit.
Good(e) == Verify(e) /\ e.meta = committed.meta /\ e.ver[1] = committed.ver[1]

\* The superblock that restore_exsb prefers is one of the last commit.
Superblocks(h) ==
    /\ \/ /\ Good(exsb)
          /\ Verify(exsb_copy) => Good(exsb_copy) \/ exsb_copy.ver # slot[h].ver
       \/ /\ Good(exsb_copy)
          /\ Verify(exsb) => exsb_copy.ver = slot[h].ver /\ exsb.ver # exsb_copy.ver
    /\ Verify(exsb) => exsb.ver[1] <= committed.ver[1]
    /\ \A e \in {exsb, exsb_copy} : Verify(e) /\ e.ver[1] = 0 => e.ver = <<0, 1>>

--------------------------------------------------------------------------------
(* The memory of a mount.                                                       *)

Collecting == {"idle", "copy", "meta", "tables"}
Writing == {"tail", "head"}
Uncommitted == Collecting \cup Writing

\* The writer continues where the tables of half h end.
AtEnd(h) == iblock = ExtStart(slot, h) + Exts(h) /\ exteneded_table_count = Exts(h)

\* The superblock in memory and the version of the running commit.
Mounted ==
    /\ raw_exsb.ok
    /\ raw_exsb.ver[1] > 0
    /\ Newer(Ver, exsb.ver)
    /\ exsb_dirty \/ (raw_exsb.meta = committed.meta /\ Good(exsb_copy))
    /\ IF sync_count = 0
       THEN exsb_dirty /\ (pc \in Uncommitted => raw_exsb.ver[1] > committed.ver[1])
       ELSE pc \in Uncommitted => committed.ver = <<raw_exsb.ver[1], sync_count - 1>>

\* Before the commit point: what is not dirty is as in the last commit.
Changes ==
    /\ Good(exsb)
    /\ dirty \subseteq DOMAIN base_t
    /\ DOMAIN committed.table \subseteq DOMAIN base_t
    /\ \A o \in DOMAIN base_t \ dirty :
          o \in DOMAIN committed.table /\ base_t[o] = committed.table[o]

\* The extended table has the changes since the last commit.
ChangesInExt ==
    /\ DOMAIN extended_table = dirty
    /\ \A o \in dirty : extended_table[o] = base_t[o].b
    /\ DOMAIN base_t = DOMAIN committed.table

\* The second superblock has been written for the running commit.
CopyWritten == exsb_dirty => exsb_copy = raw_exsb /\ raw_exsb.ver = Ver

Memory(h) ==
    /\ pc \in {"down", "mount"} => sync_count = 0 /\ ~ use_base_table /\ dirty = {}
    /\ pc = "mount" => Verify(exsb) /\ Verify(exsb_copy)
    /\ pc \in Uncommitted \cup {"fin"} => Mounted
    /\ pc \in Uncommitted => Changes
    /\ pc \in Collecting => AtEnd(h) /\ (use_base_table \/ ChangesInExt)
    /\ pc = "copy" => exsb_dirty
    /\ pc \in {"meta", "tables"} => CopyWritten /\ (exsb_dirty => use_base_table)
    /\ pc \in Writing => CopyWritten /\ (exsb_dirty => out.base)
    /\ pc \in Writing \cup {"tables"} => \A o \in dirty : base_t[o].v = Ver
    /\ pc = "tail" => out.base
    /\ pc \in Writing => ~ use_base_table
    /\ pc \in Writing /\ out.base =>
          /\ out.at = Half - h
          /\ out.tail \subseteq TailPages(out.at)
          /\ pc = "head" => out.tail = {}
          /\ \A i \in TailPages(out.at) \ out.tail : slot[i] = TailPage
          /\ exteneded_table_count = 0
    /\ pc = "head" /\ ~ out.base =>
          /\ ChangesInExt
          /\ iblock = ExtStart(slot, h) + Exts(h)
          /\ out.at = iblock
          /\ exteneded_table_count = Exts(h) + 1
          /\ exteneded_table_count <= ExtTables
    /\ pc = "fin" =>
          /\ AtEnd(h)
          /\ ~ use_base_table
          /\ dirty = {}
          /\ DOMAIN extended_table = {}
          /\ base_t = committed.table
          /\ committed.ver = Ver
          /\ raw_exsb.meta = committed.meta
          /\ CopyWritten
          /\ exsb_dirty \/ Good(exsb)

\* The inductive invariant: one of the halves has the last commit.
InvAt(h) == TypeOK /\ Tables(h) /\ Superblocks(h) /\ Memory(h)
TablesInv == \E h \in Halves : InvAt(h)

--------------------------------------------------------------------------------
(* Lemmas about the operators.                                                *)

\* The greatest element of a set of integers.
LEMMA MaxIs ==
    ASSUME NEW S \in SUBSET Int, NEW m \in S, \A x \in S : x <= m
    PROVE  Max(S) = m
<1> DEFINE IsMax(x) == \A y \in S : x >= y
<1>1. IsMax(m)
  OBVIOUS
<1>2. \A x \in S : IsMax(x) => x = m
  OBVIOUS
<1>3. Max(S) = CHOOSE x \in S : IsMax(x)
  BY DEF Max
<1> QED
  BY <1>1, <1>2, <1>3, Zenon

\* The sizes of the tables area.
LEMMA Sizes == ExtTables \in Nat /\ ExtTables >= 1 /\ Half \in Nat
BY ConstantsAssumption
USE Sizes

\* A base table has at least one page and leaves room for its extended tables.
LEMMA PagesFit ==
    ASSUME Fits, NEW t, DOMAIN t \in SUBSET Object
    PROVE  /\ BasePages(t) \in Nat
           /\ BasePages(t) + ExtTables < Half
           /\ DOMAIN t # {} => BasePages(t) >= 1
BY DEF Fits, Pages, BasePages

\* The tables area has a first page of each half.
LEMMA HalvesFit ==
    ASSUME Fits
    PROVE  /\ Half \in Nat /\ Half > 0
           /\ \A h \in Halves : /\ h \in Slots /\ Half - h \in Halves /\ Half - h # h
                                /\ h \in Nat /\ Half - (Half - h) = h
<1>1. BasePages(NoRecords) + ExtTables < Half /\ BasePages(NoRecords) \in Nat
  BY PagesFit DEF NoRecords
<1> QED
  BY <1>1 DEF Halves, Slots

\* Versions are ordered.
LEMMA VersionParts ==
    ASSUME NEW v \in Version
    PROVE  \E a \in Nat, b \in Nat : v = <<a, b>>
BY DEF Version

\* Newer is the lexicographic order of mount count and sync count.
LEMMA NewerParts ==
    ASSUME NEW a \in Nat, NEW b \in Nat, NEW c \in Nat, NEW d \in Nat,
           NEW v, NEW w, v = <<a, b>>, w = <<c, d>>
    PROVE  Newer(v, w) <=> a > c \/ (a = c /\ b > d)
BY DEF Newer

\* Newer is transitive and irreflexive.
LEMMA NewerOrder ==
    ASSUME NEW u \in Version, NEW v \in Version, NEW w \in Version, Newer(v, w)
    PROVE  /\ ~ Newer(u, w) => ~ Newer(u, v)
           /\ Newer(w, u) => Newer(v, u)
           /\ ~ Newer(v, v)
           /\ v # w /\ v[1] >= w[1]
<1>1. PICK a \in Nat, b \in Nat : u = <<a, b>>
  BY VersionParts
<1>2. PICK c \in Nat, d \in Nat : v = <<c, d>>
  BY VersionParts
<1>3. PICK e \in Nat, f \in Nat : w = <<e, f>>
  BY VersionParts
<1> QED
  BY <1>1, <1>2, <1>3, NewerParts

\* vdfs4_sync_exsb writes a superblock with another version.
LEMMA Signed ==
    ASSUME NEW e \in Exsb, NEW v \in Version
    PROVE  LET r == [e EXCEPT !.ver = v]
           IN  r \in Exsb /\ r.ver = v /\ r.meta = e.meta /\ r.ok = e.ok
BY DEF Exsb

--------------------------------------------------------------------------------
(* What a mount finds.                                                        *)

\* The pages of the tables of half h lie inside that half.
LEMMA ChainFits ==
    ASSUME Fits, TypeOK, NEW h \in Halves, Tables(h)
    PROVE  /\ BasePages(slot[h].table) \in Nat /\ BasePages(slot[h].table) >= 1
           /\ Exts(h) \in Nat /\ Exts(h) <= ExtTables
           /\ ExtStart(slot, h) = h + BasePages(slot[h].table)
           /\ ExtStart(slot, h) \in Nat /\ h < ExtStart(slot, h)
           /\ ExtStart(slot, h) + ExtTables < h + Half
           /\ slot[h].sig = "base" /\ slot[h].ver \in Version
           /\ committed.ver = <<slot[h].ver[1], slot[h].ver[2] + Exts(h)>>
           /\ IsTable(slot[h].table)
<1>1. h \in Slots /\ h \in Nat
  BY HalvesFit
<1>2. IsPage(slot[h]) /\ slot[h].sig = "base"
  BY <1>1 DEF TypeOK, Tables, ValidBase
<1>3. slot[h].ver \in Version /\ IsTable(slot[h].table)
  BY <1>2 DEF IsPage
<1>4. DOMAIN slot[h].table \in SUBSET Object /\ DOMAIN slot[h].table # {}
  BY <1>3 DEF IsTable, Tables
<1>5. committed.ver \in Version
  BY DEF TypeOK
<1>6. Exts(h) \in Nat /\ Exts(h) <= ExtTables
  BY DEF Tables
<1>7. committed.ver = <<slot[h].ver[1], slot[h].ver[2] + Exts(h)>>
  BY <1>3, <1>5 DEF Tables, Exts, Version
<1> QED
  BY <1>1, <1>2, <1>3, <1>4, <1>6, <1>7, PagesFit DEF ExtStart

\* load_base_table chooses half h.
LEMMA LoadsBase ==
    ASSUME Fits, TypeOK, NEW h \in Halves, Tables(h)
    PROVE  LoadBase(slot) = h
<1> DEFINE g == Half - h
<1>1. h \in Slots /\ g \in Slots /\ h # g /\ Half - g = h
  BY HalvesFit, Zenon
<1>2. slot[h].sig = "base" /\ slot[h].ver \in Version /\ slot[h].ver # Zero
      /\ ValidBase(slot, h)
  BY ChainFits, Zenon DEF Tables
<1>3. slot[g].ver \in Version
  BY <1>1 DEF TypeOK, IsPage
<1>4. ValidBase(slot, g) => Newer(slot[h].ver, slot[g].ver)
  BY DEF Tables, ValidBase
<1>5. TableVersion(slot, h) = slot[h].ver
  BY <1>2 DEF TableVersion
<1>6. TableVersion(slot, g) \in Version
  BY <1>3 DEF TableVersion, Version, Zero
<1>7. ValidBase(slot, g) => TableVersion(slot, g) = slot[g].ver
  BY DEF TableVersion, ValidBase
<1>8. FirstChoice(slot) = h \/ FirstChoice(slot) = g
  <2>1. h = 0 \/ g = 0
    BY DEF Halves
  <2>2. h = 0 => g = Half
    OBVIOUS
  <2>3. g = 0 => h = Half
    BY <1>1
  <2> QED
    BY <2>1, <2>2, <2>3 DEF FirstChoice
<1>9. CASE FirstChoice(slot) = h
  BY <1>2, <1>5, <1>9 DEF LoadBase
<1>10. CASE FirstChoice(slot) = g
  <2>1. ~ Newer(slot[h].ver, TableVersion(slot, g))
    <3>1. CASE h = 0
      <4>1. g = Half
        BY <3>1, HalvesFit
      <4> QED
        BY <1>1, <1>5, <1>10, <3>1, <4>1 DEF FirstChoice
    <3>2. CASE h = Half
      <4>1. g = 0
        BY <3>2, HalvesFit
      <4>2. Newer(TableVersion(slot, g), slot[h].ver)
        BY <1>1, <1>5, <1>10, <3>2, <4>1 DEF FirstChoice
      <4> QED
        BY <1>2, <1>6, <4>2 DEF Newer, Version
    <3> QED
      BY <3>1, <3>2 DEF Halves
  <2>2. ~ ValidBase(slot, g)
    BY <1>4, <1>7, <2>1
  <2>3. TableVersion(slot, g) # Zero
    BY <1>2, <2>1 DEF Newer, Version, Zero
  <2> QED
    BY <1>1, <1>2, <1>5, <1>10, <2>2, <2>3 DEF LoadBase
<1> QED
  BY <1>8, <1>9, <1>10

\* The mount replays the extended tables committed since the base table.
LEMMA CountsExts ==
    ASSUME Fits, TypeOK, NEW h \in Halves, Tables(h)
    PROVE  ExtCount(slot, h) = Exts(h)
<1> DEFINE v(k) == <<slot[h].ver[1], slot[h].ver[2] + k>>
           at(k) == ExtStart(slot, h) + k - 1
           S == {n \in 0 .. ExtTables : \A k \in 1 .. n : ExtFollows(slot, at(k), v(k))}
<1>1. Exts(h) \in S
  BY DEF Tables, ExtAt
<1>2. \A n \in S : n <= Exts(h)
  <2> SUFFICES ASSUME NEW n \in S, n > Exts(h) PROVE FALSE
    BY ChainFits
  <2>1. Exts(h) + 1 \in 1 .. n /\ Exts(h) + 1 \in Nat
    BY ChainFits
  <2> DEFINE k == Exts(h) + 1
  <2>2. ExtFollows(slot, at(k), v(k))
    BY <2>1
  <2>3. at(k) \in Slots
    BY <2>2, Zenon DEF ExtFollows, TypeOK
  <2>4. ~ Newer(v(k), committed.ver)
    BY <2>2, <2>3 DEF ExtFollows, Tables
  <2>5. Newer(v(k), committed.ver)
    <3>1. /\ committed.ver[1] = slot[h].ver[1]
          /\ committed.ver[2] = slot[h].ver[2] + Exts(h)
          /\ slot[h].ver[2] \in Nat /\ Exts(h) \in Nat
      BY ChainFits DEF Version
    <3> QED
      BY <3>1 DEF Newer
  <2> QED
    BY <2>4, <2>5
<1>3. Max(S) = Exts(h)
  <2>1. S \in SUBSET Int
    OBVIOUS
  <2> HIDE DEF S
  <2> QED
    BY <1>1, <1>2, <2>1, MaxIs, Zenon
<1> QED
  BY <1>3 DEF ExtCount

\* What the mount replays is the table of the last commit.
LEMMA ReplaysCommit ==
    ASSUME Fits, TypeOK, NEW h \in Halves, Tables(h)
    PROVE  Replay(slot, h) = committed.table
<1> DEFINE ext(k) == slot[ExtStart(slot, h) + k - 1]
           has(o) == {k \in 1 .. ExtCount(slot, h) : o \in DOMAIN ext(k).table}
           t == committed.table
<1>1. ExtCount(slot, h) = Exts(h) /\ Exts(h) \in Nat
  BY CountsExts, ChainFits
<1>2. DOMAIN t = DOMAIN slot[h].table /\ Replayed(slot, h, Exts(h), t)
  BY DEF Tables, Replayed
<1>3. t = [o \in DOMAIN t |-> t[o]]
  BY Zenon DEF TypeOK, IsTable
<1>4. ASSUME NEW o \in DOMAIN slot[h].table
      PROVE  t[o] = IF has(o) = {} THEN slot[h].table[o]
                    ELSE [b |-> ext(Max(has(o))).table[o], v |-> ext(Max(has(o))).ver]
  <2>1. CASE has(o) = {}
    BY <1>1, <1>2, <2>1, Zenon DEF Replayed, ExtAt, LastRecord
  <2>2. CASE has(o) # {}
    <3>1. PICK k \in 1 .. Exts(h) :
             /\ o \in DOMAIN ext(k).table
             /\ \A j \in 1 .. Exts(h) : j > k => o \notin DOMAIN ext(j).table
             /\ t[o] = [b |-> ext(k).table[o], v |-> ext(k).ver]
      BY <1>1, <1>2, <2>2, Zenon DEF Replayed, ExtAt, LastRecord, RecordIn
    <3>2. k \in has(o) /\ \A j \in has(o) : j <= k
      BY <1>1, <3>1
    <3>3. has(o) \in SUBSET Int
      BY <1>1
    <3>4. Max(has(o)) = k
      BY <3>2, <3>3, MaxIs, Zenon
    <3> QED
      BY <2>2, <3>1, <3>4
  <2> QED
    BY <2>1, <2>2
<1> HIDE DEF ext, has
<1>5. Replay(slot, h) = [o \in DOMAIN slot[h].table |->
            IF has(o) = {} THEN slot[h].table[o]
            ELSE [b |-> ext(Max(has(o))).table[o], v |-> ext(Max(has(o))).ver]]
  BY DEF Replay, ext, has
<1> QED
  BY <1>2, <1>3, <1>4, <1>5, Zenon

\* vdfs4_extended_sb_read and restore_exsb find a superblock of the last commit.
LEMMA FindsSuperblock ==
    ASSUME TypeOK, NEW h, Superblocks(h)
    PROVE  LET e == ReadExsb(exsb, exsb_copy)
               c == ReadExsbCopy(exsb, exsb_copy)
               r == RestoredExsb(e, c, slot[h].ver)
           IN  /\ Verify(exsb) \/ Verify(exsb_copy)
               /\ r.meta = committed.meta
<1> USE DEF ReadExsb, ReadExsbCopy, RestoredExsb, SameExsb, UseCopy, Resigned
<1>1. CASE Verify(exsb) /\ Verify(exsb_copy)
  BY <1>1 DEF Superblocks, Good, TypeOK, Exsb
<1>2. CASE ~ Verify(exsb)
  BY <1>2 DEF Superblocks, Good
<1>3. CASE ~ Verify(exsb_copy)
  BY <1>3, Zenon DEF Superblocks, Good
<1> QED
  BY <1>1, <1>2, <1>3

\* What restore_exsb does to the two superblocks read by the mount.
LEMMA RestoresSuperblocks ==
    ASSUME NEW h, TypeOK, Superblocks(h), Verify(exsb), Verify(exsb_copy)
    PROVE  LET v == slot[h].ver
               e == RestoredExsb(exsb, exsb_copy, v)
           IN  /\ e \in Exsb /\ e.ok /\ e.meta = committed.meta
               /\ e.ver[1] = committed.ver[1]
               /\ UseCopy(exsb, exsb_copy, v) =>
                     Good(exsb_copy) /\ Good(Resigned(exsb_copy))
                     /\ Resigned(exsb_copy).ver[1] > 0
               /\ ~ UseCopy(exsb, exsb_copy, v) => Good(exsb)
               /\ exsb.ver[1] \in Nat /\ committed.ver[1] \in Nat
<1> DEFINE v == slot[h].ver
<1>1. PICK a, b \in Nat : exsb.ver = <<a, b>>
  BY VersionParts DEF TypeOK, Exsb
<1>2. PICK c, d \in Nat : exsb_copy.ver = <<c, d>>
  BY VersionParts DEF TypeOK, Exsb
<1>3. PICK m, n \in Nat : committed.ver = <<m, n>>
  BY VersionParts DEF TypeOK
<1>5. /\ Resigned(exsb).ver = <<a, 0>> /\ Resigned(exsb).meta = exsb.meta
      /\ Resigned(exsb).ok = exsb.ok /\ Resigned(exsb) \in Exsb
      /\ Resigned(exsb_copy).ver = <<c, 0>> /\ Resigned(exsb_copy).meta = exsb_copy.meta
      /\ Resigned(exsb_copy).ok = exsb_copy.ok /\ Resigned(exsb_copy) \in Exsb
  <2>1. exsb \in Exsb /\ exsb_copy \in Exsb
    BY DEF TypeOK
  <2>2. <<a, 0>> \in Version /\ <<c, 0>> \in Version
    BY DEF Version
  <2>3. /\ Resigned(exsb) = [exsb EXCEPT !.ver = <<a, 0>>]
        /\ Resigned(exsb_copy) = [exsb_copy EXCEPT !.ver = <<c, 0>>]
    BY <1>1, <1>2 DEF Resigned
  <2>4. /\ Resigned(exsb).ver = <<a, 0>> /\ Resigned(exsb).meta = exsb.meta
        /\ Resigned(exsb).ok = exsb.ok /\ Resigned(exsb) \in Exsb
    BY <2>1, <2>2, <2>3, Signed
  <2>5. /\ Resigned(exsb_copy).ver = <<c, 0>> /\ Resigned(exsb_copy).meta = exsb_copy.meta
        /\ Resigned(exsb_copy).ok = exsb_copy.ok /\ Resigned(exsb_copy) \in Exsb
    BY <2>1, <2>2, <2>3, Signed
  <2> QED
    BY <2>4, <2>5
<1>6. exsb.ok /\ exsb_copy.ok
  BY DEF Verify
<1>7. CASE UseCopy(exsb, exsb_copy, v)
  <2>1. exsb.ver # exsb_copy.ver /\ v = exsb_copy.ver
    BY <1>7 DEF UseCopy, SameExsb
  <2>2. Good(exsb_copy)
    BY <2>1 DEF Superblocks
  <2>3. c = m /\ a <= m
    BY <1>1, <1>2, <1>3, <2>2 DEF Superblocks, Good
  <2>4. c > 0
    <3>1. /\ a = 0 => exsb.ver = <<0, 1>>
          /\ c = 0 => exsb_copy.ver = <<0, 1>>
      BY <1>1, <1>2 DEF Superblocks
    <3>2. c = 0 => a = 0
      BY <2>3
    <3> QED
      BY <2>1, <3>1, <3>2
  <2>5. <<c, 0>> # Zero
    BY <2>4 DEF Zero
  <2>6. Good(Resigned(exsb_copy))
    BY <1>2, <1>3, <1>5, <1>6, <2>2, <2>3, <2>5 DEF Good, Verify
  <2>7. RestoredExsb(exsb, exsb_copy, v) = Resigned(exsb_copy)
    BY <1>7, <2>1 DEF RestoredExsb, SameExsb
  <2>8. /\ Resigned(exsb_copy) \in Exsb /\ Resigned(exsb_copy).ok
        /\ Resigned(exsb_copy).meta = committed.meta
        /\ Resigned(exsb_copy).ver[1] = committed.ver[1]
    BY <1>5, <1>6, <2>6 DEF Good
  <2>9. exsb.ver[1] \in Nat /\ committed.ver[1] \in Nat /\ Resigned(exsb_copy).ver[1] > 0
    BY <1>1, <1>3, <1>5, <2>4
  <2> QED
    BY <1>7, <2>2, <2>6, <2>7, <2>8, <2>9
<1>8. CASE ~ UseCopy(exsb, exsb_copy, v)
  <2>1. exsb.ver = exsb_copy.ver \/ v # exsb_copy.ver
    BY <1>8 DEF UseCopy, SameExsb
  <2>2. Good(exsb)
    BY <2>1 DEF Superblocks
  <2>3. RestoredExsb(exsb, exsb_copy, v) \in {exsb, Resigned(exsb)}
    BY <1>8 DEF RestoredExsb
  <2>4. /\ exsb \in Exsb /\ exsb.ok /\ exsb.meta = committed.meta
        /\ exsb.ver[1] = committed.ver[1]
    BY <1>6, <2>2 DEF Good, TypeOK
  <2>5. Resigned(exsb).ver[1] = exsb.ver[1]
    BY <1>1, <1>5
  <2>6. exsb.ver[1] \in Nat /\ committed.ver[1] \in Nat
    BY <1>1, <1>3
  <2>7. \A r \in {exsb, Resigned(exsb)} :
           r \in Exsb /\ r.ok /\ r.meta = committed.meta /\ r.ver[1] = committed.ver[1]
    BY <1>5, <2>4, <2>5, Zenon
  <2> QED
    BY <1>8, <2>2, <2>3, <2>6, <2>7
<1> QED
  BY <1>7, <1>8

--------------------------------------------------------------------------------
(* Steps that leave the tables of half h alone.                               *)

\* The disk does not change.
LEMMA SameDisk ==
    ASSUME NEW h, Tables(h), Superblocks(h), UNCHANGED <<slot, exsb, exsb_copy, committed>>
    PROVE  Tables(h)' /\ Superblocks(h)'
<1>1. Tables(h)'
  BY Zenon DEF Tables, Exts
<1>2. Superblocks(h)'
  BY Zenon DEF Superblocks, Good
<1> QED
  BY <1>1, <1>2, Zenon

\* restore_exsb leaves two superblocks of the last commit.
LEMMA RestoredDisk ==
    ASSUME NEW h, NEW v, TypeOK, Tables(h), Superblocks(h), RestoreExsb(v), slot' = slot,
           committed' = committed, Good(exsb)',
           UseCopy(exsb, exsb_copy, v) => Good(exsb_copy) /\ Resigned(exsb_copy).ver[1] > 0,
           ~ UseCopy(exsb, exsb_copy, v) => Good(exsb),
           committed.ver[1] \in Nat
    PROVE  Superblocks(h)'
<1>1. exsb'.ver[1] = committed.ver[1]
  BY DEF Good
<1>2. exsb'.ver[1] <= committed'.ver[1]
  BY <1>1
<1>3. CASE UseCopy(exsb, exsb_copy, v)
  <2>1. /\ exsb' = Resigned(exsb_copy) /\ exsb_copy' = exsb_copy
        /\ Good(exsb_copy) /\ Resigned(exsb_copy).ver[1] > 0
    BY <1>3, Zenon DEF RestoreExsb, UseCopy, DropCopy
  <2>2. Good(exsb_copy)'
    BY <2>1, Zenon DEF Good, Verify
  <2>3. committed.ver[1] # 0
    BY <1>1, <2>1
  <2>4. exsb_copy'.ver[1] # 0
    BY <2>1, <2>3, Zenon DEF Good
  <2> QED
    BY <1>1, <1>2, <2>2, <2>3, <2>4, Zenon DEF Superblocks
<1>4. CASE DropCopy(exsb, exsb_copy, v)
  <2>1. /\ exsb' = exsb /\ exsb_copy' = Resigned(exsb) /\ Good(exsb)
    BY <1>4, Zenon DEF RestoreExsb, UseCopy, DropCopy
  <2>2. PICK a, b \in Nat : exsb.ver = <<a, b>>
    BY VersionParts DEF TypeOK, Exsb
  <2>3. /\ exsb_copy'.ver = <<a, 0>> /\ exsb_copy'.ok = exsb.ok
        /\ exsb_copy'.meta = exsb.meta
    BY <2>1, <2>2 DEF Resigned, TypeOK, Exsb
  <2>4. Verify(exsb_copy)' => a # 0 /\ Good(exsb_copy)'
    BY <2>1, <2>2, <2>3 DEF Good, Verify, Zero
  <2>5. exsb_copy'.ver[1] = a /\ exsb.ver[1] = a
    BY <2>2, <2>3
  <2>6. Verify(exsb)' /\ exsb'.ver[1] = 0 => exsb'.ver = <<0, 1>>
    BY <2>1, Zenon DEF Superblocks, Verify
  <2> QED
    BY <1>2, <2>4, <2>5, <2>6, Zenon DEF Superblocks, Verify
<1>5. CASE ~ UseCopy(exsb, exsb_copy, v) /\ ~ DropCopy(exsb, exsb_copy, v)
  <2>1. exsb' = exsb /\ exsb_copy' = exsb_copy
    BY <1>5, Zenon DEF RestoreExsb
  <2> QED
    BY <2>1, SameDisk
<1> QED
  BY <1>3, <1>4, <1>5

\* Page i, after the tables of half h or in the other half, becomes p: the same
\* page, a page that reads badly, or a tail page.
Spares(h, i, p) ==
    /\ i \in Slots
    /\ i < h \/ i >= ExtStart(slot, h) + Exts(h)
    /\ p = slot[i] \/ ~ p.ok \/ (p.sig = "tail" /\ i # Half - h)
    /\ slot' = [slot EXCEPT ![i] = p]

\* The replayed table depends on the pages of half h only.
LEMMA SameReplayed ==
    ASSUME NEW s, NEW new, NEW h, NEW n, NEW t, Replayed(s, h, n, t), new[h] = s[h],
           \A k \in 1 .. n : new[ExtAt(new, h, k)] = s[ExtAt(s, h, k)]
    PROVE  Replayed(new, h, n, t)
<1>1. DOMAIN t = DOMAIN new[h].table
  BY DEF Replayed
<1>2. ASSUME NEW o \in DOMAIN t, NEW k \in 1 .. n, LastRecord(s, h, n, o, k)
      PROVE  LastRecord(new, h, n, o, k)
  BY <1>2, Zenon DEF LastRecord
<1>3. ASSUME NEW o \in DOMAIN t
      PROVE  \/ /\ \A k \in 1 .. n : o \notin DOMAIN new[ExtAt(new, h, k)].table
                /\ t[o] = new[h].table[o]
             \/ \E k \in 1 .. n : /\ LastRecord(new, h, n, o, k)
                                  /\ t[o] = RecordIn(new[ExtAt(new, h, k)], o)
  <2>1. CASE \E k \in 1 .. n : /\ LastRecord(s, h, n, o, k)
                               /\ t[o] = RecordIn(s[ExtAt(s, h, k)], o)
    BY <1>2, <2>1
  <2>2. CASE /\ \A k \in 1 .. n : o \notin DOMAIN s[ExtAt(s, h, k)].table
             /\ t[o] = s[h].table[o]
    BY <2>2
  <2> QED
    BY <2>1, <2>2, Zenon DEF Replayed
<1> QED
  BY <1>1, <1>3 DEF Replayed

\* A write that spares the tables of half h leaves the last commit there.
LEMMA SameTables ==
    ASSUME Fits, TypeOK, NEW h \in Halves, Tables(h), NEW i, NEW p, Spares(h, i, p),
           committed' = committed
    PROVE  Tables(h)' /\ slot'[h] = slot[h] /\ ExtStart(slot', h) = ExtStart(slot, h)
<1> DEFINE n == Exts(h)
           start == ExtStart(slot, h)
<1>1. DOMAIN slot = Slots /\ DOMAIN slot' = Slots
  BY DEF TypeOK, Spares
<1>2. \A j \in Slots : j # i => slot'[j] = slot[j]
  BY <1>1 DEF Spares
<1>3. h \in Slots /\ h \in Nat /\ n \in Nat /\ h < start /\ start \in Nat
  BY HalvesFit, ChainFits
<1>4. \A j \in Slots : h <= j /\ j < start + n => slot'[j] = slot[j]
  BY <1>2, <1>3 DEF Spares, Slots
<1>5. slot'[h] = slot[h]
  BY <1>3, <1>4
<1>6. ExtStart(slot', h) = start /\ start = h + BasePages(slot[h].table)
  BY <1>5 DEF ExtStart
<1>7. ValidBase(slot', h)
  <2>1. ValidBase(slot, h)
    BY DEF Tables
  <2>2. BasePages(slot[h].table) \in Nat
    BY ChainFits
  <2>3. ASSUME NEW k \in 1 .. BasePages(slot[h].table) - 1
        PROVE  h + k \in Slots /\ slot'[h + k] = slot[h + k]
    <3>1. h + k \in DOMAIN slot
      BY <2>1 DEF ValidBase
    <3>2. h <= h + k /\ h + k < start + n
      BY <1>3, <1>6, <2>2
    <3> QED
      BY <1>1, <1>4, <3>1, <3>2
  <2> QED
    BY <1>1, <1>5, <2>1, <2>3, Zenon DEF ValidBase
<1>8. ASSUME NEW k \in 1 .. n
      PROVE  slot'[ExtAt(slot, h, k)] = slot[ExtAt(slot, h, k)]
  <2>1. ExtAt(slot, h, k) \in Slots
    BY <1>1 DEF Tables, ExtFollows
  <2>2. h <= ExtAt(slot, h, k) /\ ExtAt(slot, h, k) < start + n
    BY <1>3 DEF ExtAt
  <2> QED
    BY <1>4, <2>1, <2>2, Zenon
<1>9. \A k : ExtAt(slot', h, k) = ExtAt(slot, h, k)
  BY <1>6 DEF ExtAt
<1>10. Exts(h)' = n
  BY <1>5, Zenon DEF Exts
<1>11. ASSUME NEW k \in 1 .. n
       PROVE  /\ ExtFollows(slot', ExtAt(slot', h, k),
                            <<slot'[h].ver[1], slot'[h].ver[2] + k>>)
              /\ DOMAIN slot'[ExtAt(slot', h, k)].table \subseteq DOMAIN slot'[h].table
  <2>1. /\ ExtFollows(slot, ExtAt(slot, h, k), <<slot[h].ver[1], slot[h].ver[2] + k>>)
        /\ DOMAIN slot[ExtAt(slot, h, k)].table \subseteq DOMAIN slot[h].table
    BY DEF Tables
  <2> QED
    BY <1>1, <1>5, <1>8, <1>9, <2>1, Zenon DEF ExtFollows
<1>12. Replayed(slot', h, n, committed.table)
  <2>1. Replayed(slot, h, n, committed.table)
    BY DEF Tables
  <2>2. \A k \in 1 .. n : slot'[ExtAt(slot', h, k)] = slot[ExtAt(slot, h, k)]
    BY <1>8, <1>9
  <2> HIDE DEF n
  <2> QED
    BY <1>5, <2>1, <2>2, SameReplayed, Zenon
<1>13. \A j \in Slots : slot'[j].sig = "ext" /\ slot'[j].ok =>
                           ~ Newer(slot'[j].ver, committed.ver)
  BY <1>1, <1>2, Zenon DEF Tables, Spares
<1>14. slot'[Half - h].sig = "base" /\ slot'[Half - h].ok =>
          Newer(slot'[h].ver, slot'[Half - h].ver)
  <2>1. Half - h \in Slots
    BY HalvesFit, Zenon
  <2> QED
    BY <1>1, <1>2, <1>5, <2>1 DEF Tables, Spares
<1>15. /\ slot'[h].ver # Zero
       /\ DOMAIN slot'[h].table # {}
       /\ committed'.ver[1] = slot'[h].ver[1]
       /\ n \in 0 .. ExtTables
  BY <1>5 DEF Tables
<1> HIDE DEF n
<1>16. Tables(h)'
  BY <1>7, <1>10, <1>11, <1>12, <1>13, <1>14, <1>15, Zenon DEF Tables
<1> QED
  BY <1>5, <1>6, <1>16

\* The superblocks and the base table stay.
LEMMA SameSuperblocks ==
    ASSUME NEW h, Superblocks(h), slot'[h].ver = slot[h].ver,
           UNCHANGED <<exsb, exsb_copy, committed>>
    PROVE  Superblocks(h)'
BY DEF Superblocks, Good

\* A damaged or a new page is a page.
LEMMA PageWritten ==
    ASSUME TypeOK, NEW i \in Slots, NEW p, IsPage(p), slot' = [slot EXCEPT ![i] = p]
    PROVE  DOMAIN slot' = Slots /\ \A j \in Slots : IsPage(slot'[j])
BY DEF TypeOK

\* A page whose write was cut short is a page that reads badly.
LEMMA TornIsPage ==
    ASSUME NEW old, NEW new, IsPage(old), IsPage(new), NEW p \in Torn(old, new)
    PROVE  IsPage(p) /\ ~ p.ok
BY Zenon DEF Torn, IsPage

\* The parts of the state that the steps in memory leave alone.
LEMMA MemoryStep ==
    ASSUME NEW h, InvAt(h), UNCHANGED <<disk, committed>>
    PROVE  /\ Tables(h)' /\ Superblocks(h)'
           /\ Exts(h)' = Exts(h) /\ ExtStart(slot', h) = ExtStart(slot, h)
           /\ Good(exsb) => Good(exsb)'
           /\ Good(exsb_copy) => Good(exsb_copy)'
<1>1. UNCHANGED <<slot, exsb, exsb_copy, committed>>
  BY DEF disk
<1>2. Tables(h)' /\ Superblocks(h)'
  BY <1>1, SameDisk, Zenon DEF InvAt
<1> QED
  BY <1>1, <1>2 DEF Exts, Good, Verify

\* A volume that is down, or read-only, has no memory to relate to the disk.
LEMMA DownMemory ==
    ASSUME NEW h, pc' = "down", sync_count' = 0, use_base_table' = FALSE, dirty' = {}
    PROVE  Memory(h)'
BY DEF Memory, Uncommitted, Collecting, Writing

\* After an error that makes the mount read-only the memory has nothing to relate
\* to the disk either.
LEMMA ReadOnlyMemory ==
    ASSUME NEW h, pc' = "ro"
    PROVE  Memory(h)'
BY DEF Memory, Uncommitted, Collecting, Writing

--------------------------------------------------------------------------------
(* The running commit.                                                        *)

\* The running commit has a newer version than the last one.
LEMMA VerIsNewer ==
    ASSUME TypeOK, Mounted, pc \in Uncommitted
    PROVE  Ver \in Version /\ Ver # Zero /\ Newer(Ver, committed.ver)
<1>1. raw_exsb.ver \in Version /\ committed.ver \in Version /\ sync_count \in Nat
  BY DEF TypeOK, Exsb
<1>2. PICK m \in Nat, x \in Nat : raw_exsb.ver = <<m, x>>
  BY <1>1, VersionParts
<1>3. PICK c \in Nat, d \in Nat : committed.ver = <<c, d>>
  BY <1>1, VersionParts
<1>4. PICK y \in Nat : sync_count = y
  BY <1>1
<1>5. Ver = <<m, y>> /\ m > 0
  BY <1>2, <1>4 DEF Ver, Mounted
<1>6. m > c \/ (m = c /\ d = y - 1)
  BY <1>2, <1>3, <1>4 DEF Mounted
<1> QED
  BY <1>3, <1>5, <1>6, NewerParts DEF Version, Zero

\* Nothing on the disk is newer than the version of the running commit.
LEMMA NothingNewer ==
    ASSUME TypeOK, NEW h, Tables(h), Mounted, pc \in Uncommitted
    PROVE  \A i \in Slots : slot[i].sig = "ext" /\ slot[i].ok => ~ Newer(slot[i].ver, Ver)
<1>1. Ver \in Version /\ committed.ver \in Version /\ Newer(Ver, committed.ver)
  BY VerIsNewer DEF TypeOK
<1>2. ASSUME NEW i \in Slots, slot[i].sig = "ext", slot[i].ok
      PROVE  ~ Newer(slot[i].ver, Ver)
  <2>1. ~ Newer(slot[i].ver, committed.ver) /\ slot[i].ver \in Version
    BY <1>2 DEF Tables, TypeOK, IsPage
  <2> QED
    BY <1>1, <2>1, NewerOrder, Zenon
<1> QED
  BY <1>2

\* The write that the two actions of the commit point share.
HeadWritten ==
    /\ pc = "head"
    /\ slot' = [slot EXCEPT ![out.at] = HeadPage]
    /\ Commits

\* Where the tables of half h are: the first n extended tables follow a base
\* table of version <<a, b>> with pages up to x.
Layout(h, a, b, n, x) ==
    /\ Exts(h) = n /\ n <= ExtTables
    /\ ExtStart(slot, h) = x /\ h < x /\ x + ExtTables < h + Half
    /\ BasePages(slot[h].table) = x - h
    /\ slot[h].ver = <<a, b>> /\ committed.ver = <<a, b + n>>

\* The tables in use have a layout, in natural numbers.
LEMMA HasLayout ==
    ASSUME Fits, TypeOK, NEW h \in Halves, Tables(h)
    PROVE  \E a, b, n, x \in Nat : Layout(h, a, b, n, x)
<1>1. slot[h].ver \in Version
  BY ChainFits, Zenon
<1>2. PICK a \in Nat, b \in Nat : slot[h].ver = <<a, b>>
  BY <1>1, VersionParts
<1>3. PICK n \in Nat : n = Exts(h)
  BY ChainFits
<1>4. PICK x \in Nat : x = ExtStart(slot, h)
  BY ChainFits
<1>5. PICK p \in Nat : p = BasePages(slot[h].table) /\ x = h + p
  BY <1>4, ChainFits
<1>6. h \in Nat
  BY HalvesFit
<1>7. p = x - h
  BY <1>5, <1>6
<1>8. n <= ExtTables /\ h < x /\ x + ExtTables < h + Half
  BY <1>3, <1>4, ChainFits, Zenon
<1>9. committed.ver = <<a, b + n>>
  BY <1>2, <1>3, ChainFits
<1>10. Layout(h, a, b, n, x)
  BY <1>2, <1>3, <1>4, <1>5, <1>7, <1>8, <1>9, Zenon DEF Layout
<1> QED
  BY <1>10, Zenon

\* The running commit is newer than the base table in use.
LEMMA VerAfterBase ==
    ASSUME Fits, TypeOK, NEW h \in Halves, Tables(h), Mounted, pc \in Uncommitted
    PROVE  Newer(Ver, slot[h].ver) /\ Ver # slot[h].ver
<1>1. Ver \in Version /\ Newer(Ver, committed.ver)
  BY VerIsNewer
<1>2. PICK a, b \in Nat : Ver = <<a, b>>
  BY <1>1, VersionParts
<1>3. PICK c, d, n, x \in Nat : Layout(h, c, d, n, x)
  BY HasLayout
<1>4. slot[h].ver = <<c, d>> /\ committed.ver = <<c, d + n>> /\ d + n \in Nat
  BY <1>3 DEF Layout
<1>5. a > c \/ (a = c /\ b > d + n)
  BY <1>1, <1>2, <1>4, NewerParts
<1>6. a > c \/ (a = c /\ b > d)
  BY <1>5
<1>7. Newer(Ver, slot[h].ver)
  <2>1. Newer(Ver, slot[h].ver) <=> a > c \/ (a = c /\ b > d)
    BY <1>2, <1>4, NewerParts
  <2> QED
    BY <1>6, <2>1
<1>8. Ver # slot[h].ver
  BY <1>2, <1>4, <1>6
<1> QED
  BY <1>7, <1>8

\* A page of the base table being written, or the page of an extended table, is
\* not one of the tables in use.
LEMMA WritesElsewhere ==
    ASSUME Fits, NEW h \in Halves, InvAt(h), NEW i,
           \/ pc = "tail" /\ i \in out.tail
           \/ pc = "head" /\ i = out.at
    PROVE  /\ i \in Slots /\ i \in Nat
           /\ i < h \/ i >= ExtStart(slot, h) + Exts(h)
           /\ pc = "tail" => i # Half - h
<1>1. TypeOK /\ Tables(h) /\ Memory(h)
  BY DEF InvAt
<1>2. PICK a, b, n, x \in Nat : Layout(h, a, b, n, x)
  BY <1>1, HasLayout, Zenon
<1>3. ExtStart(slot, h) = x /\ Exts(h) = n /\ n <= ExtTables /\ h < x
      /\ x + ExtTables < h + Half
  BY <1>2 DEF Layout
<1>4. Half \in Nat /\ Half > 0 /\ h \in Nat /\ h \in {0, Half}
  BY HalvesFit DEF Halves
<1>5. DOMAIN base_t \in SUBSET Object
  BY <1>1 DEF TypeOK, IsTable
<1>6. PICK p \in Nat : p = BasePages(base_t) /\ p + ExtTables < Half
  BY <1>5, PagesFit
<1>7. CASE out.base
  <2>1. /\ out.at = Half - h
        /\ out.tail \subseteq TailPages(out.at)
        /\ pc = "head" => i = out.at
        /\ pc = "tail" => i \in out.tail
    BY <1>1, <1>7, Zenon DEF Memory, Writing
  <2>2. CASE pc = "head"
    <3>1. i = Half - h
      BY <2>1, <2>2
    <3>2. CASE h = 0
      BY <1>3, <1>4, <2>2, <3>1, <3>2 DEF Slots
    <3>3. CASE h = Half
      BY <1>3, <1>4, <2>2, <3>1, <3>3 DEF Slots
    <3> QED
      BY <1>4, <3>2, <3>3, Zenon
  <2>3. CASE pc = "tail"
    <3>1. i \in TailPages(Half - h)
      BY <2>1, <2>3
    <3>2. PICK k \in 1 .. p - 1 : i = Half - h + k
      BY <1>6, <3>1, Zenon DEF TailPages
    <3>3. CASE h = 0
      <4>1. i = Half + k /\ k < Half /\ k >= 1 /\ k \in Nat
        BY <1>4, <1>6, <3>2, <3>3
      <4>2. i >= x + n
        BY <1>3, <1>4, <3>3, <4>1
      <4> QED
        BY <1>3, <1>4, <3>3, <4>1, <4>2 DEF Slots
    <3>4. CASE h = Half
      BY <1>3, <1>4, <1>6, <3>2, <3>4 DEF Slots
    <3> QED
      BY <1>4, <3>3, <3>4
  <2> QED
    BY <2>2, <2>3, Zenon
<1>8. CASE ~ out.base
  <2>1. pc = "head" /\ i = x + n /\ n + 1 <= ExtTables
    BY <1>1, <1>3, <1>8, Zenon DEF Memory
  <2>2. CASE h = 0
    BY <1>3, <1>4, <2>1, <2>2 DEF Slots
  <2>3. CASE h = Half
    BY <1>3, <1>4, <2>1, <2>3 DEF Slots
  <2> QED
    BY <1>4, <2>2, <2>3
<1> QED
  BY <1>7, <1>8

\* The pages that are written are pages.
LEMMA WritesPages ==
    ASSUME TypeOK
    PROVE  IsPage(TailPage) /\ IsPage(HeadPage) /\ TailPage.sig = "tail"
<1>1. Ver \in Version
  BY DEF TypeOK, Exsb, Version, Ver
<1>2. IsTable(base_t) /\ IsRecords(extended_table)
  BY DEF TypeOK
<1>3. IsPage(TailPage) /\ TailPage.sig = "tail"
  BY <1>1, <1>2, Zenon DEF TailPage, IsPage
<1>4. CASE out.base
  <2>1. HeadPage = [sig |-> "base", ver |-> Ver, table |-> base_t, ok |-> TRUE]
    BY <1>4 DEF HeadPage
  <2> QED
    BY <1>1, <1>2, <1>3, <2>1 DEF IsPage
<1>5. CASE ~ out.base
  <2>1. HeadPage = [sig |-> "ext", ver |-> Ver, table |-> extended_table, ok |-> TRUE]
    BY <1>5 DEF HeadPage
  <2> QED
    BY <1>1, <1>2, <1>3, <2>1 DEF IsPage
<1> QED
  BY <1>3, <1>4, <1>5

\* A page left by a write that failed or was cut short spares the last commit.
LEMMA BadPage ==
    ASSUME Fits, NEW h \in Halves, InvAt(h), NEW i, NEW p, slot' = [slot EXCEPT ![i] = p],
           UNCHANGED <<exsb, exsb_copy, committed>>,
           \/ /\ pc = "tail" /\ i \in out.tail
              /\ p \in {slot[i], TailPage} \cup Torn(slot[i], TailPage)
           \/ /\ pc = "head" /\ i = out.at
              /\ p \in {slot[i]} \cup Torn(slot[i], HeadPage)
    PROVE  /\ Tables(h)' /\ Superblocks(h)'
           /\ DOMAIN slot' = Slots /\ \A j \in Slots : IsPage(slot'[j])
<1>1. TypeOK /\ Tables(h) /\ Superblocks(h)
  BY Zenon DEF InvAt
<1>2. i \in Slots /\ (i < h \/ i >= ExtStart(slot, h) + Exts(h))
      /\ (pc = "tail" => i # Half - h)
  BY WritesElsewhere
<1>3. IsPage(slot[i])
  BY <1>1, <1>2, Zenon DEF TypeOK
<1>4. IsPage(p) /\ (p = slot[i] \/ ~ p.ok \/ (p.sig = "tail" /\ i # Half - h))
  <2>1. CASE p = slot[i]
    BY <1>3, <2>1, Zenon
  <2>2. CASE p = TailPage /\ pc = "tail"
    BY <1>1, <1>2, <2>2, WritesPages, Zenon
  <2>3. CASE p \in Torn(slot[i], TailPage)
    BY <1>1, <1>3, <2>3, WritesPages, TornIsPage, Zenon
  <2>4. CASE p \in Torn(slot[i], HeadPage)
    BY <1>1, <1>3, <2>4, WritesPages, TornIsPage, Zenon
  <2> QED
    BY <2>1, <2>2, <2>3, <2>4
<1>5. Spares(h, i, p)
  BY <1>2, <1>4, Zenon DEF Spares
<1>6. Tables(h)' /\ slot'[h] = slot[h]
  BY <1>1, <1>5, SameTables, Zenon
<1>7. Superblocks(h)'
  BY <1>1, <1>6, SameSuperblocks
<1> QED
  BY <1>1, <1>2, <1>4, <1>6, <1>7, PageWritten, Zenon

--------------------------------------------------------------------------------
(* The steps outside the tables area: the mount, the changes in memory, the     *)
(* superblocks and a crash.                                                     *)

\* mkfs leaves its commit in the first half.
LEMMA InitInv ==
    ASSUME Fits, Init
    PROVE  InvAt(0)
<1> DEFINE t == [o \in DOMAIN InitTable |-> [b |-> InitTable[o], v |-> <<0, 1>>]]
           head == [sig |-> "base", ver |-> <<0, 1>>, table |-> t, ok |-> TRUE]
           tail == [sig |-> "tail", ver |-> <<0, 1>>, table |-> t, ok |-> TRUE]
<1>1. <<0, 1>> \in Version /\ <<0, 1>> # Zero /\ Zero \in Version
  BY DEF Version, Zero
<1>2. IsTable(t) /\ DOMAIN t # {}
  BY <1>1, ConstantsAssumption DEF IsTable, Record
<1>3. PICK p \in Nat : p = BasePages(InitTable) /\ p >= 1 /\ p + ExtTables < Half
  BY PagesFit, ConstantsAssumption
<1>4. BasePages(t) = p
  BY <1>3 DEF BasePages
<1>5. 0 \in Slots /\ Half \in Slots /\ Half \in Nat /\ Half >= p
  BY <1>3, HalvesFit DEF Halves
<1>6. /\ DOMAIN slot = Slots
      /\ slot[0] = head
      /\ \A i \in Slots : i >= p => slot[i] = NoPage
      /\ \A i \in Slots : i # 0 /\ i < p => slot[i] = tail
  BY <1>3, <1>5 DEF Init, Slots
<1>7. IsPage(head) /\ IsPage(tail) /\ IsPage(NoPage)
  BY <1>1, <1>2, ZenonT(30) DEF IsPage, NoPage, IsRecords, NoRecords
<1>8. exsb \in Exsb /\ exsb_copy \in Exsb /\ raw_exsb \in Exsb
  BY <1>1, ConstantsAssumption, Zenon DEF Init, Exsb
<1>9. committed = [table |-> t, meta |-> InitMeta, ver |-> <<0, 1>>]
  <2>1. slot[0].table = t
    BY <1>6
  <2>2. committed = [table |-> slot[0].table, meta |-> InitMeta, ver |-> <<0, 1>>]
    BY Zenon DEF Init
  <2> QED
    BY <2>1, <2>2, Zenon
<1> DEFINE pages == {head, tail, NoPage}
<1>15. /\ \A i \in Slots : slot[i] \in pages
       /\ head.sig = "base" /\ head.ok /\ head.ver = <<0, 1>> /\ head.table = t
       /\ tail.sig = "tail" /\ tail.ok /\ tail.ver = <<0, 1>> /\ tail.table = t
       /\ NoPage.sig = "none"
  <2>1. \A i \in Slots : i >= p \/ i = 0 \/ (i # 0 /\ i < p)
    BY DEF Slots
  <2>2. \A i \in Slots : slot[i] \in pages
    BY <1>6, <2>1
  <2> QED
    BY <2>2 DEF NoPage
<1> HIDE DEF head, tail, t
<1>10. TypeOK
  <2>1. \A i \in Slots : IsPage(slot[i])
    BY <1>7, <1>15, Zenon
  <2>2. IsTable(base_t) /\ IsRecords(extended_table)
    BY Zenon DEF Init, IsTable, IsRecords, NoRecords
  <2>3. /\ exteneded_table_count \in 0 .. ExtTables
        /\ iblock \in Nat
        /\ sync_count \in Nat
        /\ dirty \in SUBSET Object
        /\ pc = "down"
    BY DEF Init
  <2>6. use_base_table \in BOOLEAN /\ exsb_dirty \in BOOLEAN
    BY Zenon DEF Init
  <2>5. out \in [base : BOOLEAN, at : Nat, tail : SUBSET Nat]
    BY DEF Init, NoOut
  <2>4. /\ committed \in [table : {committed.table}, meta : SUBSET Block, ver : Version]
        /\ IsTable(committed.table)
    BY <1>1, <1>2, <1>9, ConstantsAssumption, Zenon
  <2> QED
    BY <1>6, <1>8, <2>1, <2>2, <2>3, <2>4, <2>5, <2>6, Zenon DEF TypeOK
<1>11. Tables(0)
  <2>1. ValidBase(slot, 0)
    <3>1. ASSUME NEW k \in 1 .. p - 1
          PROVE  0 + k \in Slots /\ slot[0 + k] = tail
      <4>1. 0 + k = k /\ k \in Slots /\ k # 0 /\ k < p
        BY <1>3 DEF Slots
      <4> QED
        BY <1>6, <4>1
    <3> QED
      BY <1>4, <1>6, <1>15, <3>1 DEF ValidBase
  <2>2. Exts(0) = 0
    BY <1>6, <1>9, <1>15 DEF Exts
  <2>3. Replayed(slot, 0, 0, committed.table)
    BY <1>6, <1>9, <1>15 DEF Replayed
  <2>4. \A i \in Slots : slot[i].sig # "ext"
    BY <1>15, Zenon
  <2>5. Half - 0 = Half /\ slot[Half].sig = "none"
    BY <1>5, <1>6, <1>15
  <2>6. /\ slot[0].ver # Zero /\ DOMAIN slot[0].table # {}
        /\ committed.ver[1] = slot[0].ver[1]
    BY <1>1, <1>2, <1>6, <1>9, <1>15, Zenon
  <2> QED
    BY <2>1, <2>2, <2>3, <2>4, <2>5, <2>6 DEF Tables
<1>12. Superblocks(0)
  BY <1>1, <1>9 DEF Superblocks, Good, Verify, Init
<1>13. Memory(0)
  BY DEF Memory, Init, Uncommitted, Collecting, Writing
<1> QED
  BY <1>10, <1>11, <1>12, <1>13 DEF InvAt

\* Reading the superblocks: a damaged one is replaced by the good one.
LEMMA SbReadInv ==
    ASSUME NEW h, InvAt(h), SbRead
    PROVE  InvAt(h)'
<1>1. TypeOK'
  BY DEF SbRead, InvAt, TypeOK, ReadExsb, ReadExsbCopy
<1>2. Tables(h)'
  BY ZenonT(30) DEF SbRead, InvAt, Tables, Exts
<1>3. /\ ~ Verify(exsb) => Good(exsb_copy)
      /\ ~ Verify(exsb_copy) => Good(exsb)
  BY ZenonT(30) DEF InvAt, Superblocks, Good
<1>4. Superblocks(h)' /\ Verify(exsb)' /\ Verify(exsb_copy)'
  <2>1. CASE Verify(exsb) /\ Verify(exsb_copy)
    <3>1. UNCHANGED <<exsb, exsb_copy, slot, committed>>
      BY <2>1, Zenon DEF SbRead, ReadExsb, ReadExsbCopy
    <3> QED
      BY <2>1, <3>1 DEF InvAt, Superblocks, Good, Verify
  <2>2. CASE ~ Verify(exsb)
    <3>1. exsb' = exsb_copy /\ exsb_copy' = exsb_copy /\ Good(exsb_copy)
          /\ committed' = committed
      BY <1>3, <2>2, ZenonT(30) DEF SbRead, ReadExsb, ReadExsbCopy, Good
    <3>2. Good(exsb)' /\ Good(exsb_copy)'
      BY <3>1 DEF Good, Verify
    <3>3. exsb_copy.ver[1] <= committed.ver[1]
      BY <3>1 DEF Good, InvAt, TypeOK, Version
    <3> QED
      BY <3>1, <3>2, <3>3, Zenon DEF InvAt, Superblocks, Good, Verify
  <2>3. CASE ~ Verify(exsb_copy)
    <3>1. exsb' = exsb /\ exsb_copy' = exsb /\ Good(exsb) /\ committed' = committed
      BY <1>3, <2>3, Zenon DEF SbRead, ReadExsb, ReadExsbCopy, Good
    <3>2. Good(exsb)' /\ Good(exsb_copy)'
      BY <3>1 DEF Good, Verify
    <3> QED
      BY <3>1, <3>2, Zenon DEF InvAt, Superblocks, Good, Verify
  <2> QED
    BY <2>1, <2>2, <2>3, Zenon
<1>5. Memory(h)'
  BY <1>4, ZenonT(30) DEF SbRead, InvAt, Memory, Uncommitted, Collecting, Writing
<1> QED
  BY <1>1, <1>2, <1>4, <1>5, Zenon DEF InvAt

\* The mount: the memory starts out as the last commit.
LEMMA BuildSnapshotManagerInv ==
    ASSUME Fits, NEW h \in Halves, InvAt(h), BuildSnapshotManager
    PROVE  InvAt(h)'
<1> DEFINE v == slot[h].ver
           e == RestoredExsb(exsb, exsb_copy, v)
<1>1. TypeOK /\ Tables(h) /\ Superblocks(h) /\ Memory(h) /\ pc = "mount"
  BY Zenon DEF InvAt, BuildSnapshotManager
<1>2. Verify(exsb) /\ Verify(exsb_copy) /\ sync_count = 0 /\ ~ use_base_table
      /\ dirty = {}
  BY <1>1 DEF Memory
<1>3. LoadBase(slot) = h /\ ExtCount(slot, h) = Exts(h)
      /\ Replay(slot, h) = committed.table
  BY <1>1, LoadsBase, CountsExts, ReplaysCommit
<1>4. /\ RestoreExsb(v)
      /\ base_t' = committed.table
      /\ exteneded_table_count' = Exts(h)
      /\ iblock' = ExtStart(slot, h) + Exts(h)
      /\ raw_exsb' = [e EXCEPT !.ver = <<e.ver[1] + 1, e.ver[2]>>]
  BY <1>3 DEF BuildSnapshotManager
<1>5. /\ extended_table' = NoRecords /\ exsb_dirty' = TRUE /\ pc' = "idle"
      /\ UNCHANGED <<slot, use_base_table, sync_count, dirty, out, committed>>
  BY DEF BuildSnapshotManager
<1>6. /\ e \in Exsb /\ e.ok /\ e.meta = committed.meta /\ e.ver[1] = committed.ver[1]
      /\ UseCopy(exsb, exsb_copy, v) =>
            Good(exsb_copy) /\ Good(Resigned(exsb_copy)) /\ Resigned(exsb_copy).ver[1] > 0
      /\ ~ UseCopy(exsb, exsb_copy, v) => Good(exsb)
      /\ exsb.ver[1] \in Nat /\ committed.ver[1] \in Nat
  BY <1>1, <1>2, RestoresSuperblocks, ZenonT(30)
<1> HIDE DEF e
<1>7. PICK m, x \in Nat : e.ver = <<m, x>>
  BY <1>6, VersionParts DEF Exsb
<1>8. /\ raw_exsb'.ver = <<m + 1, x>> /\ raw_exsb'.ok /\ raw_exsb'.meta = committed.meta
      /\ raw_exsb' \in Exsb /\ committed.ver[1] = m
  <2>1. raw_exsb' = [e EXCEPT !.ver = <<m + 1, x>>]
    BY <1>4, <1>7
  <2>2. <<m + 1, x>> \in Version
    BY DEF Version
  <2>3. committed.ver[1] = m
    BY <1>6, <1>7
  <2> QED
    BY <1>6, <2>1, <2>2, <2>3, Signed
<1>9. Good(exsb)' /\ exsb' \in Exsb
  <2>1. CASE UseCopy(exsb, exsb_copy, v)
    <3>1. exsb' = Resigned(exsb_copy) /\ Good(exsb_copy) /\ Good(Resigned(exsb_copy))
      BY <1>4, <1>6, <2>1 DEF RestoreExsb
    <3>2. Resigned(exsb_copy) \in Exsb
      BY <1>1 DEF TypeOK, Exsb, Version, Resigned
    <3> QED
      BY <1>5, <3>1, <3>2 DEF Good, Verify
  <2>2. CASE ~ UseCopy(exsb, exsb_copy, v)
    BY <1>1, <1>4, <1>5, <1>6, <2>2, Zenon DEF RestoreExsb, Good, Verify, TypeOK
  <2> QED
    BY <2>1, <2>2, Zenon
<1>10. exsb_copy' \in Exsb
  BY <1>1, <1>4 DEF RestoreExsb, TypeOK, Exsb, Version, Resigned
<1>11. Superblocks(h)'
  BY <1>1, <1>4, <1>5, <1>6, <1>9, RestoredDisk, Zenon
<1>12. Tables(h)'
  BY <1>1, <1>5, Zenon DEF Tables, Exts
<1>13. TypeOK'
  <2>1. iblock' \in Nat /\ exteneded_table_count' \in 0 .. ExtTables
    BY <1>1, <1>4, ChainFits
  <2>2. IsTable(base_t') /\ IsRecords(extended_table')
    BY <1>1, <1>4, <1>5, Zenon DEF TypeOK, IsRecords, NoRecords
  <2> QED
    BY <1>1, <1>5, <1>8, <1>9, <1>10, <2>1, <2>2, Zenon DEF TypeOK
<1>14. Memory(h)'
  <2>1. Ver' = <<m + 1, 0>>
    BY <1>2, <1>5, <1>8 DEF Ver
  <2>2. Newer(Ver, exsb.ver)'
    <3>1. PICK a, b \in Nat : exsb'.ver = <<a, b>>
      BY <1>9, VersionParts, Zenon DEF Exsb
    <3>2. a = m
      BY <1>5, <1>8, <1>9, <3>1 DEF Good
    <3>3. Newer(<<m + 1, 0>>, <<a, b>>)
      BY <3>2 DEF Newer
    <3> QED
      BY <2>1, <3>1, <3>3
  <2>3. Mounted'
    BY <1>2, <1>5, <1>8, <2>2 DEF Mounted
  <2>4. Changes' /\ ChangesInExt'
    BY <1>2, <1>4, <1>5, <1>9 DEF Changes, ChangesInExt, NoRecords
  <2>5. AtEnd(h)'
    BY <1>4, <1>5, Zenon DEF AtEnd, Exts
  <2> QED
    BY <1>5, <2>3, <2>4, <2>5, Zenon DEF Memory, Uncommitted, Collecting, Writing
<1> QED
  BY <1>11, <1>12, <1>13, <1>14, Zenon DEF InvAt

\* A chunk becomes dirty and moves to another block.
LEMMA MoveIblockInv ==
    ASSUME NEW h, InvAt(h), NEW o \in Object, NEW b \in raw_exsb.meta, MoveIblock(o, b)
    PROVE  InvAt(h)'
<1>1. TypeOK /\ Memory(h) /\ pc = "idle"
  BY Zenon DEF InvAt, MoveIblock
<1>2. Mounted /\ Changes /\ AtEnd(h) /\ (use_base_table \/ ChangesInExt)
  BY <1>1 DEF Memory, Uncommitted, Collecting
<1>3. Tables(h)' /\ Superblocks(h)' /\ Exts(h)' = Exts(h)
      /\ ExtStart(slot', h) = ExtStart(slot, h)
  BY MemoryStep DEF MoveIblock
<1>4. /\ o \in DOMAIN base_t /\ o \notin dirty
      /\ base_t' = [base_t EXCEPT ![o].b = b]
      /\ UpdateExtendedTable(o, b)
      /\ dirty' = dirty \cup {o}
      /\ UNCHANGED <<slot, exsb, exsb_copy, exteneded_table_count, iblock, sync_count,
                     raw_exsb, exsb_dirty, pc, out, committed>>
  BY DEF MoveIblock, disk
<1>5. b \in Block
  BY <1>1 DEF TypeOK, Exsb
<1>6. /\ DOMAIN base_t' = DOMAIN base_t
      /\ base_t'[o] = [base_t[o] EXCEPT !.b = b]
      /\ \A x \in DOMAIN base_t : x # o => base_t'[x] = base_t[x]
  BY <1>4
<1>7. base_t[o] \in Record
  BY <1>1, <1>4 DEF TypeOK, IsTable
<1>8. base_t'[o] \in Record /\ base_t'[o].b = b
  BY <1>5, <1>6, <1>7 DEF Record
<1>9. IsTable(base_t)'
  BY <1>1, <1>4, <1>6, <1>8 DEF TypeOK, IsTable
<1>10. \/ UNCHANGED <<use_base_table, extended_table>> /\ use_base_table
       \/ use_base_table' = TRUE /\ UNCHANGED extended_table
       \/ /\ extended_table' = [x \in DOMAIN extended_table \cup {o} |->
                                  IF x = o THEN b ELSE extended_table[x]]
          /\ UNCHANGED use_base_table /\ ~ use_base_table
  BY <1>4, Zenon DEF UpdateExtendedTable
<1>11. IsRecords(extended_table)' /\ use_base_table' \in BOOLEAN
  <2>1. IsRecords(extended_table) /\ use_base_table \in BOOLEAN
    BY <1>1 DEF TypeOK
  <2>2. IsRecords(extended_table)'
    BY <1>5, <1>10, <2>1 DEF IsRecords
  <2>3. use_base_table' \in BOOLEAN
    BY <1>10, <2>1, Zenon
  <2> QED
    BY <2>2, <2>3, Zenon
<1>12. dirty' \in SUBSET Object
  BY <1>1, <1>4 DEF TypeOK
<1>13. TypeOK'
  BY <1>1, <1>4, <1>9, <1>11, <1>12 DEF TypeOK
<1>14. Mounted'
  BY <1>2, <1>4 DEF Mounted, Ver, Good, Verify
<1>15. Changes'
  BY <1>2, <1>4, <1>6 DEF Changes, Good, Verify
<1>16. use_base_table' \/ ChangesInExt'
  <2>1. CASE use_base_table'
    BY <2>1
  <2>2. CASE ~ use_base_table'
    <3>1. /\ extended_table' = [x \in DOMAIN extended_table \cup {o} |->
                                  IF x = o THEN b ELSE extended_table[x]]
          /\ ChangesInExt
      BY <1>2, <1>10, <2>2, Zenon
    <3>2. dirty \subseteq DOMAIN base_t
      BY <1>2 DEF Changes
    <3> QED
      BY <1>4, <1>6, <1>8, <3>1, <3>2, Zenon DEF ChangesInExt
  <2> QED
    BY <2>1, <2>2
<1>17. AtEnd(h)'
  BY <1>2, <1>3, <1>4 DEF AtEnd
<1>18. Memory(h)'
  BY <1>1, <1>4, <1>14, <1>15, <1>16, <1>17, Zenon DEF Memory, Uncommitted, Collecting, Writing
<1> QED
  BY <1>3, <1>13, <1>18 DEF InvAt

\* The metadata area grows: the superblock in memory is dirty, or the same.
LEMMA AreaGrows ==
    ASSUME TypeOK, Mounted, pc = "idle", NEW B \in SUBSET Block, ExpandArea(B),
           UNCHANGED <<disk, committed, sync_count, pc>>
    PROVE  /\ Mounted' /\ raw_exsb' \in Exsb /\ exsb_dirty' \in BOOLEAN
           /\ Ver' = Ver
<1>1. /\ raw_exsb' = [raw_exsb EXCEPT !.meta = @ \cup B]
      /\ exsb_dirty' = (exsb_dirty \/ B # {})
      /\ UNCHANGED <<slot, exsb, exsb_copy>>
  BY DEF ExpandArea, disk
<1>2. raw_exsb \in [ver : Version, meta : SUBSET Block, ok : BOOLEAN]
  BY DEF TypeOK, Exsb
<1>3. /\ raw_exsb'.ver = raw_exsb.ver /\ raw_exsb'.ok = raw_exsb.ok
      /\ raw_exsb'.meta = raw_exsb.meta \cup B /\ raw_exsb' \in Exsb
  BY <1>1, <1>2 DEF Exsb
<1>4. Ver' = Ver
  BY <1>3 DEF Ver
<1>5. exsb_dirty' \in BOOLEAN /\ (exsb_dirty => exsb_dirty')
  BY <1>1 DEF TypeOK
<1>6. ~ exsb_dirty' => raw_exsb'.meta = raw_exsb.meta /\ ~ exsb_dirty
  BY <1>1, <1>3, Zenon
<1>7. Mounted'
  BY <1>1, <1>3, <1>4, <1>5, <1>6, Zenon DEF Mounted, Good, Verify
<1> QED
  BY <1>3, <1>4, <1>5, <1>7

\* A special file grows by a chunk.
LEMMA CheckPageOffsetInv ==
    ASSUME NEW h, InvAt(h), NEW o \in Object, NEW B \in SUBSET (Block \ raw_exsb.meta),
           NEW b \in raw_exsb.meta \cup B, CheckPageOffset(o, b, B)
    PROVE  InvAt(h)'
<1>1. TypeOK /\ Memory(h) /\ pc = "idle"
  BY ZenonT(30) DEF InvAt, CheckPageOffset
<1>2. Mounted /\ Changes /\ AtEnd(h)
  BY <1>1 DEF Memory, Uncommitted, Collecting
<1>3. Tables(h)' /\ Superblocks(h)' /\ Exts(h)' = Exts(h)
      /\ ExtStart(slot', h) = ExtStart(slot, h)
  BY MemoryStep, ZenonT(30) DEF CheckPageOffset
<1>4. /\ o \notin DOMAIN base_t
      /\ base_t' = [x \in DOMAIN base_t \cup {o} |->
                      IF x = o THEN [b |-> b, v |-> Ver] ELSE base_t[x]]
      /\ ExpandArea(B)
      /\ use_base_table' = TRUE
      /\ dirty' = dirty \cup {o}
      /\ UNCHANGED <<slot, exsb, exsb_copy, extended_table, exteneded_table_count,
                     iblock, sync_count, pc, out, committed>>
  BY Zenon DEF CheckPageOffset, disk
<1>5. b \in Block /\ Ver \in Version
  BY <1>1, Zenon DEF TypeOK, Exsb, Version, Ver
<1>6. IsTable(base_t)'
  BY <1>1, <1>4, <1>5 DEF TypeOK, IsTable, Record
<1>7. Mounted' /\ raw_exsb' \in Exsb /\ exsb_dirty' \in BOOLEAN
  BY <1>1, <1>2, <1>4, AreaGrows, ZenonT(30) DEF disk
<1>8. dirty' \in SUBSET Object
  BY <1>1, <1>4, Zenon DEF TypeOK
<1>9. TypeOK'
  BY <1>1, <1>4, <1>6, <1>7, <1>8 DEF TypeOK
<1>10. Changes'
  BY <1>2, <1>4, Zenon DEF Changes, Good, Verify
<1>11. AtEnd(h)'
  BY <1>2, <1>3, <1>4, Zenon DEF AtEnd
<1>12. Memory(h)'
  BY <1>1, <1>4, <1>7, <1>10, <1>11, ZenonT(30) DEF Memory, Uncommitted, Collecting, Writing
<1> QED
  BY <1>3, <1>9, <1>12 DEF InvAt

\* The metadata area grows.
LEMMA CheckMetaSpaceInv ==
    ASSUME NEW h, InvAt(h), NEW B \in SUBSET (Block \ raw_exsb.meta), CheckMetaSpace(B)
    PROVE  InvAt(h)'
<1>1. TypeOK /\ Memory(h) /\ pc = "idle"
  BY DEF InvAt, CheckMetaSpace
<1>2. Mounted /\ Changes /\ AtEnd(h) /\ (use_base_table \/ ChangesInExt)
  BY <1>1, ZenonT(30) DEF Memory, Uncommitted, Collecting
<1>3. Tables(h)' /\ Superblocks(h)' /\ Exts(h)' = Exts(h)
      /\ ExtStart(slot', h) = ExtStart(slot, h)
  BY MemoryStep, ZenonT(30) DEF CheckMetaSpace
<1>4. /\ ExpandArea(B)
      /\ UNCHANGED <<slot, exsb, exsb_copy, base_t, extended_table, use_base_table,
                     dirty, exteneded_table_count, iblock, sync_count, pc, out, committed>>
  BY ZenonT(30) DEF CheckMetaSpace, disk
<1>5. Mounted' /\ raw_exsb' \in Exsb /\ exsb_dirty' \in BOOLEAN
  BY <1>1, <1>2, <1>4, AreaGrows, ZenonT(30) DEF disk
<1>6. TypeOK'
  BY <1>1, <1>4, <1>5, Zenon DEF TypeOK
<1>7. Changes' /\ (use_base_table' \/ ChangesInExt')
  BY <1>2, <1>4 DEF Changes, ChangesInExt, Good, Verify
<1>8. AtEnd(h)'
  BY <1>2, <1>3, <1>4, ZenonT(30) DEF AtEnd
<1>9. Memory(h)'
  BY <1>1, <1>4, <1>5, <1>7, <1>8, Zenon DEF Memory, Uncommitted, Collecting, Writing
<1> QED
  BY <1>3, <1>6, <1>9, Zenon DEF InvAt

\* A commit starts.
LEMMA SyncMetadataInv ==
    ASSUME NEW h, InvAt(h), SyncMetadata
    PROVE  InvAt(h)'
<1>1. TypeOK /\ Memory(h) /\ pc = "idle"
  BY ZenonT(30) DEF InvAt, SyncMetadata
<1>2. Mounted /\ Changes /\ AtEnd(h) /\ (use_base_table \/ ChangesInExt)
  BY <1>1, Zenon DEF Memory, Uncommitted, Collecting
<1>3. Tables(h)' /\ Superblocks(h)' /\ Exts(h)' = Exts(h)
      /\ ExtStart(slot', h) = ExtStart(slot, h)
  BY MemoryStep DEF SyncMetadata
<1>4. /\ exsb_dirty' \in {exsb_dirty, TRUE}
      /\ pc' = IF exsb_dirty' THEN "copy" ELSE "meta"
      /\ UNCHANGED <<slot, exsb, exsb_copy, base_t, extended_table, use_base_table, raw_exsb,
                     dirty, exteneded_table_count, iblock, sync_count, out, committed>>
  BY Zenon DEF SyncMetadata, disk
<1>5. exsb_dirty' \in BOOLEAN /\ (exsb_dirty => exsb_dirty')
      /\ pc' \in {"copy", "meta"}
  BY <1>1, <1>4, Zenon DEF TypeOK
<1>6. TypeOK'
  BY <1>1, <1>4, <1>5, Zenon DEF TypeOK
<1>7. Mounted'
  BY <1>1, <1>2, <1>4, <1>5 DEF Mounted, Ver, Good, Verify, Uncommitted, Collecting
<1>8. Changes' /\ (use_base_table' \/ ChangesInExt') /\ AtEnd(h)'
  BY <1>2, <1>3, <1>4, ZenonT(30) DEF Changes, ChangesInExt, Good, Verify, AtEnd
<1>9. /\ pc' = "copy" => exsb_dirty'
      /\ pc' = "meta" => ~ exsb_dirty'
  BY <1>4, Zenon
<1>10. Memory(h)'
  BY <1>5, <1>7, <1>8, <1>9 DEF Memory, Uncommitted, Collecting, Writing, CopyWritten
<1> QED
  BY <1>3, <1>6, <1>10, Zenon DEF InvAt

\* The second superblock is written: its version is newer than any base table,
\* so that a mount still takes the first one.
LEMMA SyncExsbCopyInv ==
    ASSUME Fits, NEW h \in Halves, InvAt(h), SyncExsbCopy
    PROVE  InvAt(h)'
<1>1. TypeOK /\ Tables(h) /\ Superblocks(h) /\ Memory(h) /\ pc = "copy"
  BY DEF InvAt, SyncExsbCopy
<1>2. Mounted /\ Changes /\ AtEnd(h) /\ exsb_dirty /\ pc \in Uncommitted
  BY <1>1, ZenonT(30) DEF Memory, Uncommitted, Collecting
<1>3. /\ raw_exsb' = [raw_exsb EXCEPT !.ver = Ver]
      /\ exsb_copy' = raw_exsb'
      /\ use_base_table' = TRUE
      /\ pc' = "meta"
      /\ UNCHANGED <<slot, exsb, base_t, extended_table, exteneded_table_count,
                     iblock, sync_count, exsb_dirty, dirty, out, committed>>
  BY DEF SyncExsbCopy
<1>4. Ver \in Version /\ Ver # Zero /\ Ver # slot[h].ver /\ Ver[1] = raw_exsb.ver[1]
      /\ Ver[1] > 0
  BY <1>1, <1>2, VerIsNewer, VerAfterBase, ZenonT(30) DEF Ver, Mounted
<1>5. raw_exsb' \in Exsb /\ raw_exsb'.ver = Ver /\ raw_exsb'.meta = raw_exsb.meta
      /\ raw_exsb'.ok
  <2>1. raw_exsb \in Exsb /\ raw_exsb.ok
    BY <1>1, <1>2 DEF TypeOK, Mounted
  <2> QED
    BY <1>3, <1>4, <2>1, Signed
<1>6. Ver' = Ver
  BY <1>3, <1>4, <1>5 DEF Ver
<1>7. TypeOK'
  BY <1>1, <1>3, <1>5 DEF TypeOK
<1>8. Tables(h)' /\ AtEnd(h)'
  BY <1>1, <1>2, <1>3, Zenon DEF Tables, Exts, AtEnd
<1>9. Good(exsb)'
  BY <1>2, <1>3 DEF Changes, Good, Verify
<1>10. Superblocks(h)'
  BY <1>1, <1>3, <1>4, <1>5, <1>9 DEF Superblocks
<1>11. Changes'
  BY <1>2, <1>3, <1>9 DEF Changes
<1>12. Mounted'
  BY <1>2, <1>3, <1>4, <1>5, <1>6 DEF Mounted, Uncommitted, Collecting
<1>13. CopyWritten'
  BY <1>3, <1>5, <1>6 DEF CopyWritten
<1>14. Memory(h)'
  BY <1>3, <1>8, <1>11, <1>12, <1>13 DEF Memory, Uncommitted, Collecting, Writing
<1> QED
  BY <1>7, <1>8, <1>10, <1>14 DEF InvAt

\* The dirty chunks are signed and written.
LEMMA MetaWriteInv ==
    ASSUME NEW h, InvAt(h), MetaWrite
    PROVE  InvAt(h)'
<1>1. TypeOK /\ Memory(h) /\ pc = "meta"
  BY Zenon DEF InvAt, MetaWrite
<1>2. Mounted /\ Changes /\ AtEnd(h) /\ (use_base_table \/ ChangesInExt)
      /\ CopyWritten /\ (exsb_dirty => use_base_table)
  BY <1>1 DEF Memory, Uncommitted, Collecting
<1>3. Tables(h)' /\ Superblocks(h)' /\ Exts(h)' = Exts(h)
      /\ ExtStart(slot', h) = ExtStart(slot, h)
  BY MemoryStep DEF MetaWrite
<1>4. /\ base_t' = [o \in DOMAIN base_t |->
                IF o \in dirty THEN [base_t[o] EXCEPT !.v = Ver] ELSE base_t[o]]
      /\ pc' = "tables"
      /\ UNCHANGED <<slot, exsb, exsb_copy, extended_table, use_base_table, raw_exsb, exsb_dirty,
                     dirty, exteneded_table_count, iblock, sync_count, out, committed>>
  BY DEF MetaWrite, disk
<1>5. Ver' = Ver /\ Ver \in Version
  BY <1>1, <1>4 DEF Ver, TypeOK, Exsb, Version
<1>6. \A o \in DOMAIN base_t : base_t[o] \in Record
  BY <1>1 DEF TypeOK, IsTable
<1>7. /\ DOMAIN base_t' = DOMAIN base_t
      /\ \A o \in DOMAIN base_t : o \notin dirty => base_t'[o] = base_t[o]
      /\ \A o \in DOMAIN base_t : o \in dirty =>
            /\ base_t'[o] \in Record /\ base_t'[o].b = base_t[o].b /\ base_t'[o].v = Ver
  BY <1>4, <1>5, <1>6 DEF Record
<1>8. IsTable(base_t)'
  BY <1>1, <1>4, <1>6, <1>7 DEF TypeOK, IsTable
<1>9. TypeOK'
  BY <1>1, <1>4, <1>8 DEF TypeOK
<1>10. Mounted'
  BY <1>1, <1>2, <1>4, <1>5 DEF Mounted, Good, Verify, Uncommitted, Collecting
<1>11. Changes' /\ (use_base_table' \/ ChangesInExt')
  BY <1>2, <1>4, <1>7 DEF Changes, ChangesInExt, Good, Verify
<1>12. AtEnd(h)' /\ CopyWritten'
  BY <1>2, <1>3, <1>4, <1>5 DEF AtEnd, CopyWritten
<1>13. \A o \in dirty' : base_t'[o].v = Ver'
  BY <1>2, <1>4, <1>5, <1>7 DEF Changes
<1>14. Memory(h)'
  BY <1>2, <1>4, <1>10, <1>11, <1>12, <1>13 DEF Memory, Uncommitted, Collecting, Writing
<1> QED
  BY <1>3, <1>9, <1>14 DEF InvAt

\* The first superblock follows, and the sync count grows.
LEMMA FinishSyncInv ==
    ASSUME NEW h, InvAt(h), FinishSync
    PROVE  InvAt(h)'
<1>1. TypeOK /\ Tables(h) /\ Superblocks(h) /\ Memory(h) /\ pc = "fin"
  BY Zenon DEF InvAt, FinishSync
<1>2. /\ Mounted /\ AtEnd(h) /\ ~ use_base_table /\ dirty = {}
      /\ DOMAIN extended_table = {} /\ base_t = committed.table /\ committed.ver = Ver
      /\ raw_exsb.meta = committed.meta /\ CopyWritten /\ (exsb_dirty \/ Good(exsb))
  BY <1>1 DEF Memory
<1>3. /\ exsb_dirty' = FALSE /\ sync_count' = sync_count + 1 /\ pc' = "idle"
      /\ UNCHANGED <<slot, exsb_copy, base_t, extended_table, exteneded_table_count,
                     use_base_table, iblock, dirty, out, committed>>
  BY DEF FinishSync
<1>4. raw_exsb' = raw_exsb /\ exsb' = IF exsb_dirty THEN raw_exsb ELSE exsb
  <2>1. CASE exsb_dirty
    <3>1. raw_exsb.ver = Ver /\ raw_exsb' = [raw_exsb EXCEPT !.ver = Ver]
          /\ exsb' = raw_exsb'
      BY <1>2, <2>1, Zenon DEF CopyWritten, FinishSync
    <3>2. raw_exsb \in [ver : Version, meta : SUBSET Block, ok : BOOLEAN]
      BY <1>1 DEF TypeOK, Exsb
    <3>3. raw_exsb' = raw_exsb
      BY <3>1, <3>2
    <3> QED
      BY <2>1, <3>1, <3>3
  <2>2. CASE ~ exsb_dirty
    BY <2>2, Zenon DEF FinishSync
  <2> QED
    BY <2>1, <2>2
<1>5. PICK m, x \in Nat : raw_exsb.ver = <<m, x>>
  BY <1>1, VersionParts, Zenon DEF TypeOK, Exsb
<1>6. PICK y \in Nat : sync_count = y
  BY <1>1, Zenon DEF TypeOK
<1>7. Ver = <<m, y>> /\ Ver' = <<m, y + 1>> /\ m > 0
  BY <1>2, <1>3, <1>4, <1>5, <1>6 DEF Ver, Mounted
<1>8. Good(exsb)' /\ Good(exsb_copy)'
  <2>1. CASE exsb_dirty
    <3>1. raw_exsb.ok /\ raw_exsb.ver = Ver /\ exsb' = raw_exsb /\ exsb_copy' = raw_exsb
      BY <1>2, <1>3, <1>4, <2>1, Zenon DEF Mounted, CopyWritten
    <3>2. Ver # Zero
      BY <1>7 DEF Zero
    <3> QED
      BY <1>2, <1>3, <3>1, <3>2, Zenon DEF Good, Verify
  <2>2. CASE ~ exsb_dirty
    BY <1>2, <1>3, <1>4, <2>2, Zenon DEF Mounted, Good, Verify
  <2> QED
    BY <2>1, <2>2, Zenon
<1>9. Superblocks(h)'
  <2>1. committed.ver = <<m, y>>
    BY <1>2, <1>7, Zenon
  <2>2. committed' = committed /\ committed.ver[1] = m
    BY <1>3, <2>1
  <2>3. exsb'.ver[1] = m /\ exsb_copy'.ver[1] = m
    BY <1>8, <2>2, Zenon DEF Good
  <2> QED
    BY <1>7, <1>8, <2>2, <2>3 DEF Superblocks
<1>10. TypeOK'
  <2>1. sync_count' \in Nat
    BY <1>3, <1>6
  <2>2. exsb_dirty' \in BOOLEAN
    BY <1>3, Zenon
  <2>3. exsb' \in Exsb
    BY <1>1, <1>4 DEF TypeOK
  <2> QED
    BY <1>1, <1>3, <1>4, <2>1, <2>2, <2>3, Zenon DEF TypeOK
<1>11. Newer(Ver, exsb.ver)'
  <2>1. CASE exsb_dirty
    <3>1. exsb'.ver = <<m, y>>
      BY <1>2, <1>4, <1>7, <2>1, Zenon DEF CopyWritten
    <3> QED
      BY <1>7, <3>1 DEF Newer
  <2>2. CASE ~ exsb_dirty
    <3>1. PICK a, b \in Nat : exsb.ver = <<a, b>>
      BY <1>1, VersionParts, Zenon DEF TypeOK, Exsb
    <3>2. Newer(Ver, exsb.ver)
      BY <1>2, Zenon DEF Mounted
    <3>3. m > a \/ (m = a /\ y > b)
      BY <1>7, <3>1, <3>2, NewerParts
    <3>4. m > a \/ (m = a /\ y + 1 > b)
      BY <3>3
    <3>5. exsb'.ver = <<a, b>> /\ y + 1 \in Nat
      BY <1>4, <2>2, <3>1
    <3> QED
      BY <1>7, <3>4, <3>5, NewerParts
  <2> QED
    BY <2>1, <2>2, Zenon
<1>12. committed'.ver = <<raw_exsb'.ver[1], sync_count' - 1>> /\ sync_count' # 0
  BY <1>2, <1>3, <1>4, <1>5, <1>6, <1>7
<1>13. Mounted'
  BY <1>2, <1>3, <1>4, <1>8, <1>11, <1>12, Zenon DEF Mounted
<1>14. Changes' /\ ChangesInExt'
  BY <1>2, <1>3, <1>8 DEF Changes, ChangesInExt
<1>15. Tables(h)' /\ AtEnd(h)'
  BY <1>1, <1>2, <1>3, Zenon DEF Tables, Exts, AtEnd
<1>16. Memory(h)'
  BY <1>3, <1>13, <1>14, <1>15, Zenon DEF Memory, Uncommitted, Collecting, Writing
<1> QED
  BY <1>9, <1>10, <1>15, <1>16 DEF InvAt

\* A failed step that writes nothing and leaves the volume read-only.
LEMMA ReadOnlyInv ==
    ASSUME NEW h, InvAt(h), FatalError \/ MetaWriteError \/ ExsbWriteError
    PROVE  InvAt(h)'
<1>1. TypeOK /\ pc' = "ro" /\ UNCHANGED <<disk, committed>>
  BY DEF InvAt, FatalError, MetaWriteError, ExsbWriteError
<1>2. Tables(h)' /\ Superblocks(h)'
  BY <1>1, MemoryStep
<1>3. Memory(h)'
  BY <1>1, ReadOnlyMemory
<1>4. TypeOK'
  <2>1. CASE FatalError \/ MetaWriteError
    BY <1>1, <2>1, Zenon DEF FatalError, MetaWriteError, mem, disk, TypeOK
  <2>2. CASE ExsbWriteError
    <3>1. raw_exsb' \in Exsb
      <4>1. raw_exsb \in Exsb /\ Ver \in Version
        BY <1>1 DEF TypeOK, Exsb, Ver, Version
      <4> QED
        BY <2>2, <4>1, Signed, Zenon DEF ExsbWriteError
    <3>2. sync_count' \in Nat
      BY <1>1, <2>2 DEF TypeOK, ExsbWriteError
    <3>3. exsb_dirty' \in BOOLEAN /\ use_base_table' \in BOOLEAN
      BY <2>2 DEF ExsbWriteError
    <3>4. UNCHANGED <<disk, base_t, extended_table, exteneded_table_count, iblock,
                      dirty, out, committed>>
      BY <2>2 DEF ExsbWriteError
    <3> QED
      BY <1>1, <3>1, <3>2, <3>3, <3>4 DEF TypeOK, disk
  <2> QED
    BY <2>1, <2>2, Zenon
<1> QED
  BY <1>2, <1>3, <1>4 DEF InvAt

================================================================================
