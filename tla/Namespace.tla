------------------------------- MODULE Namespace -------------------------------
(* Names, inodes and orphans: the directory operations of inode.c, the orphan   *)
(* list, eviction, commits, crashes and the clean-up of the next mount.         *)
(* The state is one record, sbi: the trees and the failing call of Catalog, and *)
(*   ic       the inodes in memory         names   what completed calls left    *)
(*   orphans  sbi->orphan_inodes           bitmap  inode numbers taken          *)
(*   last     free_inode_bitmap.last_used                                       *)
(*   ro       a fatal error made the volume read-only                           *)
(*   harm     inodes that a call could not put back as they were                *)
EXTENDS Catalog, SequencesExt

CONSTANTS Name,          \* names of directory entries
          Attr,          \* names of attributes
          MaxIno,        \* bound: inode numbers end here, the bitmap has one page
          Images,        \* the source trees mkfs may start from
          Kinds,         \* kinds of objects that are created
          MaxFuel,       \* bound: the last insertion of a call that may fail
          MaxFaults,     \* bound: calls in which one fails
          MaxCalls,      \* bound: calls of users
          MaxCrash       \* bound: crashes

ASSUME NamespaceAssumption ==
    /\ Name \subseteq Nat \ {0} /\ Attr \subseteq Nat \ {0}
    /\ MaxIno \in Nat /\ MaxFuel \in Nat /\ MaxFaults \in Nat
    /\ MaxCalls \in Nat /\ MaxCrash \in Nat
    /\ Kinds \subseteq {"dir", "reg", "dev"}

VARIABLES sbi,           \* the mounted volume
          disk,          \* what the last commit left on the medium
          phase,         \* "mount", "run" or "failed"
          calls, faults, crashes

bounds == <<calls, faults, crashes>>
vars == <<sbi, disk, phase, bounds>>

FIRST_FILE_INO == 2
Ino == ROOT_INO..MaxIno
Top == MaxIno + 1

(* struct vdfs4_inode_info; st is where the inode stands in its eviction.       *)
NoInode ==
    [st |-> "none", kind |-> "none", nlink |-> 0, hard |-> FALSE, orphan |-> FALSE,
     next |-> 0, parent |-> 0, name |-> NoName, rtype |-> "none", size |-> 0,
     dirty |-> FALSE, open |-> FALSE]

Ret(s, err) == [s EXCEPT !.err = err]
Dirty(s, i) == [s EXCEPT !.ic[i].dirty = TRUE]
vdfs4_fatal_error(s) == [s EXCEPT !.ro = TRUE]
Harmed(s, S) == IF s.err = "ok" THEN s ELSE [s EXCEPT !.harm = @ \cup S]

--------------------------------------------------------------------------------
(* Inodes and their records.                                                    *)

TypeOfKind(kind) == IF kind = "reg" THEN "file" ELSE "folder"

__get_record_type_on_mode(inode) == IF inode.hard THEN "hlink" ELSE TypeOfKind(inode.kind)

vdfs4_fill_cattree_value(inode) ==
    Value(TypeOfKind(inode.kind), inode.kind, inode.nlink, inode.hard, inode.orphan,
          inode.next, inode.size)

(* A record for the inode under a name; the inode keeps the type of its record.  *)
vdfs4_fill_cattree_record(inode) ==
    IF inode.hard THEN Hlink ELSE vdfs4_fill_cattree_value(inode)

Placed(s, i, d, n) ==
    Then(vdfs4_cattree_place_record(s, i, d, n, vdfs4_fill_cattree_record(s.ic[i])),
         LAMBDA a : [a EXCEPT !.ic[i].rtype = __get_record_type_on_mode(s.ic[i])])

Removed(s, i, d, n) == vdfs4_cattree_remove(s, i, d, n, s.ic[i].rtype)

InodeKey(s, i) ==
    IF s.ic[i].hard THEN <<i, NoName, i>> ELSE <<s.ic[i].parent, s.ic[i].name, i>>

(* The in-memory inode of a record; hlink: it was reached through a reference.   *)
vdfs4_fill_inode(v, k, hlink) ==
    [st |-> "live", kind |-> v.kind, nlink |-> v.nlink, hard |-> v.hard \/ hlink,
     orphan |-> v.orphan, next |-> v.next,
     parent |-> IF hlink THEN 0 ELSE k[1], name |-> IF hlink THEN NoName ELSE k[2],
     rtype |-> v.type, size |-> v.size, dirty |-> FALSE, open |-> FALSE]

vdfs4_get_inode_from_record(s, k) ==
    LET hlink == s.cat[k].type = "hlink"
        body == IF hlink THEN vdfs4_cattree_find_hlink(s.cat, k[3]) ELSE k
    IN  IF s.ic[k[3]].st # "none" THEN Ret(s, "ok")
        ELSE IF body = NoKey THEN Ret(s, "ENOENT")
        ELSE [s EXCEPT !.ic[k[3]] = vdfs4_fill_inode(s.cat[body], body, hlink),
                       !.err = "ok"]

__vdfs4_write_inode(s, i) ==
    LET k == InodeKey(s, i)
    IN  IF k \notin DOMAIN s.cat THEN Ret(vdfs4_fatal_error(s), "ENOENT")
        ELSE [s EXCEPT !.cat[k] = vdfs4_fill_cattree_value(s.ic[i]), !.err = "ok"]

vdfs4_write_inode(s, i) == [__vdfs4_write_inode(s, i) EXCEPT !.ic[i].dirty = FALSE]

--------------------------------------------------------------------------------
(* Inode numbers: one page of the bitmap; a search that reaches its end starts   *)
(* over once.                                                                   *)

FreeNumbers(s) == (FIRST_FILE_INO..MaxIno) \ s.bitmap

vdfs4_get_free_inode(s) ==
    LET ahead == {i \in FreeNumbers(s) : i >= s.last}
    IN  IF ahead # {} THEN Min(ahead) ELSE Min(FreeNumbers(s))

vdfs4_free_inode_n(s, i) ==
    IF i \in s.bitmap THEN [s EXCEPT !.bitmap = @ \ {i}] ELSE vdfs4_fatal_error(s)

--------------------------------------------------------------------------------
(* The orphan list: orphan.c.  The root is always its first member.             *)

prev_orphan(s, i) ==
    LET at == CHOOSE j \in 1..Len(s.orphans) : s.orphans[j] = i
    IN  IF at = 1 THEN ROOT_INO ELSE s.orphans[at - 1]

vdfs4_add_to_orphan(s, i) ==
    LET prev == IF s.orphans = <<>> THEN ROOT_INO ELSE Last(s.orphans)
        a == [s EXCEPT !.ic[i].orphan = TRUE, !.ic[i].next = 0,
                       !.orphans = Append(@, i), !.ic[prev].next = i]
        Undo(t) ==
            [t EXCEPT !.orphans = s.orphans, !.ic[prev].next = 0, !.ic[i].orphan = FALSE]
    IN  Then(OrUndo(__vdfs4_write_inode(a, prev), Undo), LAMBDA b : Dirty(b, prev))

(* Mutant of vdfs4_del_from_orphan: the predecessor keeps pointing at the inode. *)
del_keeps_link(s, i) ==
    IF ~Contains(s.orphans, i) THEN s
    ELSE LET prev == prev_orphan(s, i)
         IN  [s EXCEPT !.ic[prev].next = s.ic[i].next, !.orphans = Remove(@, i)]

vdfs4_del_from_orphan(s, i) ==
    IF ~Contains(s.orphans, i) THEN s
    ELSE LET prev == prev_orphan(s, i)
             a == [s EXCEPT !.ic[prev].next = s.ic[i].next]
             b == __vdfs4_write_inode(Dirty(a, prev), prev)
         IN  [b EXCEPT !.orphans = Remove(@, i), !.ic[i].orphan = FALSE]

--------------------------------------------------------------------------------
(* Eviction of an inode without links: evict_inode, in the pieces between which  *)
(* other tasks run.                                                             *)

evict_xattrs(s, i) == [vdfs4_xattrtree_remove_all(s, i) EXCEPT !.ic[i].st = "bare"]

evict_record(s, i) ==
    LET k == InodeKey(s, i)
    IN  Then(OrUndo(Removed(s, i, k[1], k[2]), vdfs4_fatal_error),
             LAMBDA a : [vdfs4_del_from_orphan(a, i) EXCEPT !.ic[i].st = "removed"])

evict_number(s, i) == [vdfs4_free_inode_n(s, i) EXCEPT !.ic[i] = NoInode]

(* The way a half-made inode is dropped inside the call that made it.           *)
vdfs4_evict_inode(s, i) ==
    LET End(t) == IF t.ic[i].st = "removed" THEN evict_number(t, i)
                  ELSE [t EXCEPT !.ic[i] = NoInode]
    IN  End(evict_record(evict_xattrs(s, i), i))

--------------------------------------------------------------------------------
(* Creation.  with tells which attributes the new inode gets: none, a default    *)
(* access-control list or a security label; fault "inode": no memory.           *)

Entered(s, d, n, i) ==
    [s EXCEPT !.names = (<<d, n>> :> i) @@ @, !.ic[d].size = @ + 1, !.ic[d].dirty = TRUE]

Left(s, d, n) ==
    [s EXCEPT !.names = [e \in DOMAIN @ \ {<<d, n>>} |-> @[e]],
              !.ic[d].size = IF @ = 0 THEN 0 ELSE @ - 1, !.ic[d].dirty = TRUE]

vdfs4_new_inode(s, i, kind) ==
    [s EXCEPT !.bitmap = @ \cup {i}, !.last = i,
              !.ic[i] = [NoInode EXCEPT !.st = "live", !.kind = kind, !.nlink = 1]]

vdfs4_create(s, d, n, kind, with, fault) ==
    LET i == vdfs4_get_free_inode(s)
        a == [vdfs4_new_inode(s, i, kind) EXCEPT !.ic[i].parent = d, !.ic[i].name = n]
        Drop(t) == [vdfs4_free_inode_n(t, i) EXCEPT !.ic[i] = NoInode]
        Label(t) == CASE with = "none" -> t
                      [] with = "acl" -> vdfs4_set_acl(t, i, Min(Attr), TRUE)
                      [] with = "label" -> vdfs4_init_security_xattrs(t, i, Max(Attr))
        Evicted(t) == vdfs4_evict_inode([t EXCEPT !.ic[i].nlink = 0], i)
    IN  IF fault = "inode" THEN Ret(Drop(a), "ENOMEM")
        ELSE Then(OrUndo(Placed(a, i, d, n), Drop), LAMBDA b :
             Then(OrUndo(Label(b), Evicted), LAMBDA c :
                  Dirty(Entered(c, d, n, i), i)))

--------------------------------------------------------------------------------
(* Removal.                                                                     *)

(* Mutant of vdfs4_unlink: the record is not written before the lock is dropped. *)
unlink_writes_late(s, d, n) ==
    LET i == s.names[<<d, n>>]
        a == [s EXCEPT !.ic[i].nlink = @ - 1]
        b == IF a.ic[i].hard THEN vdfs4_cattree_remove(a, i, d, n, "hlink") ELSE Ret(a, "ok")
        c == vdfs4_add_to_orphan(b, i)
    IN  IF b.ic[i].nlink > 0 THEN Left(Dirty(b, i), d, n) ELSE Left(c, d, n)

vdfs4_unlink(s, d, n) ==
    LET i == s.names[<<d, n>>]
        a == [s EXCEPT !.ic[i].nlink = @ - 1]
        Relink(t) == [t EXCEPT !.ic[i].nlink = @ + 1]
        Cut(t) == IF t.ic[i].hard THEN vdfs4_cattree_remove(t, i, d, n, "hlink")
                  ELSE Ret(t, IF t.ic[i].nlink > 0 THEN "EFAULT" ELSE "ok")
        Orphan(t) == Then(vdfs4_add_to_orphan(t, i), LAMBDA c : __vdfs4_write_inode(c, i))
        Leave(t) == Left(Dirty(t, i), d, n)
    IN  IF s.ic[i].nlink = 0 THEN Ret(s, "EFAULT")
        ELSE Then(OrUndo(Cut(a), Relink), LAMBDA b :
             IF b.ic[i].nlink > 0 THEN Leave(b)
             ELSE Then(OrUndo(Orphan(b), Relink), Leave))

vdfs4_rmdir(s, d, n) ==
    IF s.ic[s.names[<<d, n>>]].size > 0 THEN Ret(s, "ENOTEMPTY") ELSE vdfs4_unlink(s, d, n)

(* The text of a symbolic link is data of its one page; when it cannot be       *)
(* written the name goes again.                                                 *)
vdfs4_symlink(s, d, n, fault) ==
    Then(vdfs4_create(s, d, n, "reg", "none", fault), LAMBDA a :
         IF fault # "page" THEN a ELSE Ret(vdfs4_unlink(a, d, n), "EIO"))

--------------------------------------------------------------------------------
(* Hard links.                                                                  *)

transform_into_hlink(s, i) ==
    LET k == InodeKey(s, i)
    IN  Then(vdfs4_cattree_remove_ilink(s, i, k[1], k[2]), LAMBDA a :
        Then(OrUndo(vdfs4_cattree_place_record(a, i, i, NoName, s.cat[k]),
                    LAMBDA b : Harmed(vdfs4_cattree_insert_ilink(b, i, k[1], k[2]), {i})),
             LAMBDA b :
             [b EXCEPT !.cat[k] = Hlink, !.ic[i].parent = 0, !.ic[i].name = NoName,
                       !.ic[i].hard = TRUE]))

add_hlink_record(s, i, d, n) == vdfs4_cattree_place_record(s, i, d, n, Hlink)

vdfs4_link(s, i, d, n) ==
    Then(IF s.ic[i].hard THEN Ret(s, "ok") ELSE transform_into_hlink(s, i), LAMBDA a :
    Then(add_hlink_record(a, i, d, n), LAMBDA b :
         [Dirty(Entered(b, d, n, i), i) EXCEPT !.ic[i].nlink = @ + 1]))

--------------------------------------------------------------------------------
(* Renaming.                                                                    *)

Moved(s, i, d, n) ==
    IF s.ic[i].hard THEN s ELSE [s EXCEPT !.ic[i].parent = d, !.ic[i].name = n]

vdfs4_create_whiteout(s, d, n) == vdfs4_create(s, d, n, "dev", "none", "none")

Replaced(s, d, n) ==
    IF <<d, n>> \notin DOMAIN s.names THEN Ret(s, "ok")
    ELSE IF s.ic[s.names[<<d, n>>]].kind = "dir" THEN vdfs4_rmdir(s, d, n)
    ELSE vdfs4_unlink(s, d, n)

vdfs4_rename(s, d1, n1, d2, n2, whiteout) ==
    LET i == s.names[<<d1, n1>>]
        Whiteout(t) == IF whiteout THEN vdfs4_create_whiteout(t, d1, n1) ELSE t
        Unmove(t) == Then(Harmed(Placed(t, i, d1, n1), {i, d1, d2}),
                          LAMBDA p : Moved(Removed(p, i, d2, n2), i, d1, n1))
        Kept(names) == DOMAIN names \ (IF whiteout THEN {} ELSE {<<d1, n1>>})
    IN  Then(Replaced(s, d2, n2), LAMBDA a :
        Then(Placed(a, i, d2, n2), LAMBDA b :
        Then(OrUndo(Removed(b, i, d1, n1), LAMBDA t : Removed(t, i, d2, n2)), LAMBDA c :
        Then(OrUndo(Whiteout(Moved(c, i, d2, n2)), Unmove), LAMBDA w :
             Dirty([w EXCEPT !.names = (<<d2, n2>> :> i) @@ [e \in Kept(@) |-> @[e]],
                             !.ic = [@ EXCEPT ![d1].size = IF @ = 0 THEN 0 ELSE @ - 1,
                                              ![d1].dirty = TRUE, ![d2].size = @ + 1,
                                              ![d2].dirty = TRUE]], i)))))

vdfs4_cross_rename(s, d1, n1, d2, n2) ==
    LET i == s.names[<<d1, n1>>]
        j == s.names[<<d2, n2>>]
        Undo1(t) == vdfs4_cattree_remove(t, i, d2, n2, __get_record_type_on_mode(s.ic[i]))
        Undo2(t) == vdfs4_cattree_remove(t, j, d1, n1, __get_record_type_on_mode(s.ic[j]))
        Undo12(t) == Undo1(Undo2(t))
        Exchanged(t) == [Moved(Moved(t, i, d2, n2), j, d1, n1) EXCEPT
                            !.names[<<d1, n1>>] = j, !.names[<<d2, n2>>] = i]
    IN  Then(Placed(s, i, d2, n2), LAMBDA a :
        Then(OrUndo(Placed(a, j, d1, n1), Undo1), LAMBDA b :
        Then(OrUndo(Removed(b, i, d1, n1), Undo12), LAMBDA c :
        Then(OrUndo(Removed(c, j, d2, n2), LAMBDA t : Undo12(Placed(t, i, d1, n1))),
             LAMBDA e : FoldLeft(Dirty, Exchanged(e), <<i, j, d1, d2>>)))))

--------------------------------------------------------------------------------
(* A commit: everything dirty is written to the catalog, the orphans that are    *)
(* being evicted too, and the trees and bitmaps become the state on the medium.  *)

(* Mutant of vdfs4_sync_fs: inodes changed since their last write are left out. *)
sync_without_inodes(s) == s

vdfs4_sync_fs(s) ==
    LET Write(t, i) == vdfs4_write_inode(t, i)
        dirty == SelectSeq([i \in Ino |-> i], LAMBDA i : s.ic[i].st = "live" /\ s.ic[i].dirty)
        a == FoldLeft(Write, s, dirty)
        going == SelectSeq(s.orphans, LAMBDA i : s.ic[i].kind = "reg")
    IN  FoldLeft(__vdfs4_write_inode, a, going)

OnDisk(s) ==
    [cat |-> s.cat, xat |-> s.xat, bitmap |-> s.bitmap, names |-> s.names, harm |-> s.harm]

--------------------------------------------------------------------------------
(* mkfs: insert_metadata walks the source tree, insert_record enters an object;  *)
(* a file with several links gets a reference per name and one body at the end.  *)
(* A source tree maps a directory (0 is the top) to its entries, in the order    *)
(* readdir gives them: [name, ino, kind, links, attrs].                         *)

init_cattree ==
    [cat |-> (RootKey :> Value("folder", "dir", 1, FALSE, FALSE, 0, 0)), xat |-> {},
     fuel |-> 0, full |-> FALSE, failed |-> FALSE, err |-> "ok", names |-> <<>>,
     last |-> FIRST_FILE_INO - 1, links |-> <<>>]

get_free_inode_n(m) == [m EXCEPT !.last = @ + 1]
test_and_clear_inode_n(m, obj) == [m EXCEPT !.last = obj - 1]

mkfs_place_record(m, obj, parent, name, v) ==
    vdfs4_cattree_place_record(m, obj, parent, name, v)

vdfs4_fill_cattree_record_value(kind, items, links) ==
    Value(IF kind = "dir" THEN "folder" ELSE "file", kind, links, links > 1, FALSE, 0, items)

mkfs_cattree_find(m, parent, name) == vdfs4_cattree_find(m.cat, parent, name, Top)

mkfs_xattrtree_insert(m, attr, obj) == xattrtree_insert(m, obj, attr)
get_set_xattrs(m, obj, attrs) ==
    FoldLeft(LAMBDA t, attr : mkfs_xattrtree_insert(t, attr, obj), m, attrs)

(* links: a source inode to its new number and the names found so far.           *)
hl_list_item_find(m, ino) == ino \in DOMAIN m.links
hl_list_insert(m, e, obj) ==
    [m EXCEPT !.links = (e.ino :> [new |-> obj, found |-> 1, entry |-> e]) @@ @]

insert_record(m, e, obj, parent, items) ==
    LET known == hl_list_item_find(m, e.ino)
        linked == e.kind # "dir" /\ e.links > 1
        no == IF linked /\ known THEN m.links[e.ino].new ELSE obj
        a == IF ~linked THEN get_set_xattrs(m, obj, e.attrs)
             ELSE IF ~known THEN hl_list_insert(m, e, obj)
             ELSE [test_and_clear_inode_n(m, obj) EXCEPT !.links[e.ino].found = @ + 1]
        v == IF linked THEN Hlink ELSE vdfs4_fill_cattree_record_value(e.kind, items, 1)
        b == mkfs_place_record(a, no, parent, e.name, v)
    IN  [b EXCEPT !.names = (<<parent, e.name>> :> no) @@ @]

RECURSIVE insert_metadata(_, _, _, _)
insert_metadata(image, dir, parent, m0) ==
    LET Enter(m, e) ==
            LET a == get_free_inode_n(m)
                obj == a.last
                b == IF e.kind = "dir" THEN insert_metadata(image, e.ino, obj, a) ELSE a
            IN  insert_record(b, e, obj, parent,
                              IF e.kind = "dir" THEN Len(image[e.ino]) ELSE 0)
    IN  FoldLeft(Enter, m0, image[dir])

insert_hlinks_metadata(m) ==
    LET Body(t, h) ==
            LET l == m.links[h]
            IN  mkfs_place_record(get_set_xattrs(t, l.new, l.entry.attrs),
                    l.new, l.new, NoName,
                    vdfs4_fill_cattree_record_value(l.entry.kind, 0, l.found))
    IN  FoldLeft(Body, m, SetToSeq(DOMAIN m.links))

fill_image_metadata(image) ==
    LET a == insert_metadata(image, 0, ROOT_INO, init_cattree)
        root == mkfs_cattree_find(a, RootKey[1], RootKey[2])
    IN  insert_hlinks_metadata([a EXCEPT !.cat[root].size = Len(image[0])])

fill_inode_bitmap(m) == 1..m.last

MkfsImage(image) ==
    LET m == fill_image_metadata(image)
    IN  [cat |-> m.cat, xat |-> m.xat, bitmap |-> fill_inode_bitmap(m), names |-> m.names,
         harm |-> {}]

--------------------------------------------------------------------------------
(* The volume a mount starts from: the root inode alone is in memory.  An inode  *)
(* that was harmed has the names its records bear.                              *)

NamesFound(d) ==
    LET sound == {e \in DOMAIN d.names : d.names[e] \notin d.harm}
        borne == {k \in DOMAIN d.cat : /\ k[3] \in d.harm /\ k[1] \notin {0, k[3]}
                                       /\ d.cat[k].type # "ilink"
                                       /\ ~vdfs4_cattree_is_orphan(d.cat, k)}
    IN  [e \in sound |-> d.names[e]] @@
        [e \in {<<k[1], k[2]>> : k \in borne} |->
             (CHOOSE k \in borne : <<k[1], k[2]>> = e)[3]]

MountedFrom(d) ==
    [cat |-> d.cat, xat |-> d.xat, bitmap |-> d.bitmap, names |-> NamesFound(d),
     harm |-> d.harm, fuel |-> 0, full |-> FALSE, failed |-> FALSE, err |-> "ok", orphans |-> <<>>, last |-> FIRST_FILE_INO, ro |-> FALSE,
     ic |-> [i \in Ino |-> IF i = ROOT_INO
                           THEN vdfs4_fill_inode(d.cat[RootKey], RootKey, FALSE)
                           ELSE NoInode]]

Init ==
    /\ disk \in {MkfsImage(image) : image \in Images}
    /\ sbi = MountedFrom(disk)
    /\ phase = "mount"
    /\ calls = 0 /\ faults = 0 /\ crashes = 0

(* One round of process_orphan_inodes: the inode the root points to is read,     *)
(* listed and dropped; its eviction follows.                                    *)
vdfs4_process_orphan_inodes ==
    LET next == sbi.ic[ROOT_INO].next
        k == iget_record(sbi.cat, next)
        a == vdfs4_get_inode_from_record(sbi, k)
    IN  /\ phase = "mount"
        /\ \A i \in Ino \ {ROOT_INO} : sbi.ic[i].st = "none"
        /\ IF next = 0 THEN phase' = "run" /\ sbi' = sbi
           ELSE IF k = NoKey THEN phase' = "failed" /\ sbi' = sbi
           ELSE IF a.err # "ok" \/ a.ic[next].nlink > 0 \/ ~a.ic[next].orphan
           THEN phase' = "failed" /\ sbi' = sbi
           ELSE /\ phase' = phase
                /\ sbi' = [a EXCEPT !.orphans = Append(@, next), !.ic[next].st = "freeing"]
        /\ UNCHANGED <<disk, bounds>>

--------------------------------------------------------------------------------
(* Calls of users.  A lookup has brought the inodes a call works on to memory.   *)

LiveDirs ==
    {d \in Ino : sbi.ic[d].st = "live" /\ sbi.ic[d].kind = "dir" /\ sbi.ic[d].nlink > 0}
Present ==
    LET dirs == LiveDirs
    IN  {e \in DOMAIN sbi.names : e[1] \in dirs /\ sbi.ic[sbi.names[e]].st = "live"}
Absent == (LiveDirs \X Name) \ DOMAIN sbi.names

MayCall == phase = "run" /\ ~sbi.ro /\ calls < MaxCalls

Call(result) ==
    /\ calls' = calls + 1
    /\ faults' = IF result.failed THEN faults + 1 ELSE faults
    /\ sbi' = [result EXCEPT !.fuel = 0, !.full = FALSE, !.failed = FALSE, !.err = "ok"]
    /\ UNCHANGED <<disk, phase, crashes>>

(* An insertion of the call fails, alone or with those after it: the volume is   *)
(* full.                                                                        *)
CallWith(fuel, Op(_)) ==
    \/ fuel = 0 /\ Call(Op(sbi))
    \/ /\ fuel > 0 /\ faults < MaxFaults
       /\ \E full \in BOOLEAN :
             LET result == Op([sbi EXCEPT !.fuel = fuel, !.full = full])
             IN  result.failed /\ Call(result)

Create(e, kind, with, fault, fuel) ==
    /\ FreeNumbers(sbi) # {}
    /\ CallWith(fuel, LAMBDA s : vdfs4_create(s, e[1], e[2], kind, with, fault))

Symlink(e, fault) ==
    /\ FreeNumbers(sbi) # {}
    /\ Call(vdfs4_symlink(sbi, e[1], e[2], fault))

Unlink(e) ==
    /\ sbi.ic[sbi.names[e]].kind # "dir"
    /\ Call(vdfs4_unlink(sbi, e[1], e[2]))

Rmdir(e) ==
    /\ sbi.ic[sbi.names[e]].kind = "dir"
    /\ Call(vdfs4_rmdir(sbi, e[1], e[2]))

Link(e, f, fuel) ==
    /\ sbi.ic[sbi.names[e]].kind # "dir"
    /\ CallWith(fuel, LAMBDA s : vdfs4_link(s, s.names[e], f[1], f[2]))

Below(d, top) ==
    \/ d = top
    \/ /\ d # ROOT_INO
       /\ \/ sbi.ic[d].parent = top
          \/ /\ sbi.ic[d].parent \in Ino \ {ROOT_INO}
             /\ sbi.ic[sbi.ic[d].parent].parent = top

(* The VFS moves no directory below itself.                                     *)
MayMove(e, f) == sbi.ic[sbi.names[e]].kind = "dir" => ~Below(f[1], sbi.names[e])

Rename(e, f, whiteout, fuel) ==
    /\ MayMove(e, f)
    /\ f \in DOMAIN sbi.names =>
          /\ sbi.names[f] # sbi.names[e]
          /\ (sbi.ic[sbi.names[f]].kind = "dir") = (sbi.ic[sbi.names[e]].kind = "dir")
    /\ whiteout => FreeNumbers(sbi) # {}
    /\ CallWith(fuel, LAMBDA s : vdfs4_rename(s, e[1], e[2], f[1], f[2], whiteout))

Exchange(e, f, fuel) ==
    /\ e # f /\ sbi.names[e] # sbi.names[f]
    /\ MayMove(e, f) /\ MayMove(f, e)
    /\ CallWith(fuel, LAMBDA s : vdfs4_cross_rename(s, e[1], e[2], f[1], f[2]))

SetXattr(e, attr, value, flag) ==
    LET i == sbi.names[e]
        a == vdfs4_setxattr(sbi, i, attr, value, flag)
    IN  Call(IF a.err = "ok" THEN Dirty(a, i) ELSE a)

(* A look-up that has to read the inode, and an open file that outlives its name. *)
Lookup(e) ==
    /\ phase = "run" /\ ~sbi.ro
    /\ \E k \in {vdfs4_lookup(sbi.cat, e[1], e[2], Top)} \ {NoKey} :
          /\ sbi.ic[k[3]].st = "none"
          /\ sbi' = [vdfs4_get_inode_from_record(sbi, k) EXCEPT !.err = "ok"]
    /\ sbi' # sbi
    /\ UNCHANGED <<disk, phase, bounds>>

Open(e) ==
    /\ ~sbi.ic[sbi.names[e]].open
    /\ Call([sbi EXCEPT !.ic[sbi.names[e]].open = TRUE])

Release(i) ==
    /\ ~sbi.ro
    /\ sbi.ic[i].open
    /\ sbi' = [sbi EXCEPT !.ic[i].open = FALSE]
    /\ UNCHANGED <<disk, phase, bounds>>

(* A clean inode leaves memory when nobody uses it; a later lookup reads it again. *)
Shrink(i) ==
    /\ phase = "run" /\ ~sbi.ro
    /\ i # ROOT_INO /\ sbi.ic[i].st = "live" /\ sbi.ic[i].nlink > 0
    /\ ~sbi.ic[i].dirty /\ ~sbi.ic[i].open /\ i \notin sbi.harm
    /\ \A e \in DOMAIN sbi.names : e[1] = i => sbi.ic[sbi.names[e]].st = "none"
    /\ sbi' = [sbi EXCEPT !.ic[i] = NoInode]
    /\ UNCHANGED <<disk, phase, bounds>>

--------------------------------------------------------------------------------
(* Eviction runs beside the calls; the volume cannot be committed between        *)
(* EvictXattrs and EvictNumber, which are one transaction.                      *)

Evict(i, from, result) ==
    /\ phase \in {"mount", "run"} /\ ~sbi.ro
    /\ sbi.ic[i].st = from
    /\ sbi' = [result EXCEPT !.err = "ok"]
    /\ UNCHANGED <<disk, phase, bounds>>

EvictStart(i) ==
    /\ sbi.ic[i].nlink = 0 /\ ~sbi.ic[i].open
    /\ Evict(i, "live", [sbi EXCEPT !.ic[i].st = "freeing"])

EvictXattrs(i) == Evict(i, "freeing", evict_xattrs(sbi, i))
EvictRecord(i) == Evict(i, "bare", evict_record(sbi, i))
EvictNumber(i) == Evict(i, "removed", evict_number(sbi, i))
EvictFails(i) == Evict(i, "bare", vdfs4_fatal_error(sbi))

InTransaction == \E i \in Ino : sbi.ic[i].st \in {"bare", "removed"}

Commit ==
    /\ phase = "run" /\ ~sbi.ro
    /\ ~InTransaction
    /\ sbi' = [vdfs4_sync_fs(sbi) EXCEPT !.err = "ok"]
    /\ disk' = IF sbi'.ro THEN disk ELSE OnDisk(sbi')
    /\ UNCHANGED <<phase, bounds>>

Crash ==
    /\ crashes < MaxCrash
    /\ crashes' = crashes + 1
    /\ sbi' = MountedFrom(disk)
    /\ phase' = "mount"
    /\ UNCHANGED <<disk, calls, faults>>

Fuel == 0..MaxFuel

Next ==
    \/ vdfs4_process_orphan_inodes
    \/ MayCall /\ \E e \in Absent, kind \in Kinds, fuel \in Fuel :
           Create(e, kind, "none", "none", fuel)
    \/ MayCall /\ \E e \in Absent, with \in {"acl", "label"}, fuel \in Fuel :
           Create(e, "reg", with, "none", fuel)
    \/ MayCall /\ \E e \in Absent : Create(e, "reg", "none", "inode", 0)
    \/ MayCall /\ \E e \in Absent : Symlink(e, "page")
    \/ MayCall /\ \E e \in Present : Unlink(e)
    \/ MayCall /\ \E e \in Present : Rmdir(e)
    \/ MayCall /\ \E e \in Present, f \in Absent, fuel \in Fuel : Link(e, f, fuel)
    \/ MayCall /\ \E e \in Present, f \in Present \cup Absent,
                     whiteout \in BOOLEAN, fuel \in Fuel :
           Rename(e, f, whiteout, fuel)
    \/ MayCall /\ \E e, f \in Present, fuel \in Fuel : Exchange(e, f, fuel)
    \/ MayCall /\ \E e \in Present, attr \in Attr, value \in {"none", "fits", "long"},
                     flag \in {"any", "create", "replace"} : SetXattr(e, attr, value, flag)
    \/ \E e \in LiveDirs \X Name : Lookup(e)
    \/ MayCall /\ \E e \in Present : Open(e)
    \/ \E i \in Ino : Release(i)
    \/ \E i \in Ino : Shrink(i)
    \/ \E i \in Ino : EvictStart(i)
    \/ \E i \in Ino : EvictXattrs(i)
    \/ \E i \in Ino : EvictRecord(i)
    \/ \E i \in Ino : EvictNumber(i)
    \/ \E i \in Ino : EvictFails(i)
    \/ Commit
    \/ Crash

Spec == Init /\ [][Next]_vars

--------------------------------------------------------------------------------
(* Properties.  They speak of the volume between calls; a crash, which may come   *)
(* at any time, makes the last commit that volume.                              *)

(* The inode-link of a directory shares the key range of its entries: an entry   *)
(* with the name of its own directory can be hidden by it.                      *)
OwnName(d, n) == sbi.ic[d].parent > 0 /\ sbi.ic[d].name = n

HarmedName(d, n) ==
    \/ <<d, n>> \in DOMAIN sbi.names /\ sbi.names[<<d, n>>] \in sbi.harm
    \/ \E i \in sbi.harm : <<d, n, i>> \in DOMAIN sbi.cat

(* Every name a completed call left is found by vdfs4_lookup and listed by      *)
(* vdfs4_iterate with its inode, and no other name is, whatever open files that *)
(* were unlinked under the same name still have records in the directory.  Not  *)
(* so for an inode that a call without space left as it could (inode.c:2713 and *)
(* 3008: what is undone needs space too), and for a name its record bears.      *)
LookupFindsNames ==
    ~sbi.ro => \A d \in LiveDirs :
        LET listed == vdfs4_iterate(sbi.cat, d, NoKey)
        IN  \A n \in Name : ~OwnName(d, n) /\ ~HarmedName(d, n) =>
                LET k == vdfs4_lookup(sbi.cat, d, n, Top)
                    found == {x[3] : x \in {y \in listed : y[2] = n}}
                IN  IF <<d, n>> \in DOMAIN sbi.names
                    THEN k[3] = sbi.names[<<d, n>>] /\ found = {k[3]}
                    ELSE k = NoKey /\ found = {}

LinksTo(i) == Cardinality({e \in DOMAIN sbi.names : sbi.names[e] = i})
EntriesOf(d) == Cardinality({e \in DOMAIN sbi.names : e[1] = d})

(* The link count of every inode is the number of its names and the size of a    *)
(* directory the number of its entries: in memory, and after a crash in the      *)
(* records of the last commit.  An inode a call could not put back is excepted.  *)
CountsAreNames ==
    LET Right(v, i) == v.nlink = LinksTo(i) /\ (v.kind = "dir" => v.size = EntriesOf(i))
    IN  /\ ~sbi.ro => \A i \in Ino \ ({ROOT_INO} \cup sbi.harm) :
                          sbi.ic[i].st # "none" => Right(sbi.ic[i], i)
        /\ phase = "mount" =>
               \A e \in {x \in DOMAIN sbi.names : sbi.names[x] \notin sbi.harm} :
                   LET k == iget_record(sbi.cat, sbi.names[e])
                   IN  k # NoKey /\ Right(sbi.cat[k], sbi.names[e])

(* The orphans a mount of this catalog would find: the chain from the root.      *)
OrphanChain(cat) ==
    LET at[j \in 0..MaxIno] ==
            IF j = 0 THEN cat[RootKey].next
            ELSE IF at[j - 1] = 0 THEN 0
            ELSE LET k == iget_record(cat, at[j - 1]) IN IF k = NoKey THEN 0 ELSE cat[k].next
    IN  {at[j] : j \in 0..MaxIno} \ {0}

(* An inode number that is taken belongs to an object with a name or to one on   *)
(* the chain of orphans that starts in the record of the root, so that a crash   *)
(* at any time leaves nothing that no mount finds; and attributes belong to      *)
(* numbers that are taken, so that a new file inherits none.  Where an inode     *)
(* that could not be put back is an orphan, the chain ends with it.             *)
NothingIsLost ==
    LET named == {sbi.names[e] : e \in DOMAIN sbi.names}
        nameless == sbi.bitmap \ (named \cup {ROOT_INO} \cup sbi.harm)
        chain == OrphanChain(sbi.cat)
    IN  ~sbi.ro =>
            /\ nameless # {} /\ chain \cap sbi.harm = {} =>
                   \A i \in nameless \ chain : sbi.ic[i].st = "removed"
            /\ named \subseteq sbi.bitmap
            /\ \A i \in Ino \ sbi.bitmap : vdfs4_listxattr(sbi, i) = {}

(* A mount gets through the orphans of any crash: each is found by its number,   *)
(* has no link left and is marked, as vdfs4_process_orphan_inodes insists.  The  *)
(* inode-link that transform_into_hlink could not put back is missed there.      *)
RecoverySucceeds == phase = "failed" => sbi.ic[ROOT_INO].next \in sbi.harm
================================================================================
