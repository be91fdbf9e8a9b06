-------------------------------- MODULE Catalog --------------------------------
(* The catalog tree as an ordered map (what TreeIsMap of TreeImage shows the    *)
(* B-tree to be) and the xattr tree beside it.  A key is <<parent_id, name,     *)
(* object_id>>; names are numbers in the order of memcmp, 0 is the empty name.  *)
(* An operation is a function on a record t with the fields                     *)
(*   cat   the catalog        xat   the xattr records <<inode, name>>           *)
(*   fuel  which insertion from now fails (0: none)      err   the result       *)
(*   full  whether those after it fail too               failed  one has failed  *)
EXTENDS Integers, Sequences, FiniteSets, FiniteSetsExt, TLC

ROOT_INO == 1
NoKey == <<-1, -1, -1>>
NoName == 0

(* struct vdfs4_catalog_folder_record and its file and link variants.           *)
Value(type, kind, nlink, hard, orphan, next, size) ==
    [type |-> type, kind |-> kind, nlink |-> nlink, hard |-> hard,
     orphan |-> orphan, next |-> next, size |-> size]

Ilink == Value("ilink", "none", 0, FALSE, FALSE, 0, 0)
Hlink == Value("hlink", "none", 0, FALSE, FALSE, 0, 0)

RootKey == <<0, 1, ROOT_INO>>

(* What follows a call that succeeded, and what a failed one has undone.        *)
Then(t, Go(_)) == IF t.err = "ok" THEN Go(t) ELSE t
OrUndo(t, Undo(_)) == IF t.err = "ok" THEN t ELSE [Undo(t) EXCEPT !.err = t.err]

--------------------------------------------------------------------------------
(* The tree underneath.                                                         *)

vdfs4_cattree_cmpfn(k1, k2) ==
    IF k1[1] # k2[1] THEN k1[1] - k2[1]
    ELSE IF k1[2] # k2[2] THEN k1[2] - k2[2]
    ELSE k1[3] - k2[3]

(* The record with the greatest key that is not above the one searched for.     *)
vdfs4_btree_find(cat, k) ==
    LET below == {x \in DOMAIN cat : vdfs4_cattree_cmpfn(x, k) <= 0}
    IN  IF below = {} THEN NoKey
        ELSE CHOOSE x \in below : \A y \in below : vdfs4_cattree_cmpfn(y, x) <= 0

vdfs4_cattree_get_next_record(cat, k) ==
    LET above == {x \in DOMAIN cat : vdfs4_cattree_cmpfn(x, k) > 0}
    IN  IF above = {} THEN NoKey
        ELSE CHOOSE x \in above : \A y \in above : vdfs4_cattree_cmpfn(x, y) <= 0

Fails(t) == t.fuel = 1
NoSpace(t) == [t EXCEPT !.fuel = IF t.full THEN 1 ELSE 0, !.failed = TRUE, !.err = "ENOSPC"]
Burn(t) == IF t.fuel = 0 THEN 0 ELSE t.fuel - 1

vdfs4_btree_place_data(t, k, v) ==
    IF Fails(t) THEN NoSpace(t)
    ELSE IF k \in DOMAIN t.cat THEN [t EXCEPT !.fuel = Burn(t), !.err = "EEXIST"]
    ELSE [t EXCEPT !.fuel = Burn(t), !.err = "ok", !.cat = (k :> v) @@ @]

vdfs4_btree_remove(t, k) ==
    IF k \notin DOMAIN t.cat THEN [t EXCEPT !.err = "ENOENT"]
    ELSE [t EXCEPT !.err = "ok", !.cat = [x \in DOMAIN @ \ {k} |-> @[x]]]

--------------------------------------------------------------------------------
(* Searching the catalog (cattree.c; the tools carry the same code).            *)

vdfs4_cattree_is_orphan(cat, k) ==
    cat[k].type \in {"file", "folder"} /\ cat[k].orphan

vdfs4_fill_cattree_key(object, parent, name) == <<parent, name, object>>

vdfs4_cattree_find_inode(cat, object, parent, name) ==
    LET k == vdfs4_fill_cattree_key(object, parent, name)
    IN  IF k \in DOMAIN cat THEN k ELSE NoKey

vdfs4_cattree_find_hlink(cat, object) ==
    vdfs4_cattree_find_inode(cat, object, object, NoName)

(* Mutant of vdfs4_cattree_find: the last record with the name is taken as it is. *)
find_takes_last(cat, parent, name, top) ==
    LET last == vdfs4_btree_find(cat, <<parent, name, top>>)
    IN  IF last[1] # parent \/ last[2] # name THEN NoKey ELSE last

(* The last record with the name, and if that is an orphan the first that is    *)
(* none; top stands for GREATEST_AVAIL_ID.                                      *)
vdfs4_cattree_find(cat, parent, name, top) ==
    LET last == vdfs4_btree_find(cat, <<parent, name, top>>)
        Named(k) == k[1] = parent /\ k[2] = name
        live == {k \in DOMAIN cat : Named(k) /\ ~vdfs4_cattree_is_orphan(cat, k)}
    IN  IF ~Named(last) THEN NoKey
        ELSE IF ~vdfs4_cattree_is_orphan(cat, last) THEN last
        ELSE IF live = {} THEN NoKey
        ELSE CHOOSE k \in live : \A x \in live : k[3] <= x[3]

vdfs4_cattree_get_first_child(cat, catalog_id) ==
    vdfs4_cattree_get_next_record(cat, vdfs4_btree_find(cat, <<catalog_id, NoName, 0>>))

(* The record of the inode a name leads to, NoKey for a negative entry.  The    *)
(* inode-link of the directory itself may bear the name that is searched for.   *)
vdfs4_lookup(cat, dir, name, top) ==
    LET Before(k) == vdfs4_btree_find(cat, <<dir, name, k[3] - 1>>)
        Named(k) == IF k[1] = dir /\ k[2] = name THEN k ELSE NoKey
        Past(k) == IF k = NoKey \/ cat[k].type # "ilink" THEN k ELSE Named(Before(k))
        Live(k) == IF k = NoKey THEN NoKey
                   ELSE IF cat[k].type = "ilink" \/ vdfs4_cattree_is_orphan(cat, k) THEN NoKey
                   ELSE k
    IN  Live(Past(vdfs4_cattree_find(cat, dir, name, top)))

(* The body of the inode with this number, through its inode-link or its        *)
(* hard-link body.                                                              *)
iget_record(cat, ino) ==
    LET mine == {k \in DOMAIN cat : k[1] = ino /\ (cat[k].type = "ilink" \/ k[3] = ino)}
    IN  IF mine = {} THEN NoKey
        ELSE LET k == CHOOSE x \in mine :
                          \A y \in mine : vdfs4_cattree_cmpfn(x, y) <= 0
             IN  IF cat[k].type = "ilink"
                 THEN vdfs4_cattree_find_inode(cat, ino, k[3], k[2]) ELSE k

(* What a scan of the directory emits, from the record the reader stopped at    *)
(* (NoKey: from the first child) to the end.                                    *)
vdfs4_iterate(cat, dir, from) ==
    LET start == IF from = NoKey THEN vdfs4_cattree_get_first_child(cat, dir) ELSE from
    IN  {k \in DOMAIN cat :
            /\ start # NoKey
            /\ k[1] = dir
            /\ vdfs4_cattree_cmpfn(k, start) >= 0
            /\ cat[k].type # "ilink"
            /\ ~vdfs4_cattree_is_orphan(cat, k)}

--------------------------------------------------------------------------------
(* Changing it.                                                                 *)

vdfs4_cattree_insert_ilink(t, object, parent, name) ==
    vdfs4_btree_place_data(t, vdfs4_fill_cattree_key(parent, object, name), Ilink)

vdfs4_cattree_remove(t, object, parent, name, type) ==
    Then(IF object # parent /\ type \notin {"hlink", "ilink"}
         THEN vdfs4_btree_remove(t, <<object, name, parent>>)
         ELSE [t EXCEPT !.err = "ok"],
         LAMBDA a : vdfs4_btree_remove(a, <<parent, name, object>>))

vdfs4_cattree_remove_ilink(t, object, parent, name) ==
    vdfs4_cattree_remove(t, parent, object, name, "ilink")

vdfs4_cattree_place_record(t, object, parent, name, v) ==
    LET key == vdfs4_fill_cattree_key(object, parent, name)
    IN  Then(IF object # parent /\ v.type # "hlink"
             THEN vdfs4_cattree_insert_ilink(t, object, parent, name)
             ELSE [t EXCEPT !.err = "ok"],
             LAMBDA a : OrUndo(vdfs4_btree_place_data(a, key, v),
                               LAMBDA b : vdfs4_cattree_remove_ilink(b, object, parent, name)))

--------------------------------------------------------------------------------
(* Extended attributes: xattr.c.                                                *)

xattrtree_insert(t, ino, name) ==
    IF Fails(t) THEN NoSpace(t)
    ELSE [t EXCEPT !.fuel = Burn(t), !.err = "ok", !.xat = @ \cup {<<ino, name>>}]

xattrtree_remove_record(t, ino, name) ==
    IF <<ino, name>> \notin t.xat THEN [t EXCEPT !.err = "ENOENT"]
    ELSE [t EXCEPT !.err = "ok", !.xat = @ \ {<<ino, name>>}]

vdfs4_xattrtree_find(t, ino, name) == <<ino, name>> \in t.xat

vdfs4_listxattr(t, ino) == {n \in {x[2] : x \in t.xat} : <<ino, n>> \in t.xat}

(* The first record that is left, until there is none.                          *)
vdfs4_xattrtree_remove_all(t, ino) ==
    [t EXCEPT !.xat = {x \in @ : x[1] # ino}, !.err = "ok"]

(* The access-control lists are stored as attributes of their own names.        *)
vdfs4_set_acl(t, ino, name, acl) ==
    LET a == xattrtree_remove_record(t, ino, name)
    IN  IF a.err \notin {"ok", "ENOENT"} THEN a
        ELSE IF acl THEN xattrtree_insert(a, ino, name)
        ELSE [a EXCEPT !.err = "ok"]

(* flag is "create", "replace" or "any"; value is "none" (removal), "fits" or   *)
(* "long": 199 bytes, one the check of the call lets through and that of the    *)
(* insertion does not.                                                          *)
vdfs4_setxattr(t, ino, name, value, flag) ==
    LET found == vdfs4_xattrtree_find(t, ino, name)
        a == IF found THEN xattrtree_remove_record(t, ino, name)
             ELSE [t EXCEPT !.err = "ok"]
    IN  IF found /\ flag = "create" THEN [t EXCEPT !.err = "EEXIST"]
        ELSE IF ~found /\ flag = "replace" THEN [t EXCEPT !.err = "ENODATA"]
        ELSE IF a.err # "ok" \/ value = "none" THEN a
        ELSE IF value = "long" THEN [a EXCEPT !.err = "EINVAL"]
        ELSE xattrtree_insert(a, ino, name)

(* The labels of a new inode.                                                   *)
vdfs4_init_security_xattrs(t, ino, name) == xattrtree_insert(t, ino, name)
================================================================================
