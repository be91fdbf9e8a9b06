---------------------------- MODULE TunedFileProofs ----------------------------
(* Valid pages of a packed file hold what its chunk unpacks to, and a reader that *)
(* has a slot of the decompressor finds its buffers. ChunkReadProofs has the      *)
(* argument for the pages and the steps that are none of the buffers'; here the   *)
(* buffers are counted and the readers put together with mkfs.vdfs and the        *)
(* opening of the file.                                                          *)
EXTENDS TunedFile, ChunkReadProofs, FiniteSetTheorems

--------------------------------------------------------------------------------
(* The buffers for unpacking: the readers that take and return them.            *)

USE ChunkReadAssumption

\* A set of natural numbers has a least one.
LEMMA MinIsIn ==
    ASSUME NEW S \in SUBSET Nat, S # {}
    PROVE  Min(S) \in S
<1> DEFINE R == OpToRel(<, Nat)
<1>1. PICK x \in S : \A y \in S : ~ (<<y, x>> \in R)
  BY NatLessThanWellFounded, WFMin, Zenon
<1>2. ASSUME NEW y \in S, y < x
      PROVE  <<y, x>> \in R
  <2> SUFFICES <<y, x>> \in {ss \in Nat \X Nat : ss[1] < ss[2]}
    BY Zenon DEF OpToRel
  <2> QED
    BY <1>2
<1> HIDE DEF R
<1>3. \A y \in S : x <= y
  <2>1. \A y \in S : ~ (y < x)
    BY <1>1, <1>2, Zenon
  <2> QED
    BY <2>1
<1> QED
  BY <1>3, Zenon DEF Min

\* The sets that are counted are finite.
LEMMA Finite ==
    ASSUME PoolInv
    PROVE  /\ IsFiniteSet(bitmap) /\ Cardinality(bitmap) \in Nat
           /\ \A r \in Reader : IsFiniteSet(task[r].map)
           /\ Cardinality(Users) \in Nat
           /\ \A n \in {1, 2} : /\ With(n) \subseteq Users
                                /\ IsFiniteSet(With(n)) /\ Cardinality(With(n)) \in Nat
<1>1. IsFiniteSet(BUFFERS)
  BY FS_Interval DEF BUFFERS
<1>2. IsFiniteSet(bitmap) /\ Cardinality(bitmap) \in Nat
  BY <1>1, FS_Subset, FS_CardinalityType DEF PoolInv
<1>3. \A r \in Reader : IsFiniteSet(task[r].map)
  BY <1>2, FS_Subset DEF PoolInv
<1>4. \A n \in {1, 2} : With(n) \subseteq Users
  <2>1. ASSUME NEW r \in Reader, Cardinality(task[r].map) # 0
        PROVE  r \in Users
    BY <2>1, FS_EmptySet, Zenon DEF PoolInv, Mapping, InPool, Users
  <2> QED
    BY <2>1 DEF With
<1>5. IsFiniteSet(Users) /\ Cardinality(Users) \in Nat
  BY FS_CardinalityType DEF PoolInv
<1>6. \A n \in {1, 2} : IsFiniteSet(With(n)) /\ Cardinality(With(n)) \in Nat
  BY <1>4, <1>5, FS_Subset, FS_CardinalityType
<1> QED
  BY <1>2, <1>3, <1>4, <1>5, <1>6

\* How a set that one reader may join or leave changes.
LEMMA Joins ==
    ASSUME NEW S, NEW T, NEW r, IsFiniteSet(S), T \ {r} = S \ {r}
    PROVE  /\ IsFiniteSet(T)
           /\ Cardinality(T) = Cardinality(S) + (IF r \in T THEN 1 ELSE 0)
                                              - (IF r \in S THEN 1 ELSE 0)
<1>1. Cardinality(S) \in Nat
  BY FS_CardinalityType
<1>2. CASE r \in T /\ r \notin S
  <2>1. T = S \cup {r}
    BY <1>2
  <2> QED
    BY <1>1, <1>2, <2>1, FS_AddElement
<1>3. CASE r \notin T /\ r \in S
  <2>1. T = S \ {r}
    BY <1>3
  <2> QED
    BY <1>1, <1>3, <2>1, FS_RemoveElement
<1>4. CASE (r \in T) <=> (r \in S)
  <2>1. T = S
    BY <1>4
  <2> QED
    BY <1>1, <1>4, <2>1
<1> QED
  BY <1>2, <1>3, <1>4

\* A step in which reader r takes or returns buffers or a slot.
PoolStep(r, new) ==
    /\ Moves(r, new)
    /\ lost' \in Nat /\ sem' \in Nat /\ bitmap' \subseteq BUFFERS
    /\ sem' = sem + (IF task[r].pc \in InPool THEN 1 ELSE 0)
                  - (IF new.pc \in InPool THEN 1 ELSE 0)
    /\ Cardinality(new.map) \in 0..2
    /\ Cardinality(bitmap') = Cardinality(bitmap) + lost' - lost
                              + Cardinality(new.map) - Cardinality(task[r].map)
    /\ new.map \subseteq bitmap' /\ (new.map # {} => new.pc \in Mapping)
    /\ \A s \in Reader \ {r} : task[s].map \subseteq bitmap' /\ task[s].map \cap new.map = {}

\* Such a step keeps the invariant.
LEMMA PoolMoves ==
    ASSUME PoolInv, NEW r \in Reader, NEW new, PoolStep(r, new)
    PROVE  PoolInv'
<1> DEFINE c == Cardinality(task[r].map)
           d == Cardinality(new.map)
<1>0. c \in 0..2 /\ d \in 0..2
  BY DEF PoolInv, PoolStep
<1>1. task'[r] = new /\ \A s \in Reader \ {r} : task'[s] = task[s]
  BY DEF PoolStep, Moves
<1>2. /\ IsFiniteSet(Users') /\ sem' + Cardinality(Users') = Maps
  <2>1. Users' \ {r} = Users \ {r}
    BY <1>1 DEF Users
  <2>2. (r \in Users' <=> new.pc \in InPool) /\ (r \in Users <=> task[r].pc \in InPool)
    BY <1>1 DEF Users
  <2>3. /\ IsFiniteSet(Users')
        /\ Cardinality(Users') = Cardinality(Users) + (IF r \in Users' THEN 1 ELSE 0)
                                                    - (IF r \in Users THEN 1 ELSE 0)
    BY <2>1, Joins DEF PoolInv
  <2>4. Cardinality(Users) \in Nat /\ sem \in Nat /\ sem + Cardinality(Users) = Maps
    BY Finite DEF PoolInv
  <2>5. sem' = sem + (IF r \in Users THEN 1 ELSE 0) - (IF r \in Users' THEN 1 ELSE 0)
    BY <2>2 DEF PoolStep
  <2> QED
    BY <2>3, <2>4, <2>5
<1>3. ASSUME NEW n \in {1, 2}
      PROVE  /\ Cardinality(With(n)') = Cardinality(With(n)) + (IF d = n THEN 1 ELSE 0)
                                                             - (IF c = n THEN 1 ELSE 0)
             /\ Cardinality(With(n)) \in Nat
  <2>1. With(n)' \ {r} = With(n) \ {r}
    BY <1>1 DEF With
  <2>2. (r \in With(n)' <=> d = n) /\ (r \in With(n) <=> c = n)
    BY <1>1 DEF With
  <2>3. IsFiniteSet(With(n)) /\ Cardinality(With(n)) \in Nat
    BY Finite
  <2> QED
    BY <2>1, <2>2, <2>3, Joins
<1>4. Cardinality(bitmap') = Cardinality(With(1)') + 2 * Cardinality(With(2)') + lost'
  <2>1. /\ Cardinality(With(1)') = Cardinality(With(1)) + (IF d = 1 THEN 1 ELSE 0)
                                                        - (IF c = 1 THEN 1 ELSE 0)
        /\ Cardinality(With(2)') = Cardinality(With(2)) + (IF d = 2 THEN 1 ELSE 0)
                                                        - (IF c = 2 THEN 1 ELSE 0)
        /\ Cardinality(With(1)) \in Nat /\ Cardinality(With(2)) \in Nat
    BY <1>3
  <2>2. /\ Cardinality(bitmap) = Cardinality(With(1)) + 2 * Cardinality(With(2)) + lost
        /\ Cardinality(bitmap) \in Nat /\ lost \in Nat
    BY Finite DEF PoolInv
  <2>3. Cardinality(bitmap') = Cardinality(bitmap) + lost' - lost + d - c /\ lost' \in Nat
    BY DEF PoolStep
  <2> HIDE DEF c, d
  <2> QED
    BY <1>0, <2>1, <2>2, <2>3
<1>5. \A s \in Reader : /\ task'[s].map \subseteq bitmap'
                        /\ Cardinality(task'[s].map) \in 0..2
                        /\ task'[s].map # {} => task'[s].pc \in Mapping
  <2>1. ASSUME NEW s \in Reader, s # r
        PROVE  /\ task'[s].map \subseteq bitmap'
               /\ Cardinality(task'[s].map) \in 0..2
               /\ task'[s].map # {} => task'[s].pc \in Mapping
    BY <1>1, <2>1 DEF PoolInv, PoolStep
  <2> QED
    BY <1>1, <2>1 DEF PoolStep
<1>6. \A s, u \in Reader : s # u => task'[s].map \cap task'[u].map = {}
  BY <1>1 DEF PoolInv, PoolStep
<1> QED
  BY <1>2, <1>4, <1>5, <1>6 DEF PoolInv, PoolStep

\* vdfs4_sw_decomp_vm_get waits for a slot.
LEMMA GetSlot ==
    ASSUME ReadInv, PoolInv, NEW r \in Reader, sw_decomp_vm_get(r)
    PROVE  PoolInv'
<1> DEFINE new == [task[r] EXCEPT !.pc = "map"]
<1>1. /\ Step(r, "unpack", new) /\ sem > 0 /\ sem' = sem - 1
      /\ bitmap' = bitmap /\ lost' = lost
  BY DEF sw_decomp_vm_get
<1>2. task[r].pc = "unpack" /\ Moves(r, new)
  BY <1>1, StepMoves, ZenonT(30) DEF Step
<1>3. new.pc = "map" /\ new.map = task[r].map
  BY Local, <1>2 DEF ReadInv, At, Fields
<1> HIDE DEF new
<1>4. Cardinality(bitmap) \in Nat
  BY Finite
<1>5. PoolStep(r, new)
  BY <1>1, <1>2, <1>3, <1>4 DEF PoolInv, PoolStep, InPool, Mapping
<1> QED
  BY <1>5, PoolMoves

\* vdfs4_sw_decomp_vm_put returns it.
LEMMA PutSlot ==
    ASSUME ReadInv, PoolInv, NEW r \in Reader, sw_decomp_vm_put(r)
    PROVE  PoolInv'
<1>1. /\ task[r].pc = "put" /\ Moves(r, task'[r]) /\ sem' = sem + 1
      /\ bitmap' = bitmap /\ lost' = lost
  BY DEF sw_decomp_vm_put, Step, Moves, ReadInv
<1>2. task[r].map = {}
  BY <1>1 DEF PoolInv, Mapping
<1>3. task'[r].pc \notin InPool /\ task'[r].map = {}
  BY <1>1, <1>2 DEF sw_decomp_vm_put, Step, ReadInv, Done, Idle, InPool
<1>4. Cardinality(bitmap) \in Nat /\ Cardinality({}) = 0
  BY Finite, FS_EmptySet
<1>5. PoolStep(r, task'[r])
  BY <1>1, <1>2, <1>3, <1>4 DEF PoolInv, PoolStep, InPool, Mapping
<1> QED
  BY <1>5, PoolMoves

\* A buffer that is free is taken.
LEMMA FreeBuffer ==
    ASSUME PoolInv, bitmap # BUFFERS, NEW idx, idx = Min(BUFFERS \ bitmap)
    PROVE  /\ idx \in BUFFERS \ bitmap
           /\ Cardinality(bitmap \cup {idx}) = Cardinality(bitmap) + 1
<1>1. BUFFERS \ bitmap # {} /\ BUFFERS \ bitmap \in SUBSET Nat
  <2>1. BUFFERS \subseteq Nat
    BY DEF BUFFERS
  <2> QED
    BY <2>1, Zenon DEF PoolInv
<1>2. idx \in BUFFERS \ bitmap
  BY <1>1, MinIsIn
<1> QED
  BY <1>2, Finite, FS_AddElement, ZenonT(30)

\* vdfs4_sw_decomp_vm_map takes the first buffer that is free.
LEMMA MapBuffer ==
    ASSUME ReadInv, PoolInv, NEW r \in Reader, sw_decomp_vm_map(r)
    PROVE  PoolInv'
<1>1. /\ task[r].pc = "map" /\ Cardinality(task[r].map) < 2
      /\ sem' = sem /\ lost' = lost
  BY DEF sw_decomp_vm_map
<1>2. DOMAIN task = Reader /\ DOMAIN task[r] = Fields
  BY DEF ReadInv, TaskOK
<1>3. CASE bitmap # BUFFERS
  <2> DEFINE idx == Min(BUFFERS \ bitmap)
             new == [task[r] EXCEPT !.map = @ \cup {idx}]
  <2>1. bitmap' = bitmap \cup {idx} /\ task' = [task EXCEPT ![r] = new]
    BY <1>3 DEF sw_decomp_vm_map
  <2>2. /\ idx \in BUFFERS \ bitmap
        /\ Cardinality(bitmap \cup {idx}) = Cardinality(bitmap) + 1
    BY <1>3, FreeBuffer
  <2> HIDE DEF idx
  <2>3. Moves(r, new) /\ new.pc = "map" /\ new.map = task[r].map \cup {idx}
    BY <1>1, <1>2, <2>1, Zenon DEF Moves, Fields
  <2> HIDE DEF new
  <2>4. idx \notin task[r].map
    BY <2>2 DEF PoolInv
  <2>5. Cardinality(new.map) = Cardinality(task[r].map) + 1
    <3>1. IsFiniteSet(task[r].map)
      BY Finite
    <3>2. Cardinality(task[r].map \cup {idx}) = Cardinality(task[r].map) + 1
      BY <2>4, <3>1, FS_AddElement, ZenonT(30)
    <3> QED
      BY <2>3, <3>2, Zenon
  <2>6. Cardinality(bitmap) \in Nat /\ Cardinality(task[r].map) \in 0..1
    BY <1>1, Finite DEF PoolInv
  <2>7. \A s \in Reader \ {r} : task[s].map \subseteq bitmap' /\ task[s].map \cap new.map = {}
    BY <2>1, <2>2, <2>3, Zenon DEF PoolInv
  <2>8. new.map \subseteq bitmap' /\ bitmap' \subseteq BUFFERS
    BY <2>1, <2>2, <2>3, Zenon DEF PoolInv
  <2>9. PoolStep(r, new)
    BY <1>1, <2>1, <2>2, <2>3, <2>5, <2>6, <2>7, <2>8 DEF PoolInv, PoolStep, InPool, Mapping
  <2> QED
    BY <2>9, PoolMoves
<1>4. CASE bitmap = BUFFERS
  <2>1. /\ bitmap' = bitmap /\ Moves(r, task'[r])
        /\ task'[r].pc = "unmap" /\ task'[r].map = task[r].map
    BY <1>2, <1>4 DEF sw_decomp_vm_map, Moves, Fields
  <2> QED
    BY <1>1, <2>1, ByStep, StaysInPool DEF pool, Keeps, Mapping
<1> QED
  BY <1>3, <1>4

\* A mapping that fails leaves the bit of its buffer set.
LEMMA MapFails ==
    ASSUME ReadInv, PoolInv, NEW r \in Reader, sw_decomp_vm_map_fails(r)
    PROVE  PoolInv'
<1>1. /\ task[r].pc = "map" /\ bitmap # BUFFERS
      /\ bitmap' = bitmap \cup {Min(BUFFERS \ bitmap)}
      /\ sem' = sem /\ lost' = lost + 1
  BY DEF sw_decomp_vm_map_fails
<1>2. DOMAIN task = Reader /\ DOMAIN task[r] = Fields
  BY DEF ReadInv, TaskOK
<1>3. Moves(r, task'[r]) /\ task'[r].pc = "unmap" /\ task'[r].map = task[r].map
  BY <1>2 DEF sw_decomp_vm_map_fails, Moves, Fields
<1>4. /\ Min(BUFFERS \ bitmap) \in BUFFERS
      /\ Cardinality(bitmap') = Cardinality(bitmap) + 1
  BY <1>1, FreeBuffer
<1>5. Cardinality(bitmap) \in Nat
  BY Finite
<1>6. bitmap \subseteq bitmap' /\ bitmap' \subseteq BUFFERS
  BY <1>1, <1>4, ZenonT(30) DEF PoolInv
<1>7. PoolStep(r, task'[r])
  BY <1>1, <1>3, <1>4, <1>5, <1>6 DEF PoolInv, PoolStep, InPool, Mapping
<1> QED
  BY <1>7, PoolMoves

\* vdfs4_sw_decomp_vm_unmap clears the bits of the reader's buffers.
LEMMA Unmap ==
    ASSUME ReadInv, PoolInv, NEW r \in Reader, sw_decomp_vm_unmap(r)
    PROVE  PoolInv'
<1>1. /\ task[r].pc = "unmap" /\ Moves(r, task'[r])
      /\ bitmap' = bitmap \ task[r].map
      /\ sem' = sem /\ lost' = lost
  BY DEF sw_decomp_vm_unmap, Step, Moves, ReadInv
<1>2. DOMAIN task = Reader /\ DOMAIN task[r] = Fields
  BY DEF ReadInv, TaskOK
<1>3. task'[r].pc = "put" /\ task'[r].map = {}
  BY <1>2 DEF sw_decomp_vm_unmap, Step, Fields
<1>4. Cardinality(bitmap') = Cardinality(bitmap) - Cardinality(task[r].map)
  <2>1. bitmap \cap task[r].map = task[r].map
    BY Zenon DEF PoolInv
  <2> QED
    BY <1>1, <2>1, Finite, FS_Difference, ZenonT(30)
<1>5. Cardinality(bitmap) \in Nat /\ Cardinality({}) = 0
  BY Finite, FS_EmptySet
<1>6. /\ bitmap' \subseteq BUFFERS
      /\ \A s \in Reader \ {r} : task[s].map \subseteq bitmap'
  BY <1>1, Zenon DEF PoolInv
<1>7. PoolStep(r, task'[r])
  BY <1>1, <1>3, <1>4, <1>5, <1>6 DEF PoolInv, PoolStep, InPool, Mapping
<1> QED
  BY <1>7, PoolMoves


\* The steps of a reader.
LEMMA AdvancePool ==
    ASSUME ReadInv, PoolInv, NEW r \in Reader, Advance(r)
    PROVE  PoolInv'
<1>1. task[r].pc # "idle"
  BY DEF Advance
<1>2. CASE Bystander
  BY <1>2, StaysInPool
<1>3. CASE GoesOutside(r)
  BY <1>2, <1>3, Outside
<1>4. CASE \/ readpage_tuned_sw(r) \/ read_comp_pages(r) \/ get_chunk_extent(r)
           \/ vdfs4__read(r) \/ folio_wait_locked(r) \/ readpage_tuned_hw(r)
           \/ hw_falls_back(r) \/ readpage_comp_inline_data(r)
  BY <1>1, <1>3, <1>4, ReadsOutside, Zenon
<1>5. CASE collect_block(r) \/ collect_page(r) \/ collect_inline(r) \/ find_get_pages(r)
  BY <1>3, <1>5, CollectsOutside, Zenon
<1>6. CASE \/ mark_block(r) \/ already_read(r) \/ drop_block(r) \/ retry(r)
           \/ auth_decompress_hw2(r) \/ hw2_unpack_chunk(r) \/ unpack_inline(r)
           \/ read_folio(r) \/ folio_lock(r)
  BY <1>3, <1>6, EndsOutside, Zenon
<1>7. CASE decomp_fn(r)
  BY <1>2, <1>7, UnpacksMapped, Zenon
<1>8. CASE \/ sw_decomp_vm_get(r) \/ sw_decomp_vm_map(r) \/ sw_decomp_vm_unmap(r)
           \/ sw_decomp_vm_put(r)
  BY <1>8, GetSlot, MapBuffer, Unmap, PutSlot, Zenon
<1> QED
  BY <1>4, <1>5, <1>6, <1>7, <1>8, Zenon DEF Advance

\* Every step of the readers and of their I/O keeps the invariant.
LEMMA NextPool == ReadInv /\ PoolInv /\ NextReads => PoolInv'
<1> SUFFICES ASSUME ReadInv, PoolInv, NextReads PROVE PoolInv'
  OBVIOUS
<1>1. ASSUME NEW r \in Reader, NEW p \in Pages, filemap_read(r, p) \/ read_pages(r, p)
      PROVE  PoolInv'
  BY <1>1, EndsOutside, Outside, StaysInPool, Zenon
<1>2. ASSUME NEW r \in Reader, Advance(r) PROVE PoolInv'
  BY <1>2, AdvancePool
<1>3. ASSUME NEW r \in Reader,
             \/ private_read_fails(r) \/ hw2_fails(r) \/ chunk_extent_fails(r)
             \/ collect_block_fails(r) \/ collect_page_fails(r)
      PROVE  PoolInv'
  <2>1. task[r].pc # "idle"
    BY <1>3, Zenon DEF private_read_fails, hw2_fails, chunk_extent_fails,
                       collect_block_fails, collect_page_fails, Step
  <2> QED
    BY <1>3, <2>1, ReadsOutside, Outside, StaysInPool, Zenon
<1>4. ASSUME NEW r \in Reader, sw_decomp_vm_map_fails(r) PROVE PoolInv'
  BY <1>4, MapFails
<1>5. ASSUME NEW r \in Reader, decomp_fails(r) PROVE PoolInv'
  BY <1>5, UnpacksMapped, StaysInPool, Zenon
<1>6. ASSUME NEW r \in Reader,
             \/ unpack_inline_fails(r) \/ readpage_comp_inline_fails(r)
             \/ collect_inline_fails(r)
      PROVE  PoolInv'
  BY <1>6, EndsOutside, Outside, StaysInPool, Zenon
<1>7. ASSUME NEW p \in All, end_io(p) \/ end_io_error(p) PROVE PoolInv'
  BY <1>7, IOOutside, StaysInPool, Zenon
<1> QED
  BY <1>1, <1>2, <1>3, <1>4, <1>5, <1>6, <1>7, Zenon DEF NextReads

\* The pool is complete at first.
LEMMA InitPool == InitReads => PoolInv
<1> SUFFICES ASSUME InitReads PROVE PoolInv
  OBVIOUS
<1>1. /\ lost = 0 /\ sem = Maps /\ bitmap = {}
      /\ \A r \in Reader : task[r].map = {} /\ task[r].pc = "idle"
  BY DEF InitReads, Idle
<1>2. IsFiniteSet({}) /\ Cardinality({}) = 0
  BY FS_EmptySet
<1>3. Users = {}
  BY <1>1 DEF Users, InPool
<1>4. ASSUME NEW n \in {1, 2} PROVE With(n) = {}
  <2>1. \A r \in Reader : Cardinality(task[r].map) = 0
    BY <1>1, <1>2, Zenon
  <2> QED
    BY <2>1 DEF With
<1>5. /\ IsFiniteSet(Users) /\ sem + Cardinality(Users) = Maps
      /\ Cardinality(bitmap) = Cardinality(With(1)) + 2 * Cardinality(With(2)) + lost
  <2>1. With(1) = {} /\ With(2) = {}
    BY <1>4
  <2>2. /\ IsFiniteSet(Users) /\ Cardinality(Users) = 0 /\ Cardinality(bitmap) = 0
        /\ Cardinality(With(1)) = 0 /\ Cardinality(With(2)) = 0
    BY <1>1, <1>2, <1>3, <2>1, Zenon
  <2>3. lost = 0 /\ sem = Maps
    BY <1>1, Zenon
  <2> QED
    BY <2>2, <2>3
<1>6. \A r \in Reader : /\ task[r].map \subseteq bitmap
                        /\ Cardinality(task[r].map) \in 0..2
                        /\ task[r].map # {} => task[r].pc \in Mapping
  <2>1. 0 \in 0..2
    OBVIOUS
  <2> QED
    BY <1>1, <1>2, <2>1, Zenon
<1>7. \A r, s \in Reader : r # s => task[r].map \cap task[s].map = {}
  BY <1>1
<1> QED
  BY <1>1, <1>5, <1>6, <1>7, Zenon DEF PoolInv

\* At most two buffers are taken for each slot that is, and a reader that looks for
\* a buffer has a slot and less than two.
LEMMA BuffersSuffice == PoolInv => MapFindsBuffer
<1> SUFFICES ASSUME PoolInv, lost = 0, NEW r \in Reader, task[r].pc = "map",
                    Cardinality(task[r].map) < 2
             PROVE  bitmap # BUFFERS
  BY DEF MapFindsBuffer
<1> DEFINE W == With(1) \cup With(2)
<1>1. /\ IsFiniteSet(Users) /\ Cardinality(Users) \in Nat
      /\ With(1) \subseteq Users /\ With(2) \subseteq Users
      /\ IsFiniteSet(With(1)) /\ Cardinality(With(1)) \in Nat
      /\ IsFiniteSet(With(2)) /\ Cardinality(With(2)) \in Nat
  BY Finite DEF PoolInv
<1>2. With(2) \subseteq Users \ {r} /\ r \in Users
  BY <1>1 DEF With, Users, InPool
<1>3. Cardinality(With(1)) + Cardinality(With(2)) = Cardinality(W) /\ W \subseteq Users
  <2>1. With(1) \cap With(2) = {}
    BY DEF With
  <2>2. Cardinality(With(1) \cap With(2)) = 0
    BY <2>1, FS_EmptySet, Zenon
  <2>3. Cardinality(W) = Cardinality(With(1)) + Cardinality(With(2))
                            - Cardinality(With(1) \cap With(2))
    BY <1>1, FS_Union, Zenon
  <2>4. W \subseteq Users
    BY <1>1, Zenon
  <2> HIDE DEF W
  <2> QED
    BY <1>1, <2>2, <2>3, <2>4
<1>4. Cardinality(W) <= Cardinality(Users)
  BY <1>1, <1>3, FS_Subset, Zenon
<1>5. Cardinality(With(2)) <= Cardinality(Users) - 1
  <2>1. IsFiniteSet(Users \ {r}) /\ Cardinality(Users \ {r}) = Cardinality(Users) - 1
    BY <1>1, <1>2, FS_RemoveElement, Zenon
  <2> QED
    BY <1>2, <2>1, FS_Subset
<1>6. Cardinality(Users) <= Maps
  BY <1>1 DEF PoolInv
<1>7. Cardinality(bitmap) < 2 * Maps
  <2>1. Cardinality(bitmap) = Cardinality(With(1)) + 2 * Cardinality(With(2))
    BY <1>1 DEF PoolInv
  <2> HIDE DEF W
  <2> QED
    BY <1>1, <1>3, <1>4, <1>5, <1>6, <2>1
<1>8. Cardinality(BUFFERS) = 2 * Maps
  BY FS_Interval DEF BUFFERS
<1> QED
  BY <1>7, <1>8

--------------------------------------------------------------------------------
(* The readers, mkfs.vdfs and the opening of the file.                          *)

\* Only an image that has been made is mounted, and nothing is open before.
MountedIsOpen == phase # "mounted" => file = "closed"

\* The inductive invariant.
Inv == ReadInv /\ PoolInv /\ MountedIsOpen

\* The invariant holds at first.
LEMMA InitInv == Init => Inv
<1> SUFFICES ASSUME Init PROVE Inv
  OBVIOUS
<1>1. InitReads /\ ReadInv /\ PoolInv
  BY InitRead, InitPool DEF Init
<1> QED
  BY <1>1 DEF InitReads, Inv, MountedIsOpen

\* Nothing changes for the readers.
LEMMA SameReads ==
    ASSUME ReadInv, PoolInv, UNCHANGED <<file, lock, cached, uptodate, good, task>>, pool' = pool
    PROVE  ReadInv' /\ PoolInv'
<1>1. /\ file' = file /\ lock' = lock /\ cached' = cached /\ uptodate' = uptodate
      /\ good' = good /\ task' = task
  BY Zenon
<1>2. ReadInv'
  BY <1>1 DEF ReadInv, ClosedIsIdle, UptodateIsUnpacked
<1>3. Bystander
  BY <1>1 DEF pool, Bystander
<1> QED
  BY <1>2, <1>3, StaysInPool

\* A file is opened that nobody reads yet.
LEMMA OpensInv ==
    ASSUME ReadInv, PoolInv, file = "closed", NEW kind,
           kind \in {"raw", "sw", "hw", "inline", "plain"}, Opens(kind)
    PROVE  ReadInv' /\ PoolInv'
<1>1. /\ file' = kind /\ lock' = lock /\ cached' = cached /\ uptodate' = uptodate
      /\ good' = good /\ task' = task
  BY DEF Opens, Flags
<1>2. \A r \in Reader : task[r].pc = "idle"
  BY DEF ReadInv, ClosedIsIdle
<1>3. \A r \in Reader : Holds(r, task[r], lock, file')
  BY <1>2, ZenonT(30) DEF ReadInv, Holds, Unpacking
<1>4. UptodateIsUnpacked'
  BY <1>1, ZenonT(30) DEF ReadInv, UptodateIsUnpacked
<1>5. ReadInv'
  BY <1>1, <1>2, <1>3, <1>4, ZenonT(30) DEF ReadInv, ClosedIsIdle
<1>6. Bystander
  BY <1>1 DEF Opens, pool, Bystander
<1> QED
  BY <1>5, <1>6, StaysInPool

\* Every step keeps the invariant.
LEMMA NextInv == Inv /\ [Next]_vars => Inv'
<1> SUFFICES ASSUME Inv, [Next]_vars PROVE Inv'
  OBVIOUS
<1> USE DEF Inv, MountedIsOpen
<1>1. CASE Pack
  <2>1. Running /\ UNCHANGED readvars
    BY <1>1 DEF Pack, PackNext, ThreadStep, FailStep
  <2>2. file = "closed"
    BY <2>1 DEF Running
  <2>3. UNCHANGED <<file, lock, cached, uptodate, good, task>> /\ pool' = pool
    BY <2>1 DEF readvars, pool
  <2> QED
    BY <2>2, <2>3, SameReads
<1>2. ASSUME NEW i \in Inodes, vdfs4_file_open(i) PROVE Inv'
  <2>1. PICK c \in 1..ChunksOf(content[i]) : \E kind \in aops(i, c) : Opens(kind)
    BY <1>2 DEF vdfs4_file_open
  <2>2. PICK kind \in aops(i, c) : Opens(kind)
    BY <2>1
  <2>3. kind \in {"raw", "sw", "hw"}
    BY <2>2 DEF aops, force_path
  <2>4. phase = "image" /\ phase' = "mounted"
    BY <1>2 DEF vdfs4_file_open, Forget
  <2> QED
    BY <2>2, <2>3, <2>4, OpensInv, Zenon
<1>3. ASSUME NEW i \in Inodes, file_open_init_compressed_fails(i) PROVE Inv'
  <2>1. /\ UNCHANGED <<file, lock, cached, uptodate, good, task>>
        /\ pool' = pool /\ phase' = "mounted"
    BY <1>3 DEF file_open_init_compressed_fails, Flags, Forget, pool
  <2> QED
    BY <2>1, SameReads
<1>4. ASSUME NEW i \in Inodes, open_comp_inline(i) PROVE Inv'
  <2>1. phase = "image" /\ phase' = "mounted" /\ Opens("inline")
    BY <1>4 DEF open_comp_inline, Forget
  <2> QED
    BY <2>1, OpensInv
<1>5. CASE file_open_again
  <2>1. phase = "mounted" /\ phase' = phase /\ file = "closed" /\ Opens("plain")
    BY <1>5 DEF file_open_again, packvars
  <2> QED
    BY <2>1, OpensInv
<1>6. CASE Read
  <2>1. phase = "mounted" /\ phase' = phase /\ NextReads
    BY <1>6 DEF Read, packvars
  <2> QED
    BY <2>1, NextRead, NextPool
<1>7. CASE UNCHANGED vars
  <2>1. UNCHANGED <<file, lock, cached, uptodate, good, task, phase>> /\ pool' = pool
    BY <1>7 DEF vars, readvars, packvars, pool
  <2> QED
    BY <2>1, SameReads
<1> QED
  BY <1>1, <1>2, <1>3, <1>4, <1>5, <1>6, <1>7 DEF Next

\* Whatever files mkfs.vdfs packs, however many readers fault in pages of a chunk
\* and whichever reads, mappings and decompressions fail: a page of the file that
\* is up to date holds what the chunk unpacks to.
THEOREM UptodateIsAlwaysUnpacked == Spec => []UptodateIsUnpacked
<1>1. Inv => UptodateIsUnpacked
  BY DEF Inv, ReadInv
<1> QED
  BY <1>1, InitInv, NextInv, PTL DEF Spec

\* However many readers unpack at a time and whichever of them fail: as long as no
\* mapping has failed, vdfs4_sw_decomp_vm_map finds a buffer that is free, so two
\* for each slot of sw_decomp_vm_lock are enough.
THEOREM MapAlwaysFindsBuffer == Spec => []MapFindsBuffer
<1>1. Inv => MapFindsBuffer
  BY BuffersSuffice DEF Inv
<1> QED
  BY <1>1, InitInv, NextInv, PTL DEF Spec
================================================================================
