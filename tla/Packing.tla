-------------------------------- MODULE Packing --------------------------------
(* mkfs.vdfs packs files.  tune_files hands every file of its list to a file     *)
(* thread; a file thread cuts the file into chunks and hands each of them to a   *)
(* chunk thread, which appends the packed chunk to one of two temporary files;   *)
(* the file thread then writes the chunks and their table at the end of the      *)
(* image.  fill_image_data copies what was not packed.  Lengths are in units,    *)
(* a cell of the image holds one unit.                                          *)
EXTENDS Integers, Sequences, FiniteSets, FiniteSetsExt

CONSTANTS N,             \* files of the list
          Threads,       \* processors: as many file threads as chunk threads
          Inputs,        \* what mkfs is given: [content, linked, options]
          BLOCK, CHUNK,  \* block_size and 1 << log_chunk_size
          ALIGNMENT,     \* compr_align of the compressor
          RECORD,        \* sizeof(struct vdfs4_comp_extent)
          MinRatio,      \* min_space_saving_ratio
          MinSize,       \* min_compressed_size
          InlineMax, CompInlineMax, CompInlineSource,  \* limits of inline data
          Fixed,         \* superblocks, debug area and translation tables, in blocks
          Subsystems,    \* metadata in the order it is placed: [tree, bitmap, blocks]
          SUPER,         \* blocks of a super page
          Preallocation, \* preallocation_len
          Limit,         \* min_volume_size, in blocks
          PackFaults     \* bound: failing reads, writes and allocations

ASSUME PackingAssumption ==
    /\ {N, Threads, BLOCK, CHUNK, ALIGNMENT, RECORD, Fixed, SUPER} \subseteq Nat \ {0}
    /\ {MinRatio, MinSize, InlineMax, CompInlineMax, CompInlineSource, Preallocation,
        Limit, PackFaults} \subseteq Nat
    /\ CHUNK % BLOCK = 0

VARIABLES phase,         \* "list", "tune", "wait", "data", "meta", "image" or "failed"
          content,       \* of an inode: [id, size, exec, tuned, comp, whole]
          linked,        \* are all names links of inode 1?
          options,       \* of the command line: [readonly, nocompress, directory]
          next,          \* the next file of the list
          ret, error,    \* ret_thread as tune_files has seen it, and as it is
          rec,           \* catalog records: flags, fork, stored inline data
          image, free, ranges,   \* the image, first_free_address, data_ranges
          meta,          \* metadata_extent, and where the tables say a subsystem is
          ft, ct,        \* what the threads do
          spoilt,        \* what a failure leaves behind: "mutex": write_file_mutex is
                         \* locked for good; "data": a part of a file behind `free'
          packfaults

packvars == <<phase, content, linked, options, next, ret, error, rec, image, free,
              ranges, meta, ft, ct, spoilt, packfaults>>
input == <<content, linked, options>>
data == <<image, free, ranges>>
disk == <<data, meta>>
failures == <<spoilt, packfaults>>

Thread == 1..Threads
Ino == 1..N
ino(n) == IF linked THEN 1 ELSE n
Inodes == {ino(n) : n \in 1..N}
ALIGN(n, a) == ((n + a - 1) \div a) * a

Zero == <<>>
Zeros(n) == [k \in 1..n |-> Zero]
Raw(d, from, n) == [k \in 1..n |-> IF from + k <= d.size THEN <<d.id, from + k>> ELSE Zero]
Packed(d, c, n) == [k \in 1..n |-> IF k <= d.comp[c] THEN <<d.id, c, k>> ELSE Zero]
Table(d, ext) == <<[size |-> d.size, ext |-> ext]>>     \* chunk table and descriptor
Part(cells, from, n) == SubSeq(cells, from + 1, from + n)
ChunksOf(d) == ALIGN(d.size, CHUNK) \div CHUNK
ilen(d, c) == IF c < ChunksOf(d) THEN CHUNK ELSE d.size - (c - 1) * CHUNK

NoFork == [begin |-> 0, len |-> 0]
FreeThread == [pc |-> "free", name |-> 0, at |-> 1, left |-> 0, err |-> FALSE,
               unc |-> <<>>, comp |-> <<>>, ext |-> <<>>, size |-> 0, block |-> 0]
FreeWorker == [pc |-> "free", parent |-> 0, chunk |-> 0, written |-> 0, err |-> FALSE]

(* init_threads and allocate_fixed_areas; the catalog has a record for each file. *)
PackInit ==
    /\ phase = "list"
    /\ \E in \in Inputs : content = in.content /\ linked = in.linked /\ options = in.options
    /\ next = 1 /\ ret = FALSE /\ error = FALSE
    /\ rec = [i \in Ino |-> [flags |-> {}, fork |-> NoFork, inline |-> <<>>]]
    /\ image = <<>> /\ free = Fixed /\ ranges = {}
    /\ meta = [first |-> 0, count |-> 0, tables |-> <<>>]
    /\ ft = [t \in Thread |-> FreeThread]
    /\ ct = [w \in Thread |-> FreeWorker]
    /\ spoilt = {} /\ packfaults = 0

PackFault == packfaults < PackFaults /\ packfaults' = packfaults + 1

--------------------------------------------------------------------------------
(* tune_files: first the files of the list that must not be packed are marked,   *)
(* alone or all those of a directory.  find_record does not follow a hard link:  *)
(* the mark is set in the record of the link, not in that of the inode.          *)

disable_file_compression(flags) == flags \cup {"NOCOMPRESS"}
disable_dir_compression == IF linked THEN {} ELSE options.nocompress

disable_compression ==
    /\ phase = "list"
    /\ phase' = "tune"
    /\ rec' = [i \in Ino |-> IF i \in disable_dir_compression
                             THEN [rec[i] EXCEPT !.flags = disable_file_compression(@)]
                             ELSE rec[i]]
    /\ UNCHANGED <<input, next, ret, error, disk, ft, ct, failures>>

(* Then every file goes to a free file thread.                                  *)
FreeOf(threads) == {t \in Thread : threads[t].pc = "free"}
get_free_file_thread(t) == t \in FreeOf(ft) /\ t = Min(FreeOf(ft))

give_file(t) ==
    /\ phase = "tune" /\ next <= N
    /\ get_free_file_thread(t)
    /\ ft' = [ft EXCEPT ![t] = [FreeThread EXCEPT !.pc = "given", !.name = next,
                                                  !.block = ft[t].block]]
    /\ next' = next + 1
    /\ UNCHANGED <<phase, input, ret, error, rec, disk, ct, failures>>

tune_files(t) == ~options.directory /\ give_file(t)
compress_dir(t) == options.directory /\ give_file(t)

(* The result is read before the threads are waited for.                        *)
tune_files_end ==
    /\ phase = "tune" /\ next > N
    /\ phase' = "wait" /\ ret' = error
    /\ UNCHANGED <<input, next, error, rec, disk, ft, ct, failures>>

wait_finish ==
    /\ phase = "wait"
    /\ \A t \in Thread : ft[t].pc = "free"
    /\ phase' = IF ret THEN "failed" ELSE "data"
    /\ next' = 1
    /\ UNCHANGED <<input, ret, error, rec, disk, ft, ct, failures>>

--------------------------------------------------------------------------------
(* compress_file_thread.                                                        *)

clear_tuned_flags(flags) == flags \ {"COMPRESSED", "NOCOMPRESS"}

(* The end of a file: --*count, *error and is_free; block keeps its value.       *)
file_end(t, err) ==
    /\ ft' = [ft EXCEPT ![t] = [FreeThread EXCEPT !.block = ft[t].block]]
    /\ error' = (error \/ err)

(* A file that ends with a descriptor is not accepted.                          *)
analyse_existing_file(d) == d.tuned

(* compress_file starts with empty temporary files.                             *)
encode_file(t) ==
    LET d == content[ino(ft[t].name)]
    IN  IF analyse_existing_file(d) THEN file_end(t, TRUE)
        ELSE /\ ft' = [ft EXCEPT ![t].pc = "pack", ![t].left = ChunksOf(d),
                                 ![t].ext = [c \in 1..ChunksOf(d) |->
                                     [unc |-> FALSE, len |-> 0, start |-> 0]]]
             /\ error' = error

check_file_before_compress(d) == d.size >= MinSize \/ d.exec

compress_file_thread(t) ==
    LET i == ino(ft[t].name)
        d == content[i]
        flags == rec[i].flags
        done == IF linked THEN "HLINK_TUNE_TRIED" \in flags ELSE "COMPRESSED" \in flags
        tried == IF linked THEN flags \cup {"HLINK_TUNE_TRIED"} ELSE flags
        flagged(F) == rec' = [rec EXCEPT ![i].flags = F]
    IN  /\ ft[t].pc = "given"
        /\ IF error \/ done THEN file_end(t, error) /\ UNCHANGED rec
           ELSE IF ("NOCOMPRESS" \in flags /\ ~d.exec) \/ ~check_file_before_compress(d)
           THEN file_end(t, FALSE) /\ flagged(clear_tuned_flags(tried))
           ELSE encode_file(t) /\ flagged(tried \ {"NOCOMPRESS"})
        /\ UNCHANGED <<phase, input, next, ret, disk, ct, failures>>

(* compress_file: every chunk to a free chunk thread.                           *)
get_free_thread(w) == w \in FreeOf(ct) /\ w = Min(FreeOf(ct))

give_chunk(t, w) ==
    /\ ft[t].pc = "pack" /\ ft[t].at <= Len(ft[t].ext)
    /\ get_free_thread(w)
    /\ ct' = [ct EXCEPT ![w] = [FreeWorker EXCEPT !.pc = "given", !.parent = t,
                                                  !.chunk = ft[t].at]]
    /\ ft' = [ft EXCEPT ![t].at = @ + 1]
    /\ UNCHANGED <<phase, input, next, ret, error, rec, disk, failures>>

(* The file cannot be read: the chunk threads that have got one of its chunks     *)
(* already go on, with what is left of the call.                                *)
read_chunk_fails(t) ==
    /\ ft[t].pc = "pack" /\ ft[t].at <= Len(ft[t].ext)
    /\ PackFault
    /\ file_end(t, TRUE)
    /\ UNCHANGED <<phase, input, next, ret, rec, disk, ct, spoilt>>

(* Does the file thread still work on the file of the chunk?  If not, it has set  *)
(* the error, and packs no other one.                                           *)
InCall(w) == ft[ct[w].parent].pc = "pack"

--------------------------------------------------------------------------------
(* compress_chunk_thread.                                                       *)

(* compress_chunk: the saving decides, then the aligned length.                 *)
compress_chunk(d, c) ==
    LET saving == 100 - (d.comp[c] * 100) \div ilen(d, c)
        len == ALIGN(d.comp[c], ALIGNMENT)
    IN  IF saving <= MinRatio \/ len > CHUNK
        THEN [unc |-> TRUE, len |-> ilen(d, c)]
        ELSE [unc |-> FALSE, len |-> len]

(* The chunk is appended to the temporary file of its kind, which only one       *)
(* thread may write at a time.                                                  *)
append_chunk(t, c, new, cells) ==
    LET f == ft[t]
        at == Len(IF new.unc THEN f.unc ELSE f.comp)
    IN  ft' = [ft EXCEPT ![t].ext[c] = [unc |-> new.unc, len |-> new.len, start |-> at],
                         ![t].unc = IF new.unc THEN @ \o cells ELSE @,
                         ![t].comp = IF new.unc THEN @ ELSE @ \o cells]

compress_chunk_thread(w) ==
    LET t == ct[w].parent
        c == ct[w].chunk
        d == content[ino(ft[t].name)]
        new == compress_chunk(d, c)
        cells == IF new.unc THEN Raw(d, (c - 1) * CHUNK, ALIGN(ilen(d, c), ALIGNMENT))
                 ELSE Packed(d, c, new.len)
    IN  /\ ct[w].pc = "given"
        /\ IF ~InCall(w) \/ ft[t].err
           THEN ct' = [ct EXCEPT ![w].pc = "end", ![w].err = TRUE] /\ UNCHANGED ft
           ELSE /\ append_chunk(t, c, new, cells)
                /\ ct' = [ct EXCEPT ![w].pc = "end", ![w].written = Len(cells)]
        /\ UNCHANGED <<phase, input, next, ret, error, rec, disk, failures>>

(* write() fails: the file is not packed.                                       *)
write_chunk_fails(w) ==
    /\ ct[w].pc = "given" /\ InCall(w) /\ ~ft[ct[w].parent].err
    /\ PackFault
    /\ ct' = [ct EXCEPT ![w].pc = "end", ![w].err = TRUE]
    /\ UNCHANGED <<phase, input, next, ret, error, rec, disk, ft, spoilt>>

(* err_exit, under write_mutex; then is_free.                                   *)
(* Mutant of chunk_end: a failed chunk is not counted off. *)
chunk_end_uncounted(w) ==
    LET t == ct[w].parent
    IN  /\ ct[w].pc = "end"
        /\ ft' = IF ~InCall(w) THEN ft
                 ELSE [ft EXCEPT ![t].err = @ \/ ct[w].err, ![t].size = @ + ct[w].written,
                                 ![t].left = IF ct[w].err THEN @ ELSE @ - 1]
        /\ ct' = [ct EXCEPT ![w] = FreeWorker]
        /\ UNCHANGED <<phase, input, next, ret, error, rec, disk, failures>>

chunk_end(w) ==
    LET t == ct[w].parent
    IN  /\ ct[w].pc = "end"
        /\ ft' = IF ~InCall(w) THEN ft
                 ELSE [ft EXCEPT ![t].err = @ \/ ct[w].err, ![t].size = @ + ct[w].written,
                                 ![t].left = @ - 1]
        /\ ct' = [ct EXCEPT ![w] = FreeWorker]
        /\ UNCHANGED <<phase, input, next, ret, error, rec, disk, failures>>

--------------------------------------------------------------------------------
(* compress_file, once all chunks are done: the chunks that stay as they are     *)
(* come first, in their order; then the packed ones, in the order of their        *)
(* temporary file, none of them over more blocks than a chunk has.               *)

write_uncompressed(f, acc, c) ==
    LET e == acc.ext[c]
        cells == Part(f.unc, e.start, ALIGN(e.len, ALIGNMENT))
    IN  IF ~e.unc THEN acc
        ELSE [acc EXCEPT !.cells = @ \o cells, !.ext[c].start = Len(acc.cells)]

get_comp_extent_starting_at(ext, pos) ==
    CHOOSE c \in DOMAIN ext : ~ext[c].unc /\ ext[c].start = pos

align_chunk(len, off) ==
    LET over == len + (off % BLOCK) - CHUNK
    IN  IF over > 0 THEN BLOCK - over ELSE 0

(* Mutant of write_compressed: the table says where the padding begins. *)
write_compressed_early(f, acc) ==
    LET c == get_comp_extent_starting_at(f.ext, acc.pos)
        len == f.ext[c].len
        pad == align_chunk(len, Len(acc.cells))
    IN  [acc EXCEPT !.cells = @ \o Zeros(pad) \o Part(f.comp, acc.pos, len),
                    !.ext[c].start = Len(acc.cells),
                    !.pos = @ + len, !.size = @ + pad]

write_compressed(f, acc) ==
    LET c == get_comp_extent_starting_at(f.ext, acc.pos)
        len == f.ext[c].len
        pad == align_chunk(len, Len(acc.cells))
    IN  [acc EXCEPT !.cells = @ \o Zeros(pad) \o Part(f.comp, acc.pos, len),
                    !.ext[c].start = Len(acc.cells) + pad,
                    !.pos = @ + len, !.size = @ + pad]

PackedFile(d, f) ==
    LET n == Len(f.ext)
        start == [cells |-> <<>>, ext |-> f.ext, pos |-> 0, size |-> f.size]
        raw[c \in 0..n] == IF c = 0 THEN start ELSE write_uncompressed(f, raw[c - 1], c)
        all[c \in 0..n] == IF c = 0 THEN raw[n]
                           ELSE IF f.ext[c].unc THEN all[c - 1]
                           ELSE write_compressed(f, all[c - 1])
        end == all[n]
        rest == ALIGN(end.size, RECORD) - end.size
    IN  [cells |-> end.cells, unpacked |-> Len(raw[n].cells),
         table |-> Zeros(rest) \o <<Table(d, end.ext)>>, size |-> end.size + rest + 1]

(* Cells written over the image, or behind its end.                             *)
Put(at, cells) ==
    Part(image \o Zeros(at), 0, at) \o cells
        \o SubSeq(image, at + Len(cells) + 1, Len(image))

get_metadata_size == free * BLOCK

find_data_duplicate(cells, len) ==
    {r \in ranges : r.len = len /\ Part(image, r.start, len) = cells}

add_data_range(start, len) ==
    IF options.readonly THEN ranges \cup {[start |-> start, len |-> len]} ELSE ranges

(* get_free_space: the blocks at the end of what is used.                       *)
blocks(len) == ALIGN(len, BLOCK) \div BLOCK
allocate_space(len) == free + blocks(len) <= Limit

fork_init(begin, len) == [begin |-> begin, len |-> len]

is_all_chunks_uncompressed(ext) == \A c \in DOMAIN ext : ext[c].unc

wait_file_finish(f) == f.pc = "pack" /\ f.at > Len(f.ext) /\ f.left = 0

(* A chunk could not be written, which ends the program when there is no space   *)
(* left; or the file is not worth packing: its record gets the block of the file *)
(* this thread has packed before.                                               *)
compress_file_not(t) ==
    LET f == ft[t]
        i == ino(f.name)
    IN  /\ wait_file_finish(f)
        /\ f.err \/ (is_all_chunks_uncompressed(f.ext) /\ ~content[i].exec)
        /\ file_end(t, f.err)
        /\ phase' \in IF f.err THEN {phase, "failed"} ELSE {phase}
        /\ rec' = IF f.err THEN rec
                  ELSE [rec EXCEPT ![i].fork = fork_init(f.block, content[i].size)]
        /\ UNCHANGED <<input, next, ret, disk, ct, failures>>

(* Under write_file_mutex.  The table goes to the end of the image, which is the  *)
(* end of the chunks unless a file that failed has left more.                   *)
write_file_mutex(t) ==
    LET f == ft[t]
    IN  /\ wait_file_finish(f)
        /\ ~f.err /\ (content[ino(f.name)].exec \/ ~is_all_chunks_uncompressed(f.ext))

(* ENOSPC ends the program.                                                     *)
compress_file(t) ==
    LET i == ino(ft[t].name)
        file == PackedFile(content[i], ft[t])
        dst == get_metadata_size
        written == Put(dst, file.cells) \o file.table
        same == IF options.readonly
                THEN find_data_duplicate(Part(written, dst, file.size), file.size) ELSE {}
        begin == IF same = {} THEN free
                 ELSE blocks((CHOOSE r \in same : TRUE).start)
    IN  /\ write_file_mutex(t) /\ "mutex" \notin spoilt
        /\ IF same = {} /\ ~allocate_space(file.size)
           THEN phase' = "failed" /\ UNCHANGED <<rec, data, ft, error>>
           ELSE /\ IF same # {}
                   THEN image' = Part(image \o Zeros(dst), 0, dst) /\ UNCHANGED <<free, ranges>>
                   ELSE /\ image' = written
                        /\ free' = free + blocks(file.size)
                        /\ ranges' = add_data_range(dst, file.size)
                /\ rec' = [rec EXCEPT ![i].flags = @ \cup {"COMPRESSED"},
                                      ![i].fork = fork_init(begin, file.size)]
                /\ ft' = [ft EXCEPT ![t] = [FreeThread EXCEPT !.block = begin]]
                /\ UNCHANGED <<phase, error>>
        /\ UNCHANGED <<input, next, ret, meta, ct, failures>>

(* A chunk or the table cannot be written: what was written stays in the image.  *)
write_file_fails(t) ==
    LET file == PackedFile(content[ino(ft[t].name)], ft[t])
    IN  /\ write_file_mutex(t) /\ "mutex" \notin spoilt
        /\ PackFault
        /\ file_end(t, TRUE)
        /\ phase' \in {phase, "failed"}
        /\ image' = Put(get_metadata_size, file.cells)
        /\ spoilt' = spoilt \cup {"data"}
        /\ UNCHANGED <<input, next, ret, rec, free, ranges, meta, ct>>

(* No memory for the copy of the table, after the chunks that stay as they are:  *)
(* the call ends with write_file_mutex locked.                                  *)
copy_table_fails(t) ==
    LET file == PackedFile(content[ino(ft[t].name)], ft[t])
    IN  /\ write_file_mutex(t) /\ "mutex" \notin spoilt
        /\ PackFault
        /\ file_end(t, TRUE)
        /\ image' = Put(get_metadata_size, Part(file.cells, 0, file.unpacked))
        /\ spoilt' = spoilt \cup {"mutex"}
        /\ UNCHANGED <<phase, input, next, ret, rec, free, ranges, meta, ct>>

--------------------------------------------------------------------------------
(* fill_image_data: insert_data for the files, insert_hlinks_data for inodes     *)
(* with several names.                                                          *)

is_possible_inline_data(d) == options.readonly /\ d.size <= InlineMax

(* __compress_zlib_gzip_chunk says 0 when the output fills the buffer.           *)
compress_data(d) == IF d.whole >= CompInlineSource THEN 0 ELSE d.whole

try_compressed_inline_data(d) ==
    options.readonly /\ d.size <= CompInlineSource /\ compress_data(d) <= CompInlineMax

copy_file_to_image(i, flags) ==
    LET d == content[i]
    IN  IF ~allocate_space(d.size) THEN phase' = "failed" /\ UNCHANGED <<rec, data>>
        ELSE /\ image' = Put(get_metadata_size, Raw(d, 0, d.size))
             /\ free' = free + blocks(d.size)
             /\ ranges' = add_data_range(get_metadata_size, d.size)
             /\ rec' = [rec EXCEPT ![i].fork = fork_init(free, d.size), ![i].flags = flags]
             /\ phase' = phase

find_file_duplicate(i) ==
    IF options.readonly THEN find_data_duplicate(Raw(content[i], 0, content[i].size),
                                                 content[i].size)
    ELSE {}

copy_data(i, flags) ==
    LET same == find_file_duplicate(i)
    IN  IF same = {} THEN copy_file_to_image(i, flags)
        ELSE /\ rec' = [rec EXCEPT ![i].fork =
                  fork_init(blocks((CHOOSE r \in same : TRUE).start), content[i].size),
                              ![i].flags = flags]
             /\ UNCHANGED <<phase, data>>

(* Inline data takes the place of the extents of the fork.                      *)
StoreInline(i, cells, flag) ==
    /\ rec' = [rec EXCEPT ![i].inline = cells, ![i].flags = @ \cup {flag},
                          ![i].fork = NoFork]
    /\ UNCHANGED <<phase, data>>

copy_file_to_inline(i) == StoreInline(i, Raw(content[i], 0, content[i].size), "INLINE")

insert_data(i) ==
    LET d == content[i]
    IN  IF "COMPRESSED" \in rec[i].flags THEN UNCHANGED <<phase, rec, data>>
        ELSE IF is_possible_inline_data(d) THEN copy_file_to_inline(i)
        ELSE IF try_compressed_inline_data(d)
        THEN StoreInline(i, Packed(d, 1, compress_data(d)), "COMP_INLINE")
        ELSE copy_data(i, rec[i].flags)

insert_hlinks_data(i) ==
    LET flags == rec[i].flags \ {"HLINK_TUNE_TRIED"}
    IN  IF "COMPRESSED" \in flags
        THEN rec' = [rec EXCEPT ![i].flags = flags] /\ UNCHANGED <<phase, data>>
        ELSE copy_data(i, flags)

fill_image_data ==
    /\ phase = "data" /\ next <= Cardinality(Inodes)
    /\ IF linked THEN insert_hlinks_data(next) ELSE insert_data(next)
    /\ next' = next + 1
    /\ UNCHANGED <<input, ret, error, meta, ft, ct, failures>>

fill_image_end ==
    /\ phase = "data" /\ next > Cardinality(Inodes)
    /\ phase' = "meta" /\ next' = 1
    /\ UNCHANGED <<input, ret, error, rec, disk, ft, ct, failures>>

--------------------------------------------------------------------------------
(* The metadata: an image that cannot be written has no bitmaps.                *)

Placed == SelectSeq(Subsystems, LAMBDA s : ~(options.readonly /\ s.bitmap))

(* Blocks are added to metadata_extent; a tree begins at a super page of it.     *)
extend_metadata(n, tables) ==
    IF free + n > Limit \/ (meta.first # 0 /\ meta.first + meta.count # free)
    THEN phase' = "failed" /\ UNCHANGED <<meta, free>>
    ELSE /\ meta' = [first |-> IF meta.first = 0 THEN free ELSE meta.first,
                     count |-> meta.count + n, tables |-> tables]
         /\ free' = free + n
         /\ phase' = phase

place_on_volume_subsystem ==
    LET s == Placed[next]
        offset == IF s.tree THEN ALIGN(meta.count, SUPER) - meta.count ELSE 0
    IN  /\ phase = "meta" /\ next <= Len(Placed)
        /\ extend_metadata(s.blocks + offset, Append(meta.tables, meta.count + offset))
        /\ next' = next + 1
        /\ UNCHANGED <<input, ret, error, rec, image, ranges, ft, ct, failures>>

place_on_volume_preallocation ==
    /\ phase = "meta" /\ next = Len(Placed) + 1
    /\ extend_metadata(Preallocation, meta.tables)
    /\ next' = next + 1
    /\ UNCHANGED <<input, ret, error, rec, image, ranges, ft, ct, failures>>

(* One more block for the checksum of the image, which is cut behind it.         *)
handle_used_space ==
    /\ phase = "meta" /\ next = Len(Placed) + 2
    /\ phase' = IF meta.first + meta.count + 1 > Limit THEN "failed" ELSE "image"
    /\ UNCHANGED <<input, next, ret, error, rec, disk, ft, ct, failures>>

--------------------------------------------------------------------------------
(* Threads run until the program ends.                                          *)
Running == phase \in {"list", "tune", "wait", "data", "meta"}

ThreadStep ==
    /\ Running
    /\ \/ disable_compression
       \/ \E t \in Thread : tune_files(t)
       \/ \E t \in Thread : compress_dir(t)
       \/ tune_files_end
       \/ wait_finish
       \/ \E t \in Thread : compress_file_thread(t)
       \/ \E t, w \in Thread : give_chunk(t, w)
       \/ \E w \in Thread : compress_chunk_thread(w)
       \/ \E w \in Thread : chunk_end(w)
       \/ \E t \in Thread : compress_file_not(t)
       \/ \E t \in Thread : compress_file(t)
       \/ fill_image_data
       \/ fill_image_end
       \/ place_on_volume_subsystem
       \/ place_on_volume_preallocation
       \/ handle_used_space

FailStep ==
    /\ Running
    /\ \/ \E t \in Thread : read_chunk_fails(t)
       \/ \E w \in Thread : write_chunk_fails(w)
       \/ \E t \in Thread : write_file_fails(t)
       \/ \E t \in Thread : copy_table_fails(t)

PackNext == ThreadStep \/ FailStep

--------------------------------------------------------------------------------
(* Readers of an image.                                                         *)

(* get_file_descriptor: the last units of the file.                             *)
get_file_descriptor(i) ==
    image[rec[i].fork.begin * BLOCK + rec[i].fork.len]

(* __get_chunk_extent: where the kernel reads chunk c, and how many blocks.      *)
chunk_cells(i, e) == Part(image, rec[i].fork.begin * BLOCK + e.start, e.len)
blocks_n(e) == blocks(e.start + e.len) - e.start \div BLOCK

(* decode_file, decompress_file: the tools go through the table as well.         *)
decompress_file(i) ==
    LET d == content[i]
        ext == get_file_descriptor(i)[1].ext
    IN  \A c \in 1..ChunksOf(d) :
            chunk_cells(i, ext[c]) = IF ext[c].unc THEN Raw(d, (c - 1) * CHUNK, ilen(d, c))
                                     ELSE Packed(d, c, ext[c].len)

(* copy_file_from_image, copy_file_from_inline.                                 *)
copy_file_from_image(i) ==
    LET d == content[i]
    IN  CASE "INLINE" \in rec[i].flags -> rec[i].inline = Raw(d, 0, d.size)
          [] "COMP_INLINE" \in rec[i].flags -> Len(rec[i].inline) = d.whole
          [] OTHER -> Part(image, rec[i].fork.begin * BLOCK, rec[i].fork.len)
                          = Raw(d, 0, d.size)

--------------------------------------------------------------------------------
(* When mkfs is done every file is found in the image, whichever threads packed  *)
(* its chunks in whichever order: a packed file ends with its descriptor, each   *)
(* extent of its table holds that chunk, aligned for the page cache when it is   *)
(* not packed and within the blocks of a chunk when it is; the others are there  *)
(* as they are, although their record may have got the block of another file     *)
(* meanwhile and an error of the last files is not seen.  No file reaches into   *)
(* the metadata, whose trees begin at super pages.  Left out: a file that the     *)
(* compressor cannot fit into its buffer, which it stores as an empty one; and a  *)
(* file packed after the writing of another one has failed, unseen by tune_files: *)
(* its table goes behind what that one left.                                    *)
FilesAreFound ==
    phase = "image" =>
        /\ \A k \in DOMAIN meta.tables : Placed[k].tree => meta.tables[k] % SUPER = 0
        /\ \A i \in Inodes : rec[i].fork.begin + blocks(rec[i].fork.len) <= meta.first
        /\ \A i \in Inodes :
             IF "COMPRESSED" \in rec[i].flags
             THEN \/ "data" \in spoilt
                  \/ LET last == get_file_descriptor(i)
                     IN  /\ Len(last) = 1 /\ last[1].size = content[i].size
                         /\ decompress_file(i)
                         /\ \A c \in 1..ChunksOf(content[i]) :
                                LET e == last[1].ext[c]
                                IN  IF e.unc THEN e.start % BLOCK = 0
                                    ELSE blocks_n(e) <= CHUNK \div BLOCK
             ELSE \/ copy_file_from_image(i)
                  \/ "COMP_INLINE" \in rec[i].flags /\ compress_data(content[i]) = 0

(* mkfs comes to an image or gives up: whatever fails, no thread waits for        *)
(* another for good, with one exception.  When compress_file finds no memory for   *)
(* the copy of its table it ends with write_file_mutex locked, and another file    *)
(* thread that wants to write its file then waits for the mutex for ever.         *)
PackingEnds ==
    <>~Running \/ <>[]("mutex" \in spoilt /\ \E t \in Thread : write_file_mutex(t))
================================================================================
