------------------------------- MODULE TunedFile -------------------------------
(* A packed file from mkfs.vdfs to its readers: Packing makes the image, a file   *)
(* of it is opened, and ChunkRead reads one of its chunks.                       *)
EXTENDS Packing, ChunkRead

CONSTANT ForceSw         \* compressed files up to this size never use the hardware

VARIABLE compr_type      \* fbc->compr_type is known (not VDFS4_COMPR_UNDEF)

vars == <<packvars, readvars, compr_type>>

Init == PackInit /\ InitReads /\ compr_type = FALSE

(* The volume is mounted.  Of the image only the chunk that is read matters.     *)
Forget ==
    /\ phase' = "mounted" /\ linked' = FALSE
    /\ content' = <<>> /\ options' = <<>> /\ rec' = <<>>
    /\ next' = 1 /\ ret' = FALSE /\ error' = FALSE
    /\ image' = <<>> /\ free' = 0 /\ ranges' = {} /\ meta' = <<>>
    /\ ft' = <<>> /\ ct' = <<>> /\ spoilt' = {} /\ packfaults' = 0

Opens(kind) == file' = kind /\ UNCHANGED <<lock, cached, Flags, task, pool, reads>>

(* Files that fit the instance of ChunkRead: the chunk has NPages pages.         *)
WholeChunk(i, c) == ALIGN(ilen(content[i], c), BLOCK) = NPages * BLOCK

(* vdfs4_file_descriptor_verify: the last bytes of the file are a descriptor.    *)
file_descriptor_verify(i) == Len(get_file_descriptor(i)) = 1

(* vdfs4_prepare_compressed_file_inode, when the inode is read.                 *)
Tuned(i) == "COMPRESSED" \in rec[i].flags /\ file_descriptor_verify(i)
force_path(i) == IF rec[i].fork.len <= ForceSw THEN {"sw"} ELSE {"sw", "hw"}

(* vdfs4_init_file_decompression: the table is found and the aops are set, those *)
(* for the hardware if there is any.                                            *)
aops(i, c) ==
    LET e == get_file_descriptor(i)[1].ext[c]
    IN  IF e.unc THEN {"raw"}
        ELSE IF blocks_n(e) = NBlocks THEN force_path(i) ELSE {}

vdfs4_file_open(i) ==
    /\ phase = "image" /\ ~compr_type
    /\ Tuned(i)
    /\ \E c \in 1..ChunksOf(content[i]) :
          WholeChunk(i, c) /\ \E kind \in aops(i, c) : Opens(kind)
    /\ compr_type' = TRUE
    /\ Forget
    /\ UNCHANGED faults

(* The table cannot be read, three times: compr_type has been set before.        *)
file_open_init_compressed_fails(i) ==
    /\ phase = "image" /\ ~compr_type
    /\ Tuned(i)
    /\ Fault
    /\ compr_type' = TRUE
    /\ Forget
    /\ UNCHANGED <<file, lock, cached, Flags, task, pool, reads>>

(* An open after that finds compr_type known and leaves the aops as they are.    *)
file_open_again ==
    /\ phase = "mounted" /\ file = "closed"
    /\ Opens("plain")
    /\ UNCHANGED <<packvars, faults, compr_type>>

(* A file whose packed data is in its record needs no initialisation.           *)
open_comp_inline(i) ==
    /\ phase = "image"
    /\ "COMP_INLINE" \in rec[i].flags /\ rec[i].inline # <<>>
    /\ Opens("inline")
    /\ Forget
    /\ UNCHANGED <<faults, compr_type>>

Pack == PackNext /\ UNCHANGED <<readvars, compr_type>>
Read == phase = "mounted" /\ NextReads /\ UNCHANGED <<packvars, compr_type>>

Next ==
    \/ Pack
    \/ \E i \in Inodes : vdfs4_file_open(i)
    \/ \E i \in Inodes : file_open_init_compressed_fails(i)
    \/ \E i \in Inodes : open_comp_inline(i)
    \/ file_open_again
    \/ Read

(* Threads of mkfs poll for what they wait for, so one that can go on does.      *)
Fairness == FairReads /\ WF_packvars(ThreadStep)

Spec == Init /\ [][Next]_vars /\ Fairness
================================================================================
