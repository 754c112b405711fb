------------------------------- MODULE Files --------------------------------
(***************************************************************************)
(* The file layer (fs/file.c) over the path parser and the directories of  *)
(* the FAT16 driver, as the loaders use it: elf_load, and where that says  *)
(* EBADFORMAT process_load_binary.  A kernel heap of few blocks makes      *)
(* every kzalloc fail sooner or later; an object is one block.             *)
(***************************************************************************)
EXTENDS PathParser, FatDirectory

CONSTANTS MaxFd,       \* PHIX_MAX_FILE_DESCRIPTORS
          HeapBlocks,  \* blocks the heap has for files
          Entries,     \* the entries a directory may have
          MaxEntries,  \* bound: entries of the root directory
          Characters,  \* what paths are made of
          Paths,       \* the paths that programs pass to exec
          ShellPath    \* the path of the program that the kernel starts

\* The blocks that fat16_resolve takes at boot are there, and no path has the mark
\* of a deleted entry in it.
ASSUME FilesAssumption ==
  /\ MaxFd \in Nat \ {0} /\ MaxEntries \in Nat
  /\ HeapBlocks \in Nat /\ HeapBlocks >= 5
  /\ \A e \in Entries : IsEntry(e)
  /\ Paths \cup {ShellPath} \subseteq Seq(Characters) /\ "E5" \notin Characters

VARIABLES dir,    \* the root directory on the disk
          names,  \* the names that programs start
          mounted,  \* disk0.filesystem is set
          table,  \* file_descriptors[], the entry a descriptor is for
          used,   \* blocks in use
          call,   \* the load that is going on
          last    \* history: the last fopen

vars == <<dir, names, mounted, table, used, call, last>>

None == [content |-> 0]
EIO == -1
EINVAL == -2
ENOMEM == -3
Fds == 1..MaxFd

\* entry: the index in dir.  content: blocks behind the item; a file without
\* content is one whose clone found no memory.
Descriptors == [entry : 1..MaxEntries, content : 0..2]

Idle == [at |-> "idle", by |-> "elf", fd |-> 0, path |-> <<>>]
At(place) == call.at = place

TypeOK ==
  /\ table \in [Fds -> Descriptors \cup {None}]
  /\ used \in 0..HeapBlocks /\ mounted \in BOOLEAN
  /\ call.at \in {"boot", "idle", "open", "stat", "read", "wild"} /\ call.by \in {"elf", "binary"}
  /\ call.fd \in 0..MaxFd
  /\ last.result \in ENOMEM..MaxFd

Init ==
  /\ dir \in UNION {[1..n -> Entries] : n \in 0..MaxEntries}
  /\ \E p \in Paths : names = {p, ShellPath}
  /\ table = [fd \in Fds |-> None]
  /\ used = 0
  /\ mounted = FALSE
  /\ call = [Idle EXCEPT !.at = "boot"]
  /\ last = [path |-> <<>>, parts |-> <<>>, result |-> 0, free |-> 0]
-----------------------------------------------------------------------------
Free == HeapBlocks - used
Least(S) == CHOOSE x \in S : \A y \in S : x <= y

\* The blocks behind a new item, when "free" are left: the clone of an entry, or
\* a directory and its entries, which are given back when one of the two fails.
Content(e, free) == IF ~IsDirectory(e) THEN (IF free >= 1 THEN 1 ELSE 0)
                    ELSE IF free >= 2 THEN 2 ELSE 0

\* fat16_open and fat16_get_directory_entry.  "kept" are the blocks in use
\* afterwards.  A path of more parts fails whatever it leads to, because the item
\* of the first one is compared with the number of a type, and is lost.
fat16_open(parts, free) ==
  LET found == fat16_find_item_in_directory(dir, parts[1])
  IN IF free = 0 THEN [error |-> ENOMEM, kept |-> 0]
     ELSE IF found = {} \/ free = 1 THEN [error |-> EIO, kept |-> 0]
     ELSE LET i == Least(found)
              content == Content(dir[i], free - 2)
          IN IF Len(parts) > 1 THEN [error |-> EIO, kept |-> 1 + content]
             ELSE [error |-> 0, kept |-> 2 + content, entry |-> i, content |-> content]

\* mutant: the slot is not tested
descriptor_first_slot == {1}

\* file_descriptor_new: the first slot that is empty, if there is one.
file_descriptor_new ==
  {i \in Fds : table[i] = None /\ \A j \in 1..(i - 1) : table[j] # None}

\* file_descriptor_get, which refuses the last number that is handed out.
file_descriptor_get(fd) == IF fd <= 0 \/ fd >= MaxFd THEN None ELSE table[fd]

\* disk_search_and_init and fat16_resolve, with the signature in the header or
\* without.  In use are then the private data and the block for the root directory,
\* if it is a FAT16 disk, and three streams in any case.
fat16_resolve ==
  /\ At("boot")
  /\ \E signed \in BOOLEAN :
       /\ mounted' = signed
       /\ used' = used + (IF signed THEN 5 ELSE 3)
  /\ call' = Idle
  /\ UNCHANGED <<dir, names, table, last>>

\* What the caller of fopen does when it failed: elf_load frees its elf_file,
\* process_load_binary just returns.
GivesUp == IF call.by = "elf" THEN 1 ELSE 0

\* fopen fails: path and root stay allocated, and with them what open kept.
FopenFails(result, root, kept) ==
  /\ used' = used + root.cost + kept - GivesUp
  /\ last' = [path |-> call.path, parts |-> root.parts, result |-> result, free |-> Free]
  /\ call' = Idle
  /\ UNCHANGED <<dir, names, mounted, table>>

fopen ==
  /\ At("open")
  /\ LET root == pparser_parse(call.path, Free)
         open == fat16_open(root.parts, Free - root.cost)
         left == Free - root.cost - open.kept
     IN \/ ~root.ok /\ FopenFails(EINVAL, root, 0)
        \/ root.ok /\ root.parts = <<>> /\ FopenFails(EINVAL, root, 0)
        \/ root.parts # <<>> /\ ~mounted /\ FopenFails(EIO, root, 0)
        \/ root.parts # <<>> /\ mounted /\ open.error # 0 /\ FopenFails(open.error, root, open.kept)
        \/ /\ root.parts # <<>> /\ mounted /\ open.error = 0 /\ file_descriptor_new = {}
           /\ FopenFails(ENOMEM, root, open.kept)
        \/ \* without memory for it the descriptor is written to address 0, its
           \* number read back from there, and the slot stays empty
           /\ root.parts # <<>> /\ mounted /\ open.error = 0
           /\ \E fd \in file_descriptor_new :
                /\ table' = IF left = 0 THEN table
                            ELSE [table EXCEPT ![fd] = [entry |-> open.entry, content |-> open.content]]
                /\ used' = used + root.cost + open.kept + (IF left = 0 THEN 0 ELSE 1)
                /\ call' = [call EXCEPT !.at = "stat", !.fd = fd]
                /\ last' = [path |-> call.path, parts |-> root.parts, result |-> fd, free |-> Free]
           /\ UNCHANGED <<dir, names, mounted>>

\* process_load_elf: elf_load takes memory for its elf_file.
process_load_elf(path) ==
  /\ At("idle") /\ Free > 0
  /\ used' = used + 1
  /\ call' = [at |-> "open", by |-> "elf", fd |-> 0, path |-> path]
  /\ UNCHANGED <<dir, names, mounted, table, last>>

\* fclose: fat16_close and file_descriptor_free.  The item itself is not freed.
fclose(fd) ==
  LET desc == file_descriptor_get(fd)
  IN IF desc = None THEN [table |-> table, freed |-> 0]
     ELSE [table |-> [table EXCEPT ![fd] = None], freed |-> 2 + desc.content]

\* elf_load ends, without closing the file.
EndElf(kept) ==
  /\ call.by = "elf"
  /\ used' = used + kept
  /\ call' = Idle
  /\ UNCHANGED <<dir, names, mounted, table, last>>

\* process_load_binary ends, and closes the file whatever happened.
EndBinary(kept) ==
  /\ call.by = "binary"
  /\ used' = used + kept - fclose(call.fd).freed
  /\ table' = fclose(call.fd).table
  /\ call' = Idle
  /\ UNCHANGED <<dir, names, mounted, last>>

\* mutant: directories have a size
stat_of_anything ==
  /\ At("stat")
  /\ LET desc == file_descriptor_get(call.fd)
     IN \/ desc = None /\ (EndElf(-1) \/ EndBinary(0))
        \/ /\ desc # None
           /\ call' = [call EXCEPT !.at = "read"]
           /\ UNCHANGED <<dir, names, mounted, table, used, last>>

\* fstat: no such descriptor, a directory, an entry that got no memory (the size
\* is read from address 0), or the size of the file.
fstat ==
  /\ At("stat")
  /\ LET desc == file_descriptor_get(call.fd)
     IN \/ desc = None /\ (EndElf(-1) \/ EndBinary(0))
        \/ desc # None /\ IsDirectory(dir[desc.entry]) /\ EndElf(-1)
        \/ /\ desc # None /\ ~IsDirectory(dir[desc.entry])
           /\ call' = [call EXCEPT !.at = IF desc.content = 0 THEN "wild" ELSE "read"]
           /\ UNCHANGED <<dir, names, mounted, table, used, last>>

\* elf_load: memory for the file, fread, and a look at the header.  Without memory
\* it returns 0 and frees nothing.
fread_elf ==
  /\ At("read") /\ call.by = "elf"
  /\ \/ Free = 0 /\ EndElf(0)
     \/ Free > 0 /\ EndElf(1)         \* an ELF file: image and elf_file stay
     \/ Free > 0 /\ EndElf(-1)        \* EIO, or a program header it rejects
     \/ /\ Free > 0                   \* EBADFORMAT
        /\ used' = used - 1
        /\ call' = [call EXCEPT !.at = "open", !.by = "binary", !.fd = 0]
        /\ UNCHANGED <<dir, names, mounted, table, last>>

\* process_load_binary: memory, fread, and fclose whatever happened.
fread_binary ==
  /\ At("read") /\ call.by = "binary"
  /\ \/ Free > 0 /\ EndBinary(1)
     \/ EndBinary(0)

Next ==
  \/ fat16_resolve
  \/ \E p \in names : process_load_elf(p)
  \/ fopen
  \/ fstat
  \/ fread_elf
  \/ fread_binary

Spec == Init /\ [][Next]_vars
-----------------------------------------------------------------------------
(* Properties *)

Opened == last.result > 0
\* Every allocation of an fopen of one part can succeed: root, string, part,
\* descriptor, item, content, file descriptor.
Roomy == last.free >= 8

\* pparser_parse yields the segments of the path in front of the first empty one,
\* as many as found memory.
ParsesSegments ==
  last.result \notin {0, EINVAL} =>
    /\ IsPrefix(last.parts, Segments(last.path))
    /\ Roomy /\ Len(last.parts) <= 1 => last.parts = Segments(last.path)

\* What fopen opens is an entry of the directory that is not deleted and has the
\* name asked for, when no field of the names runs into the next one.
OpensWhatIsNamed ==
  Opened /\ table[last.result] # None =>
    LET e == dir[table[last.result].entry]
    IN Len(last.parts) = 1 /\ (Plain(e) => ~Deleted(e) /\ SameName(TrueName(e), last.parts[1]))

\* A plain file of the root directory that no deleted entry comes before is found
\* by its name, when there is memory.
FindsFile ==
  last.result = EIO /\ mounted /\ Roomy /\ Len(last.parts) = 1 =>
    \A i \in DOMAIN dir :
      Plain(dir[i]) /\ (\A j \in 1..i : ~Deleted(dir[j]))
        => ~SameName(TrueName(dir[i]), last.parts[1])

\* fat16_read takes the item of a descriptor for a file without asking; the callers
\* have asked fstat before, so that it is one, and it has its entry.
ReadsOnlyFiles ==
  At("read") =>
    LET desc == file_descriptor_get(call.fd)
    IN desc # None /\ desc.content = 1 /\ ~IsDirectory(dir[desc.entry])

\* All types, and no read of anything but a file.
FilesInv == TypeOK /\ ReadsOnlyFiles

\* A descriptor stands for one file until it is closed, also when an fopen or a
\* load fails half way.
Open == INSTANCE OpenFiles WITH
          Files <- Descriptors, Closed <- None, open <- table
RefinesOpenFiles == Open!Spec
=============================================================================
