--------------------------------- MODULE Fs ---------------------------------
(***************************************************************************)
(* The FAT16 volume of kernel/fs.c behind kernel/vfs.c.                    *)
(*                                                                         *)
(* The FAT and the root directory live in memory (fat_buf, root_buf) and   *)
(* are written back by flush_fat and flush_root; a subdirectory is one     *)
(* cluster, read into dir_buf and written back by every operation.  Each   *)
(* action is a whole command: the kernel runs one at a time.  What can end *)
(* it early is a full disk, an error of the disk driver, or a power cut,   *)
(* at any of the writes it makes; an outcome records the disk and the      *)
(* buffers at that point.                                                  *)
(*                                                                         *)
(* A cluster that holds text and is read as a directory, or the converse,  *)
(* is not followed any further: the commands below are not enabled there.  *)
(* Names are the ones normalize and the 8.3 conversion accept; every other *)
(* one is a command that is rejected.                                      *)
(***************************************************************************)
EXTENDS Integers, Sequences, FiniteSets

CONSTANTS NClus,             \* FAT_CLUSTER_COUNT
          FS_MAX_FILES,      \* entries of the root directory
          DirSlots,          \* entries of a subdirectory, "." and ".." included
          SectorBytes,       \* 512 in the code
          FS_MAX_FILE_SIZE,
          FS_MAX_PATH,       \* bytes of current_path
          Names,             \* valid 8.3 names
          NameLen,           \* how long each of them is
          Behind,            \* what may stand behind the zero of current_path
          Texts,             \* what the user writes
          Scope              \* what the environment does, see below

\* The parts of the environment a run may switch on: directories; rm and write
\* on a directory; a write with no room for it; restarts; power cuts; and disk
\* errors on the boot sector, on another read, and on a write of file data, of
\* the FAT and of a directory.
ASSUME FsAssumption ==
  /\ NClus \in Nat \ {0} /\ FS_MAX_FILES \in Nat \ {0}
  /\ DirSlots \in Nat \ {0, 1} /\ SectorBytes \in Nat \ {0}
  /\ FS_MAX_FILE_SIZE \in Nat
  /\ Scope \subseteq {"dirs", "ondirs", "full", "reboot", "crash",
                      "bootread", "read", "data", "fat", "dir"}

VARIABLES disk,        \* [boot, fat, root, data]: what is on the disk
          fat, root,   \* fat_buf and root_buf
          cwd,         \* current_dir_cluster, 0 for the root
          current_path,
          fs_ready,    \* FALSE also while the machine is off
          ret,         \* what the last command returned: 0, or -1 for any
                       \* of its error codes
          path,        \* history: the names from the root to cwd,
          cut,         \* whether current_path had no room for one of them since
                       \* it was last set to the root,
          cmd          \* and the last command

shown == <<current_path, cut>>
vars == <<disk, fat, root, cwd, path, shown, fs_ready, ret, cmd>>

Clusters == 2 .. NClus + 1
FREE == 0
EOC == NClus + 2
END == "END"           \* first byte 0x00: no entry here or after
DEL == "DEL"           \* first byte 0xE5: a deleted entry
NUL == "NUL"           \* the byte 0
STALE == "STALE"       \* a component an earlier path left in current_path

Entry(n, d, c, s) == [name |-> n, dir |-> d, fst |-> c, size |-> s]
Empty == Entry(END, FALSE, 0, 0)
Deleted == Entry(DEL, FALSE, 0, 0)
Entries == [name : Names \cup {END, DEL, ".", ".."}, dir : BOOLEAN,
            fst : {0} \cup Clusters, size : 0 .. FS_MAX_FILE_SIZE]
Blank(k) == [i \in 1 .. k |-> Empty]
FileSector(b) == [bytes |-> b, ents |-> <<>>]
DirSector(e) == [bytes |-> <<>>, ents |-> e]
Zeroes == FileSector([i \in 1 .. SectorBytes |-> NUL])

\* A name in use is none of the marks; a text is a sequence.
ASSUME NamesAssumption ==
  /\ Names \cap {END, DEL, STALE, ".", "..", ""} = {}
  /\ FS_MAX_PATH \in Nat /\ NameLen \in [Names \cup {STALE} -> Nat]
  /\ Behind \subseteq Seq({STALE})
  /\ \A t \in Texts : t \in Seq({t[i] : i \in 1 .. Len(t)})

-----------------------------------------------------------------------------
(* Clusters *)

\* The k-th cluster after c in the chain of FAT f, 0 when the chain has ended.
Link(f) == [x \in {0} \cup Clusters |->
              IF x \in Clusters /\ f[x] \in Clusters THEN f[x] ELSE 0]
Follow(f, c, k) ==
  LET w[i \in 0 .. k] == IF i = 0 THEN c ELSE Link(f)[w[i - 1]] IN w[k]
Chain(f, c) == IF c = 0 THEN {} ELSE {Follow(f, c, k) : k \in 0 .. NClus} \ {0}

free_chain(f, c) == [x \in Clusters |-> IF x \in Chain(f, c) THEN FREE ELSE f[x]]

FreeIn(f) == {c \in Clusters : f[c] = FREE}
\* alloc_cluster takes the lowest free cluster, so the i-th one a command
\* allocates is the one with i - 1 free clusters below it.
Rank(f, c) == 1 + Cardinality({x \in FreeIn(f) : x < c})
NthFree(f, i) == CHOOSE c \in FreeIn(f) : Rank(f, c) = i

Need(t) == (Len(t) + SectorBytes - 1) \div SectorBytes
\* The i-th sector of t, the last one padded with zeroes.
Piece(t, i) ==
  FileSector([j \in 1 .. SectorBytes |->
    IF (i - 1) * SectorBytes + j <= Len(t) THEN t[(i - 1) * SectorBytes + j] ELSE NUL])

\* Mutant: cluster_lba is one sector off, so a sector lands in the cluster before.
Written_OffByOne(f, d, t, k) ==
  [c \in Clusters |-> IF c + 1 \in FreeIn(f) /\ Rank(f, c + 1) <= k
                      THEN Piece(t, Rank(f, c + 1)) ELSE d[c]]

\* write_cluster_chain: the data area once its first k sectors are written,
\* and the FAT once all of them are.
Written(f, d, t, k) ==
  [c \in Clusters |-> IF c \in FreeIn(f) /\ Rank(f, c) <= k
                      THEN Piece(t, Rank(f, c)) ELSE d[c]]

Linked(f, k) ==
  [c \in Clusters |->
    IF c \notin FreeIn(f) \/ Rank(f, c) > k THEN f[c]
    ELSE IF Rank(f, c) = k THEN EOC ELSE NthFree(f, Rank(f, c) + 1)]

\* load_cluster_chain: the bytes a chain yields, up to size of them.
Load(f, d, c, size) ==
  LET want == IF size > FS_MAX_FILE_SIZE THEN FS_MAX_FILE_SIZE ELSE size
      have == Cardinality(Chain(f, c)) * SectorBytes
  IN [i \in 1 .. (IF want < have THEN want ELSE have) |->
        d[Follow(f, c, (i - 1) \div SectorBytes)].bytes[((i - 1) % SectorBytes) + 1]]

-----------------------------------------------------------------------------
(* Directories *)

\* The entries of directory d (a cluster, or 0) of a volume.
EntriesOf(r, data, d) == IF d = 0 THEN r ELSE data[d].ents
current_dir_entries == EntriesOf(root, disk.data, cwd)
Followed == current_dir_entries # <<>>

\* Mutant: the search stops at a deleted entry as it does at the end.
find_entry_StopsAtDeleted(e, n) ==
  {i \in DOMAIN e : /\ e[i].name = n
                    /\ \A j \in 1 .. i - 1 : e[j].name \notin {END, DEL, n}}

\* find_entry_in_current: the index of name n (at most one, none if absent),
\* and the first slot free for a new entry.
find_entry(e, n) ==
  {i \in DOMAIN e : /\ e[i].name = n
                    /\ \A j \in 1 .. i - 1 : e[j].name \notin {END, n}}
free_idx(e) ==
  {i \in DOMAIN e : /\ e[i].name \in {END, DEL}
                    /\ \A j \in 1 .. i - 1 : e[j].name \notin {END, DEL}}

-----------------------------------------------------------------------------
(* Ends of a command *)

\* An outcome: the disk error it is due to ("" if none), the value returned,
\* the FAT and the entries in the buffers, and the disk.
Outcome(why, rc, f, e, d) ==
  [why |-> why, rc |-> rc, fat |-> f, ents |-> e, disk |-> d]

Cut(old, new, k) == [x \in DOMAIN old |-> IF x < k THEN new[x] ELSE old[x]]

\* flush_fat: all of the FAT is written, or an error or a power cut leaves a
\* prefix of it new and the rest old.
FatFlushes(f, e, d) ==
  {Outcome("", 0, f, e, [d EXCEPT !.fat = f])} \cup
  {Outcome("fat", -1, f, e, [d EXCEPT !.fat = Cut(d.fat, f, k)]) : k \in Clusters}

\* flush_current_dir: the root is flushed like the FAT, a subdirectory is one
\* sector.
DirFlushes(f, e, d) ==
  IF cwd = 0
  THEN {Outcome("", 0, f, e, [d EXCEPT !.root = e])} \cup
       {Outcome("dir", -1, f, e, [d EXCEPT !.root = Cut(d.root, e, k)]) :
          k \in DOMAIN e}
  ELSE {Outcome("", 0, f, e, [d EXCEPT !.data[cwd] = DirSector(e)]),
        Outcome("dir", -1, f, e, d)}

\* Mutant: the FAT is not flushed.
Commit_NoFat(f, e, d) == DirFlushes(f, e, d)

\* flush_fat and, if it succeeded, flush_current_dir.
Commit(f, e, d) ==
  UNION {IF o.rc # 0 THEN {o} ELSE DirFlushes(f, e, o.disk) :
           o \in FatFlushes(f, e, d)}

\* The command returns, or the power is cut where the outcome left the disk.
Return(o) ==
  /\ o.why \in Scope \cup {""}
  /\ disk' = o.disk /\ fat' = o.fat /\ ret' = o.rc
  /\ root' = IF cwd = 0 THEN o.ents ELSE root
  /\ UNCHANGED <<cwd, path, shown, fs_ready>>
PowerOff(d) ==
  /\ disk' = d /\ fs_ready' = FALSE
  /\ fat' = [c \in Clusters |-> FREE] /\ root' = Blank(FS_MAX_FILES)
  /\ cwd' = 0 /\ path' = <<>> /\ current_path' = <<>> /\ cut' = FALSE /\ ret' = 0
Finish(outcomes) ==
  \E o \in outcomes : Return(o) \/ ("crash" \in Scope /\ PowerOff(o.disk))
Refuse(rc) == ret' = rc /\ UNCHANGED <<disk, fat, root, cwd, path, shown, fs_ready>>

\* Whether the environment gives command "rm", "write" or "append" the name n.
Applicable(n) ==
  \/ "ondirs" \in Scope
  \/ \A i \in find_entry(current_dir_entries, n) : ~current_dir_entries[i].dir

-----------------------------------------------------------------------------
(* Commands *)

Format == [boot |-> TRUE, fat |-> [c \in Clusters |-> FREE],
           root |-> Blank(FS_MAX_FILES), data |-> disk.data]

valid_boot(d) == d.boot

\* fs_init: with no valid boot sector, or none that could be read, the volume
\* is formatted; then the FAT and the root directory are read.  A disk error
\* after the boot sector leaves fs_ready 0, which is where it started, and
\* whatever part of the format of a blank image is written is what was there.
fs_init ==
  /\ ~fs_ready
  /\ \E d \in (IF valid_boot(disk) THEN {disk} ELSE {Format})
             \cup (IF "bootread" \in Scope THEN {Format} ELSE {}) :
       disk' = d /\ fat' = d.fat /\ root' = d.root
  /\ fs_ready' = TRUE
  /\ UNCHANGED <<cwd, path, shown, ret, cmd>>

\* Any command on a name that normalize or fat_name_from_input rejects.
Rejected == fs_ready /\ Refuse(-1)

\* The reboot command.
reboot == fs_ready /\ "reboot" \in Scope /\ PowerOff(disk)

fs_touch(n) ==
  LET e == current_dir_entries IN
  /\ fs_ready /\ Followed
  /\ \/ find_entry(e, n) # {} /\ Refuse(0)
     \/ find_entry(e, n) \cup free_idx(e) = {} /\ Refuse(-1)
     \/ /\ find_entry(e, n) = {}
        /\ \E i \in free_idx(e) :
             Finish(DirFlushes(fat, [e EXCEPT ![i] = Entry(n, FALSE, 0, 0)], disk))

fs_remove(n) ==
  LET e == current_dir_entries IN
  /\ fs_ready /\ Followed /\ Applicable(n)
  /\ \/ find_entry(e, n) = {} /\ Refuse(-1)
     \/ \E i \in find_entry(e, n) :
          Finish(Commit(free_chain(fat, e[i].fst), [e EXCEPT ![i] = Deleted], disk))

\* write_cluster_chain into FAT f, and what fs_write_raw does with the result:
\* entry i of e becomes x.  Out of clusters or on an error, the chain is freed
\* again and the command returns at once: nothing is flushed, and in memory
\* the entry has lost its clusters.
WriteOut(f, e, i, x, t) ==
  LET lost == [e EXCEPT ![i] = [x EXCEPT !.fst = 0]]
      room == Cardinality(FreeIn(f))
      sectors(k) == [disk EXCEPT !.data = Written(f, disk.data, t, k)]
      done == [e EXCEPT ![i] =
                 [x EXCEPT !.fst = IF t = <<>> THEN 0 ELSE NthFree(f, 1),
                           !.size = Len(t)]]
  IN {Outcome("data", -1, f, lost, sectors(k)) :
        k \in {k \in 0 .. room : k < Need(t)}} \cup
     (IF Need(t) > room THEN {Outcome("", -1, f, lost, sectors(room))}
      ELSE Commit(Linked(f, Need(t)), done, sectors(Need(t))))

\* Mutant: the old chain of an existing file is not freed.
Rewrite_KeepsOldChain(e, n, t) ==
  \/ \E i \in find_entry(e, n) : Finish(WriteOut(fat, e, i, e[i], t))
  \/ /\ find_entry(e, n) = {}
     /\ \E i \in free_idx(e) :
          Finish(WriteOut(fat, e, i, Entry(n, FALSE, 0, 0), t))

\* Write t to the entry of n, or to a new one: its old chain is freed first.
Rewrite(e, n, t) ==
  \/ \E i \in find_entry(e, n) :
       Finish(WriteOut(free_chain(fat, e[i].fst), e, i, e[i], t))
  \/ /\ find_entry(e, n) = {}
     /\ \E i \in free_idx(e) :
          Finish(WriteOut(fat, e, i, Entry(n, FALSE, 0, 0), t))

\* Whether there is room for the longest text a write of n can store.
Room(e, n, t) ==
  LET old == UNION {Chain(fat, e[i].fst) : i \in find_entry(e, n)}
  IN Need(t) <= Cardinality(FreeIn(fat) \cup old)

fs_write_raw(n, t) ==
  LET e == current_dir_entries IN
  /\ "full" \in Scope \/ Room(e, n, t)
  /\ \/ Len(t) > FS_MAX_FILE_SIZE /\ Refuse(-1)
     \/ find_entry(e, n) \cup free_idx(e) = {} /\ Refuse(-1)
     \/ Len(t) <= FS_MAX_FILE_SIZE /\ Rewrite(e, n, t)

fs_write(n, t) == fs_ready /\ Followed /\ Applicable(n) /\ fs_write_raw(n, t)

\* fs_append: read, then rewrite the whole file.  fs_read_ptr yields nothing
\* for a missing file, and also when the disk could not be read.
fs_append(n, t) ==
  LET e == current_dir_entries
      Old == {Load(fat, disk.data, e[i].fst, e[i].size) : i \in find_entry(e, n)}
      NoText == {<<>> : i \in {i \in {0} : Old = {} \/ "read" \in Scope}}
  IN /\ fs_ready /\ Followed /\ Applicable(n)
     /\ \E old \in Old \cup NoText : fs_write_raw(n, old \o t)

Claim(f, c) == [f EXCEPT ![c] = EOC]

\* fs_mkdir.  The new directory's sector is written first; a subdirectory is
\* then read again, and an error there leaves the cluster claimed.
fs_mkdir(n) ==
  LET e == current_dir_entries
      c == NthFree(fat, 1)
      dots == [Blank(DirSlots) EXCEPT ![1] = Entry(".", TRUE, c, 0),
                                      ![2] = Entry("..", TRUE, cwd, 0)]
      made == [disk EXCEPT !.data[c] = DirSector(dots)]
  IN /\ fs_ready /\ Followed /\ "dirs" \in Scope
     /\ \/ find_entry(e, n) # {} /\ Refuse(-1)
        \/ find_entry(e, n) \cup free_idx(e) = {} /\ Refuse(-1)
        \/ find_entry(e, n) = {} /\ free_idx(e) # {} /\ FreeIn(fat) = {} /\ Refuse(-1)
        \/ /\ find_entry(e, n) = {} /\ FreeIn(fat) # {}
           /\ \E i \in free_idx(e) :
                Finish({Outcome("data", -1, fat, e, disk)} \cup
                       {Outcome("read", -1, Claim(fat, c), e, made) : x \in {cwd} \ {0}} \cup
                       Commit(Claim(fat, c),
                              [e EXCEPT ![i] = Entry(n, TRUE, c, 0)], made))

\* Mutant: the emptiness test skips one entry too many.
IsEmptyDir_OffByOne(s) ==
  \A i \in 4 .. DirSlots : s[i].name = DEL \/ \E j \in 4 .. i : s[j].name = END

\* The scan of fs_rmdir over the entries after "." and "..".
IsEmptyDir(s) ==
  \A i \in 3 .. DirSlots : s[i].name = DEL \/ \E j \in 3 .. i : s[j].name = END

fs_rmdir(n) ==
  LET e == current_dir_entries IN
  /\ fs_ready /\ Followed /\ "dirs" \in Scope
  /\ \/ find_entry(e, n) = {} /\ Refuse(-1)
     \/ \E i \in find_entry(e, n) :
          \/ ~e[i].dir /\ Refuse(-1)
          \/ /\ e[i].dir /\ disk.data[e[i].fst].ents # <<>>
             /\ IF IsEmptyDir(disk.data[e[i].fst].ents)
                THEN Finish(Commit(free_chain(fat, e[i].fst),
                                   [e EXCEPT ![i] = Deleted], disk))
                ELSE Refuse(-1)

\* Mutant: the path forgets all of its components.
Parent_Root(p) == <<>>

\* The path without its last component.
Parent(p) == IF p = <<>> THEN <<>> ELSE SubSeq(p, 1, Len(p) - 1)

\* strlen of the path s is written as.
PathLen(s) ==
  LET l[k \in 0 .. Len(s)] == IF k = 0 THEN 0 ELSE l[k - 1] + 1 + NameLen[s[k]]
  IN IF s = <<>> THEN 1 ELSE l[Len(s)]

\* current_path s with name n at its end: a '/' takes the place of its zero,
\* unless it is the root or full.  Without room for the name the path then goes
\* on with what stands behind, to the next zero of the buffer.
PathEnd(s) == LET plen == PathLen(s) IN
              IF plen > 1 /\ plen < FS_MAX_PATH - 1 THEN plen + 1 ELSE plen
Fits(s, n) == PathEnd(s) + NameLen[n] < FS_MAX_PATH
Extended(s, n) ==
  IF Fits(s, n) THEN {Append(s, n)}
  ELSE IF PathEnd(s) = PathLen(s) THEN {s}
  ELSE {s \o r : r \in {r \in Behind : PathLen(s \o r) < FS_MAX_PATH}}

\* fs_chdir: an absolute path first moves to the root, then its one component
\* ("" for none) is looked up from there.
fs_chdir(absolute, comp) ==
  LET d == IF absolute THEN 0 ELSE cwd
      p == IF absolute THEN <<>> ELSE path
      s == IF absolute THEN <<>> ELSE current_path
      e == EntriesOf(root, disk.data, d)
      short == ~absolute /\ cut
      Go(c, q, rc) == cwd' = c /\ path' = q /\ ret' = rc
      Show(t, isCut) == current_path' = t /\ cut' = isCut
  IN /\ fs_ready /\ "dirs" \in Scope /\ e # <<>>
     /\ \/ comp = "" /\ absolute /\ Go(0, <<>>, 0) /\ Show(<<>>, FALSE)
        \/ comp = ".." /\ d = 0 /\ Go(d, p, 0) /\ Show(s, short)
        \/ comp = ".." /\ d # 0 /\ Go(e[2].fst, Parent(p), 0) /\ Show(Parent(s), short)
        \/ comp \in Names /\ find_entry(e, comp) = {} /\ Go(d, p, -1) /\ Show(s, short)
        \/ \E i \in find_entry(e, comp) :
             /\ comp \in Names
             /\ \/ ~e[i].dir /\ Go(d, p, -1) /\ Show(s, short)
                \/ /\ e[i].dir /\ Go(e[i].fst, Append(p, comp), 0)
                   /\ \E t \in Extended(s, comp) : Show(t, short \/ ~Fits(s, comp))
     /\ UNCHANGED <<disk, fat, root, fs_ready>>

-----------------------------------------------------------------------------
(* Specification *)

\* The command that is given.
Gave(op, n, t) == cmd' = [op |-> op, absolute |-> FALSE, name |-> n, text |-> t]

\* vfs.c: what normalize accepts is passed on to fs.c.
VfsCommand(n) ==
  \/ fs_touch(n) /\ Gave("touch", n, <<>>)
  \/ fs_remove(n) /\ Gave("rm", n, <<>>)
  \/ fs_mkdir(n) /\ Gave("mkdir", n, <<>>)
  \/ fs_rmdir(n) /\ Gave("rmdir", n, <<>>)
  \/ \E t \in Texts : \/ fs_write(n, t) /\ Gave("write", n, t)
                      \/ fs_append(n, t) /\ Gave("append", n, t)

\* The image is zero-filled when it is built: there is no boot sector.
Init ==
  /\ disk = [boot |-> FALSE, fat |-> [c \in Clusters |-> FREE],
             root |-> Blank(FS_MAX_FILES), data |-> [c \in Clusters |-> Zeroes]]
  /\ fat = [c \in Clusters |-> FREE] /\ root = Blank(FS_MAX_FILES)
  /\ cwd = 0 /\ path = <<>> /\ fs_ready = FALSE /\ ret = 0
  /\ current_path = <<>> /\ cut = FALSE
  /\ cmd = [op |-> "start", absolute |-> FALSE, name |-> "", text |-> <<>>]

Next ==
  \/ fs_init
  \/ reboot /\ Gave("start", "", <<>>)
  \/ Rejected /\ Gave("rejected", "", <<>>)
  \/ \E n \in Names : VfsCommand(n)
  \/ \E absolute \in BOOLEAN, comp \in Names \cup {"", ".."} :
       /\ fs_chdir(absolute, comp)
       /\ cmd' = [op |-> "cd", absolute |-> absolute, name |-> comp, text |-> <<>>]

Spec == Init /\ [][Next]_vars

-----------------------------------------------------------------------------
(* The volume as a tree *)

\* The used entries of a directory: "." and ".." and deleted ones left out,
\* nothing after the end.
Used(e) == {i \in DOMAIN e : /\ e[i].name \in Names
                             /\ \A j \in 1 .. i : e[j].name # END}

\* The directories of a volume, each as <<path, cluster>>: those k levels down
\* have their entry k - 1 levels down.
Subdirs(r, data, x) ==
  LET e == EntriesOf(r, data, x[2]) IN
  {<<Append(x[1], e[j].name), e[j].fst>> : j \in {j \in Used(e) : e[j].dir}}
Dirs(r, data) ==
  LET l[k \in 0 .. NClus] ==
        IF k = 0 THEN {<<<<>>, 0>>}
        ELSE UNION {{x} \cup Subdirs(r, data, x) : x \in l[k - 1]}
  IN l[NClus]

\* Every used entry, with its path and where it is.
Listing(r, data) ==
  UNION {LET e == EntriesOf(r, data, x[2]) IN
         {[path |-> Append(x[1], e[j].name), at |-> <<x[2], j>>, ent |-> e[j]] :
            j \in Used(e)} : x \in Dirs(r, data)}
TreeOf(f, r, data) ==
  {[path |-> <<>>, dir |-> TRUE, text |-> <<>>]} \cup
  {[path |-> l.path, dir |-> l.ent.dir,
    text |-> IF l.ent.dir THEN <<>> ELSE Load(f, data, l.ent.fst, l.ent.size)] :
     l \in Listing(r, data)}

DiskTree == TreeOf(disk.fat, disk.root, disk.data)
Tree == IF fs_ready THEN TreeOf(fat, root, disk.data) ELSE DiskTree

\* Whether every cluster in use belongs to exactly one entry of the volume.
OwnedOnce(f, r, data) ==
  \E L \in {Listing(r, data)} :
    /\ \A a, b \in L :
         a # b => Chain(f, a.ent.fst) \cap Chain(f, b.ent.fst) = {}
    /\ UNION {Chain(f, l.ent.fst) : l \in L} = Clusters \ FreeIn(f)

-----------------------------------------------------------------------------
(* Properties *)

\* Types of the variables of fs.c and of the disk.
TypeOK ==
  /\ disk.boot \in BOOLEAN
  /\ disk.fat \in [Clusters -> {FREE, EOC} \cup Clusters]
  /\ disk.root \in [1 .. FS_MAX_FILES -> Entries]
  /\ DOMAIN disk.data = Clusters
  /\ fat \in [Clusters -> {FREE, EOC} \cup Clusters]
  /\ root \in [1 .. FS_MAX_FILES -> Entries]
  /\ cwd \in {0} \cup Clusters
  /\ \A i \in 1 .. Len(path) : path[i] \in Names
  /\ \A i \in 1 .. Len(current_path) : current_path[i] \in Names \cup {STALE}
  /\ cut \in BOOLEAN /\ fs_ready \in BOOLEAN /\ ret \in {-1, 0}

\* The allocation invariant behind free_chain and alloc_cluster: no two entries
\* share a cluster, no entry points to a free one, and no used one is lost.
ClustersOwnedOnce == fs_ready => OwnedOnce(fat, root, disk.data)

\* current_path and current_dir_cluster, which fs_chdir updates separately,
\* name the same directory, also after ".." went through an entry on disk, unless
\* a name found no room in current_path since it was last set to the root by an
\* absolute path; then too the cluster is that of a directory.
CwdPathAgrees == \E x \in Dirs(root, disk.data) :
                   x[2] = cwd /\ (~cut => x[1] = current_path)

\* At FS_MAX_PATH the two part.
CwdPathAgreesAlways == <<current_path, cwd>> \in Dirs(root, disk.data)

\* A name appears once in a directory, whatever deleted entries
\* find_entry_in_current and the free slots it hands out went over.
NamesUnique ==
  \A x \in Dirs(root, disk.data) :
    LET e == EntriesOf(root, disk.data, x[2]) IN
    \A i, j \in Used(e) : e[i].name = e[j].name => i = j

\* Every command is durable when it returns: restarting from the disk
\* (disk_write_sectors in flush_fat, flush_root, flush_current_dir) would find
\* the tree the buffers describe.
Durable == fs_ready => TreeOf(fat, root, disk.data) = DiskTree

\* The volume does what FileTree says of each command, results included; the
\* directory a name is looked for in is that of current_dir_cluster.
FT == INSTANCE FileTree WITH tree <- Tree, wd <- path, ok <- ret = 0
ImplementsTree == FT!TSpec

\* From a volume in order, one command, wherever a disk error or a power cut
\* ends it, changes what a restart finds at one path at most: the others keep
\* their content (fs_remove, fs_write_raw, fs_mkdir, fs_rmdir).
InOrder == /\ fs_ready /\ fat = disk.fat /\ root = disk.root
           /\ OwnedOnce(fat, root, disk.data)
PathsOf(T) == {x.path : x \in T}
OnePathAtRisk ==
  [][InOrder => \E old \in {DiskTree}, new \in {DiskTree'} :
                  Cardinality(PathsOf((old \ new) \cup (new \ old))) <= 1]_vars

\* Full read/write FAT16 filesystem (README): no two files ever share a
\* cluster, not even after a write that found the disk full.
NoSharedCluster ==
  fs_ready => \E L \in {Listing(root, disk.data)} : \A a, b \in L :
    a # b => Chain(fat, a.ent.fst) \cap Chain(fat, b.ent.fst) = {}

\* rm deletes a file, rmdir an empty directory (README): no command makes more
\* than one path disappear.
OneNodeAtATime ==
  [][fs_ready /\ fs_ready' =>
       Cardinality(PathsOf(Tree) \ PathsOf(Tree)') <= 1]_vars

\* append adds text to a file (README): where files are only appended to, no
\* command makes one shorter.
NeverShorter ==
  [][\A x \in Tree, y \in Tree' :
       x.path = y.path => Len(x.text) <= Len(y.text)]_vars

\* Persistent storage (README): a restart finds what is on the disk.
SurvivesRestart == [][~fs_ready /\ fs_ready' /\ disk.boot => Tree' = DiskTree]_vars
=============================================================================
