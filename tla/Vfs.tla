-------------------------------- MODULE Vfs ---------------------------------
(***************************************************************************)
(* The pseudo-FAT12 file store of src/kernel/src/fs/vfs.cpp.              *)
(*                                                                         *)
(* fat[c] is the FAT entry of cluster c: the next cluster of a chain, or  *)
(* EofC, FreeC or TakenC.  A chain ends with a cluster of its own whose    *)
(* entry is EofC and which holds no data.  mem[c][o] is byte o of cluster *)
(* c.  dir is the root directory as it was last saved (save_root_folder); *)
(* its clusters are the chain from cluster 0.  The functions of vfs.cpp   *)
(* are operators on a record s with the fields fat, mem, dir, halted      *)
(* (_panic() reached), wild (a write through NULL) and ret (the value     *)
(* returned), chained in the order the code calls them.                   *)
(***************************************************************************)
EXTENDS Integers, Sequences, FiniteSets, SequencesExt, List

CONSTANTS
  NumClusters,   \* CLUSTER_COUNT
  ClusterSize,   \* CLUSTER_SIZE
  CountSize,     \* sizeof(uint32_t), the file count at the root's start
  EntrySize,     \* sizeof(file_t)
  WordSize,      \* 2^32, the modulus of uint32_t arithmetic
  Names,         \* file names, already normalized
  Bytes,         \* byte values callers write
  DefaultFiles,  \* create_default_files: <<name, contents>> in order
  Stdouts,       \* the terminals' output files init_process_scheduler makes
  Procs,         \* the processes making file system calls
  Buffers,       \* the buffers they pass to write and file_append
  MaxOpen,       \* a bound on the length of a process's open_files list
  MaxFileSize    \* a bound on the sizes writes are made to reach

Clusters == 0..(NumClusters - 1)
Offs     == 0..(ClusterSize - 1)
EofC     == -1     \* EOF_CLUSTER
FreeC    == -2     \* FREE_CLUSTER
TakenC   == -3     \* TAKEN_CLUSTER
Junk     == 0      \* a byte no caller wrote

ASSUME Junk \notin Bytes

FreeClusters(f) == {c \in Clusters : f[c] = FreeC}

NamesIn(d) == {d[i].name : i \in DOMAIN d}

IndexOf(d, n) == CHOOSE i \in DOMAIN d : d[i].name = n

\* The data clusters of a chain from c: up to the cluster before the one
\* whose entry is EofC.
RECURSIVE ChainFrom(_, _, _)
ChainFrom(f, c, fuel) ==
  IF c \notin Clusters \/ fuel = 0 \/ f[c] = EofC THEN <<>>
  ELSE <<c>> \o ChainFrom(f, f[c], fuel - 1)

\* The cluster reached from c after n steps along the FAT, as the read
\* loops of vfs.cpp walk it.
RECURSIVE Walk(_, _, _)
Walk(f, c, n) ==
  IF n = 0 \/ c \notin Clusters THEN c ELSE Walk(f, f[c], n - 1)

\* Byte k of buf, or whatever lies past its end.
BufByte(buf, k) == IF k \in 1..Len(buf) THEN buf[k] ELSE Junk

-----------------------------------------------------------------------------
(* Cluster bookkeeping.                                                    *)

\* get_free_cluster: the lowest free cluster, marked TAKEN; _panic() if
\* none.
GetFreeCluster(s) ==
  IF FreeClusters(s.fat) = {} THEN [s EXCEPT !.halted = TRUE, !.ret = 0]
  ELSE LET c == Min(FreeClusters(s.fat))
       IN  [s EXCEPT !.fat[c] = TakenC, !.ret = c]

\* exists_n_free_clusters
ExistsNFreeClusters(s, n) == Cardinality(FreeClusters(s.fat)) >= n

\* get_cluster_count_needed
GetClusterCountNeeded(size) ==
  size \div ClusterSize + (IF size % ClusterSize # 0 THEN 1 ELSE 0)

\* The loop of free_all_occupied_clusters from cluster c on.
RECURSIVE FreeChainFrom(_, _, _)
FreeChainFrom(f, c, fuel) ==
  IF c \notin Clusters THEN f
  ELSE IF fuel = 0 \/ f[c] \in {EofC, FreeC} THEN [f EXCEPT ![c] = FreeC]
  ELSE FreeChainFrom([f EXCEPT ![c] = FreeC], f[c], fuel - 1)

\* free_all_occupied_clusters(start): every cluster after start is freed.
FreeAllOccupiedClusters(s, start) ==
  [s EXCEPT !.fat = FreeChainFrom(@, @[start], NumClusters)]

\* Take a free cluster, link prev to it and end the chain there.
AttachEof(s, prev) ==
  LET e == GetFreeCluster(s)
  IN  [e EXCEPT !.fat[prev] = e.ret, !.fat[e.ret] = EofC]

\* n iterations of "curr = get_free_cluster(); fat[prev] = curr"; ret is
\* the last cluster linked.
RECURSIVE LinkFreeClusters(_, _, _)
LinkFreeClusters(s, prev, n) ==
  IF n <= 0 THEN [s EXCEPT !.ret = prev]
  ELSE LET a == GetFreeCluster(s)
       IN  LinkFreeClusters([a EXCEPT !.fat[prev] = a.ret], a.ret, n - 1)

-----------------------------------------------------------------------------
(* The root directory.                                                     *)

RootFolderSize(n)  == CountSize + n * EntrySize          \* ROOT_FOLDER_SIZE
MaxFilesInFirst    == (ClusterSize - CountSize) \div EntrySize
MaxFilesInOne      == ClusterSize \div EntrySize

\* The memcpy of the files left for the last cluster writes over bytes
\* past that cluster, into cluster c + 1, when they do not fit.
Overflow(s, c, over) ==
  IF over <= 0 \/ c + 1 \notin Clusters THEN s
  ELSE [s EXCEPT !.mem[c + 1] = [o \in Offs |-> IF o < over THEN Junk ELSE @[o]]]

\* Mutant: the middle loop runs clusters_needed - 1 times.
SaveRootFolderExtraCluster(s) ==
  LET n == Len(s.dir)
      k == GetClusterCountNeeded(RootFolderSize(n))
  IN  IF ~ExistsNFreeClusters(s, k) THEN [s EXCEPT !.halted = TRUE]
      ELSE IF n <= MaxFilesInFirst THEN AttachEof(s, 0)
      ELSE LET mid  == LinkFreeClusters(s, 0, k - 1)
               last == GetFreeCluster(mid)
           IN  AttachEof([last EXCEPT !.fat[mid.ret] = last.ret], last.ret)

\* save_root_folder: a chain from cluster 0 of clusters_needed clusters
\* and an EOF cluster; MAX_FILES_IN_FIRST_CLUSTER entries go into cluster
\* 0, MAX_FILES_IN_ONE_CLUSTER into each middle one, the rest into the last.
SaveRootFolder(s) ==
  LET n == Len(s.dir)
      k == GetClusterCountNeeded(RootFolderSize(n))
  IN  IF ~ExistsNFreeClusters(s, k) THEN [s EXCEPT !.halted = TRUE]
      ELSE IF n <= MaxFilesInFirst THEN AttachEof(s, 0)
      ELSE LET mid  == LinkFreeClusters(s, 0, k - 2)
               last == GetFreeCluster(mid)
               rest == n - MaxFilesInFirst - (k - 2) * MaxFilesInOne
           IN  AttachEof(Overflow([last EXCEPT !.fat[mid.ret] = last.ret],
                                  last.ret, rest * EntrySize - ClusterSize),
                         last.ret)

\* "free_all_occupied_clusters(ROOT_FIRST_START_CLUSTER);
\*  save_root_folder(root)", which every change of the directory ends with.
StoreRoot(s) == SaveRootFolder(FreeAllOccupiedClusters(s, 0))

\* Mutant: the loop looks four hops ahead, fat[fat[fat[fat[c]]]].
RECURSIVE LoadMiddleFourHops(_, _, _)
LoadMiddleFourHops(f, c, fuel) ==
  IF fuel = 0 \/ Walk(f, c, 4) = EofC THEN <<>>
  ELSE <<Walk(f, c, 1)>> \o LoadMiddleFourHops(f, Walk(f, c, 1), fuel - 1)

\* The middle clusters the loop of load_root_folder reads, each holding
\* MAX_FILES_IN_ONE_CLUSTER entries: it steps on from c while the entry
\* three hops ahead, fat[fat[fat[c]]], is not EOF_CLUSTER.
RECURSIVE LoadMiddle(_, _, _)
LoadMiddle(f, c, fuel) ==
  IF fuel = 0 \/ Walk(f, c, 3) = EofC THEN <<>>
  ELSE <<Walk(f, c, 1)>> \o LoadMiddle(f, Walk(f, c, 1), fuel - 1)

\* load_root_folder: the file count is read from cluster 0 together with
\* the first entries; a root that fits there must be followed by the EOF
\* cluster, else the middle clusters and a last one are read, and the
\* cluster after the last must be the EOF cluster; _panic() otherwise.
\* ret is the clusters read, in order.
LoadRootFolder(s) ==
  LET f == s.fat
  IN  IF Len(s.dir) <= MaxFilesInFirst
      THEN IF Walk(f, 0, 1) \in Clusters /\ Walk(f, 0, 2) = EofC
           THEN [s EXCEPT !.ret = <<0>>] ELSE [s EXCEPT !.halted = TRUE]
      ELSE LET mid  == LoadMiddle(f, 0, NumClusters)
               last == Walk(f, 0, Len(mid) + 1)
           IN  IF last \in Clusters /\ Walk(f, last, 2) = EofC
               THEN [s EXCEPT !.ret = <<0>> \o mid \o <<last>>]
               ELSE [s EXCEPT !.halted = TRUE]

-----------------------------------------------------------------------------
(* Directory entries.                                                      *)

NewFile(n, c) == [name |-> n, start |-> c, size |-> 0, open |-> 0, system |-> 0]

\* create_file: needs two free clusters, the file's start cluster and its
\* EOF cluster; prints and does nothing otherwise.
CreateFile(s, n) ==
  IF ~ExistsNFreeClusters(s, 2) THEN s
  ELSE LET a == GetFreeCluster(s)
           b == GetFreeCluster(a)
       IN  [b EXCEPT !.fat[a.ret] = b.ret, !.fat[b.ret] = EofC,
                     !.dir = Append(@, NewFile(n, a.ret))]

\* delete_file: free the clusters after the start cluster, then the start
\* cluster, and drop the entry.
DeleteFile(s, n) ==
  LET i  == IndexOf(s.dir, n)
      st == s.dir[i].start
      f  == FreeChainFrom(s.fat, s.fat[st], NumClusters)
  IN  [s EXCEPT !.fat = [f EXCEPT ![st] = FreeC], !.dir = RemoveAt(@, i)]

\* touch: 1 if the name is taken; otherwise create_file, re-save the root
\* and return 0, whether or not create_file made the file.
Touch(s, n) ==
  IF n \in NamesIn(s.dir) THEN [s EXCEPT !.ret = 1]
  ELSE [StoreRoot(CreateFile(s, n)) EXCEPT !.ret = 0]

\* Mutant: rm without the system-file check.
RmIgnoringSystem(s, n) ==
  IF n \notin NamesIn(s.dir) THEN [s EXCEPT !.ret = 1]
  ELSE [StoreRoot(DeleteFile(s, n)) EXCEPT !.ret = 0]

\* rm: file->system is read before the existence check; for a missing
\* name that reads low memory through NULL, and either outcome returns 1.
Rm(s, n) ==
  IF n \notin NamesIn(s.dir) \/ s.dir[IndexOf(s.dir, n)].system = 1
  THEN [s EXCEPT !.ret = 1]
  ELSE [StoreRoot(DeleteFile(s, n)) EXCEPT !.ret = 0]

\* is_file_open
IsFileOpen(s, n) == n \in NamesIn(s.dir) /\ s.dir[IndexOf(s.dir, n)].open = 1

\* The common body of set_as_system_file, open_file and close_file: set
\* one flag of the entry and re-save the root.  get_file's NULL for a
\* missing name is written through.
SetFlag(s, n, fld, v) ==
  IF n \notin NamesIn(s.dir) THEN [s EXCEPT !.wild = TRUE]
  ELSE LET i == IndexOf(s.dir, n)
       IN  [StoreRoot([s EXCEPT !.dir[i][fld] = v]) EXCEPT !.ret = 0]

SetAsSystemFile(s, n) ==
  IF IsFileOpen(s, n) THEN [s EXCEPT !.ret = 1] ELSE SetFlag(s, n, "system", 1)

OpenFile(s, n) ==
  IF IsFileOpen(s, n) THEN [s EXCEPT !.ret = 1] ELSE SetFlag(s, n, "open", 1)

CloseFile(s, n) ==
  IF ~IsFileOpen(s, n) THEN [s EXCEPT !.ret = 1] ELSE SetFlag(s, n, "open", 0)

-----------------------------------------------------------------------------
(* File data.                                                              *)

\* Write bytes stored+1.. of buf into cluster c, from offset o0 on, for
\* len bytes.
PutBytes(s, c, o0, buf, stored, len) ==
  [s EXCEPT !.mem[c] = [o \in Offs |-> IF o >= o0 /\ o < o0 + len
                                       THEN BufByte(buf, stored + o - o0 + 1)
                                       ELSE @[o]]]

\* n iterations of the full-cluster loop of append_data: link a fresh
\* cluster after prev and fill it; ret is the last cluster linked.
RECURSIVE FillClusters(_, _, _, _, _)
FillClusters(s, prev, buf, stored, n) ==
  IF n <= 0 THEN [s EXCEPT !.ret = prev]
  ELSE LET a == GetFreeCluster(s)
       IN  FillClusters(PutBytes([a EXCEPT !.fat[prev] = a.ret], a.ret, 0,
                                 buf, stored, ClusterSize),
                        a.ret, buf, stored + ClusterSize, n - 1)

\* Mutant: the bytes stored in the last cluster are counted twice.
AppendDataCountsTwice(s, n, buf, bytes) ==
  LET i    == IndexOf(s.dir, n)
      off  == s.dir[i].size % ClusterSize
      curr == Last(ChainFrom(s.fat, s.dir[i].start, NumClusters))
      b1   == Min({bytes, ClusterSize - off})
      s1   == [PutBytes(s, curr, off, buf, 0, b1) EXCEPT !.dir[i].size = @ + b1]
      need == GetClusterCountNeeded(bytes - b1)
  IN  IF bytes <= b1 THEN StoreRoot(s1)
      ELSE IF ~ExistsNFreeClusters(s1, need) THEN [s1 EXCEPT !.dir = s.dir]
      ELSE LET s2     == [s1 EXCEPT !.fat[s1.fat[curr]] = FreeC,
                                    !.dir[i].size = @ + bytes]
               s3     == FillClusters(s2, curr, buf, b1, need - 1)
               stored == b1 + (need - 1) * ClusterSize
               s4     == GetFreeCluster(s3)
               s5     == PutBytes([s4 EXCEPT !.fat[s3.ret] = s4.ret], s4.ret, 0,
                                  buf, stored, bytes - stored)
           IN  StoreRoot(AttachEof(s5, s4.ret))

\* append_data(filename, buffer, bytes): fill the file's last data
\* cluster from size % CLUSTER_SIZE on; if bytes remain and enough
\* clusters are free, free the EOF cluster, add full clusters, a last
\* one and a new EOF cluster.  Without the clusters it returns before
\* saving the root, so the new size is lost.
AppendData(s, n, buf, bytes) ==
  LET i    == IndexOf(s.dir, n)
      off  == s.dir[i].size % ClusterSize
      curr == Last(ChainFrom(s.fat, s.dir[i].start, NumClusters))
      b1   == Min({bytes, ClusterSize - off})
      s1   == [PutBytes(s, curr, off, buf, 0, b1) EXCEPT !.dir[i].size = @ + b1]
      need == GetClusterCountNeeded(bytes - b1)
  IN  IF bytes <= b1 THEN StoreRoot(s1)
      ELSE IF ~ExistsNFreeClusters(s1, need) THEN [s1 EXCEPT !.dir = s.dir]
      ELSE LET s2     == [s1 EXCEPT !.fat[s1.fat[curr]] = FreeC,
                                    !.dir[i].size = @ + bytes - b1]
               s3     == FillClusters(s2, curr, buf, b1, need - 1)
               stored == b1 + (need - 1) * ClusterSize
               s4     == GetFreeCluster(s3)
               s5     == PutBytes([s4 EXCEPT !.fat[s3.ret] = s4.ret], s4.ret, 0,
                                  buf, stored, bytes - stored)
           IN  StoreRoot(AttachEof(s5, s4.ret))

\* Mutant: every cluster of the tail is freed, the first one included.
RECURSIVE CutTailFreesFirst(_, _, _, _, _)
CutTailFreesFirst(s, c, tmp, first, fuel) ==
  IF c \notin Clusters THEN [s |-> [s EXCEPT !.wild = TRUE], tmp |-> tmp]
  ELSE IF fuel = 0 \/ s.fat[c] = EofC THEN [s |-> s, tmp |-> tmp]
  ELSE CutTailFreesFirst([s EXCEPT !.fat[c] = FreeC],
               s.fat[c], tmp \o [k \in 1..ClusterSize |-> s.mem[c][k - 1]], FALSE, fuel - 1)

\* The tail loop of write: from cluster c on, copy each cluster before
\* the EOF cluster into tmp; the first of them becomes the new EOF
\* cluster and the others are freed.  A walk off the chain reads past the
\* FAT, which nothing defines.
RECURSIVE CutTail(_, _, _, _, _)
CutTail(s, c, tmp, first, fuel) ==
  IF c \notin Clusters THEN [s |-> [s EXCEPT !.wild = TRUE], tmp |-> tmp]
  ELSE IF fuel = 0 \/ s.fat[c] = EofC THEN [s |-> s, tmp |-> tmp]
  ELSE CutTail([s EXCEPT !.fat[c] = IF first THEN EofC ELSE FreeC],
               s.fat[c], tmp \o [k \in 1..ClusterSize |-> s.mem[c][k - 1]], FALSE, fuel - 1)

\* uint32_t subtraction.
Wrap(x) == x % WordSize

\* write(filename, buffer, offset, len): an insertion.  At the end of the
\* file it is append_data; inside it, the size is cut to offset and the
\* root saved, the tail from offset on is copied out and its clusters
\* released, the buffer is appended, and then the tail, of length
\* tmp_buff_offset - (CLUSTER_SIZE - original_file_size % CLUSTER_SIZE).
\* The tail is copied into a kmalloc'd buffer sized from the original
\* size; a chain with more clusters than that size needs overruns it.
Write(s, n, buf, offset) ==
  LET len == Len(buf)
      i   == IndexOf(s.dir, n)
      f   == s.dir[i]
  IN  IF n \notin NamesIn(s.dir) \/ offset > f.size THEN [s EXCEPT !.ret = 1]
      ELSE IF offset = f.size THEN [AppendData(s, n, buf, len) EXCEPT !.ret = 0]
      ELSE IF ~ExistsNFreeClusters(s, GetClusterCountNeeded(f.size + len))
      THEN [s EXCEPT !.ret = 1]
      ELSE LET s1   == StoreRoot([s EXCEPT !.dir[i].size = offset])
               oc   == offset % ClusterSize
               curr == Walk(s1.fat, f.start, offset \div ClusterSize)
               head == [k \in 1..(ClusterSize - oc) |-> s1.mem[curr][oc + k - 1]]
               cut  == IF curr \notin Clusters
                       THEN [s |-> [s1 EXCEPT !.wild = TRUE], tmp |-> <<>>]
                       ELSE CutTail(s1, s1.fat[curr], head, TRUE, NumClusters)
               room == (GetClusterCountNeeded(f.size) - offset \div ClusterSize)
                         * ClusterSize
               s2   == AppendData(cut.s, n, buf, len)
               tail == Wrap(Len(cut.tmp) - (ClusterSize - (f.size % ClusterSize)))
           IN  IF cut.s.wild \/ Len(cut.tmp) > room THEN [cut.s EXCEPT !.wild = TRUE]
               ELSE [AppendData(s2, n, cut.tmp, tail) EXCEPT !.ret = 0]

\* The copy loop of cp: each data cluster of the source is copied into
\* the destination's current cluster, and a fresh cluster is linked after
\* it; the last one linked becomes the EOF cluster.
RECURSIVE CopyClusters(_, _, _, _)
CopyClusters(s, sc, dc, fuel) ==
  IF sc \notin Clusters \/ fuel = 0 \/ s.fat[sc] = EofC
  THEN [s EXCEPT !.fat[dc] = EofC]
  ELSE LET a == GetFreeCluster([s EXCEPT !.mem[dc] = s.mem[sc]])
       IN  CopyClusters([a EXCEPT !.fat[dc] = a.ret], s.fat[sc], a.ret, fuel - 1)

\* cp(src, des): rm an existing destination, touch it, give it the
\* source's size, save the root, free its EOF cluster and copy the
\* source's chain.  The source's size is read from the entry loaded at
\* the start.  If touch made no file, get_file's NULL is written through.
Cp(s, src, des) ==
  IF src = des \/ src \notin NamesIn(s.dir) THEN [s EXCEPT !.ret = 1]
  ELSE LET sf == s.dir[IndexOf(s.dir, src)]
           s1 == Touch(IF des \in NamesIn(s.dir) THEN Rm(s, des) ELSE s, des)
       IN  IF ~ExistsNFreeClusters(s1, GetClusterCountNeeded(sf.size))
           THEN [s1 EXCEPT !.ret = 1]
           ELSE IF des \notin NamesIn(s1.dir) THEN [s1 EXCEPT !.wild = TRUE]
           ELSE LET j  == IndexOf(s1.dir, des)
                    s2 == StoreRoot([s1 EXCEPT !.dir[j].size = sf.size])
                    dc == s1.dir[j].start
                    s3 == [s2 EXCEPT !.fat[s2.fat[dc]] = FreeC]
                IN  [CopyClusters(s3, sf.start, dc, NumClusters) EXCEPT !.ret = 0]

-----------------------------------------------------------------------------
(* fs_init and the file system calls of syscalls.cpp.                      *)

RECURSIVE CreateDefaultFiles(_, _)
CreateDefaultFiles(s, k) ==
  IF k > Len(DefaultFiles) THEN s
  ELSE LET n == DefaultFiles[k][1]
           t == Touch(s, n)
       IN  CreateDefaultFiles(AppendData(t, n, DefaultFiles[k][2],
                                         Len(DefaultFiles[k][2])), k + 1)

\* fs_init: every cluster free but cluster 0, an empty root saved from
\* cluster 0, then the default files touched and filled.
FsInit ==
  LET s0 == [fat    |-> [c \in Clusters |-> IF c = 0 THEN TakenC ELSE FreeC],
             mem    |-> [c \in Clusters |-> [o \in Offs |-> Junk]],
             dir    |-> <<>>, halted |-> FALSE, wild |-> FALSE, ret |-> 0]
  IN  CreateDefaultFiles(SaveRootFolder(s0), 1)

\* The loop of init_process_scheduler: touch each terminal's output
\* file and make it a system file.
RECURSIVE CreateStdouts(_, _)
CreateStdouts(s, k) ==
  IF k > Len(Stdouts) THEN s
  ELSE CreateStdouts(SetAsSystemFile(Touch(s, Stdouts[k]), Stdouts[k]), k + 1)

\* The file store; openFiles[p] is pcb->open_files of process p.  holds[p]
\* is a history variable: the files p opened and has not closed or seen
\* deleted since.
VARIABLES fat, mem, dir, halted, wild, openFiles, holds

fsVars == <<fat, mem, dir, halted, wild>>
vars   == <<fat, mem, dir, halted, wild, openFiles, holds>>

S == [fat |-> fat, mem |-> mem, dir |-> dir, halted |-> halted,
      wild |-> wild, ret |-> 0]

\* The effect of a vfs.cpp call on the file store.
Apply(r) ==
  /\ fat' = r.fat /\ mem' = r.mem /\ dir' = r.dir
  /\ halted' = r.halted /\ wild' = r.wild

Live == ~halted /\ ~wild

\* A vfs.cpp call: it starts with load_root_folder (in exists_file,
\* get_file_size, is_file_open or the call itself), whose _panic() ends
\* it before anything is changed; r is what the call does otherwise.
Call(r) ==
  LET l == LoadRootFolder(S)
  IN  IF l.halted THEN [l EXCEPT !.ret = 1] ELSE r

Init ==
  /\ LET r == CreateStdouts(FsInit, 1)
     IN  fat = r.fat /\ mem = r.mem /\ dir = r.dir /\ halted = r.halted
         /\ wild = r.wild
  /\ openFiles = [p \in Procs |-> <<>>]
  /\ holds = [p \in Procs |-> {}]

FileOf(n) == dir[IndexOf(dir, n)]

\* A name no longer held once its file is deleted.
Drop(n) == [q \in Procs |-> holds[q] \ {n}]

\* sys_call_touch
SysTouch(n) ==
  /\ Apply(Call(Touch(S, n)))
  /\ UNCHANGED <<openFiles, holds>>

\* sys_call_rm
SysRm(n) ==
  LET r == Call(Rm(S, n))
  IN  /\ Apply(r)
      /\ holds' = IF r.ret = 0 THEN Drop(n) ELSE holds
      /\ UNCHANGED openFiles

\* sys_call_cp; an existing destination is rm'd first.
SysCp(src, des) ==
  LET r == Call(Cp(S, src, des))
      removed == src # des /\ src \in NamesIn(dir) /\ des \in NamesIn(dir)
                 /\ dir[IndexOf(dir, des)].system = 0
  IN  /\ Apply(r)
      /\ holds' = IF removed THEN Drop(des) ELSE holds
      /\ UNCHANGED openFiles

\* sys_call_write: only for a file in the caller's open_files.
SysWrite(p, n, buf, off) ==
  /\ n \in NamesIn(dir)
  /\ FileOf(n).size + Len(buf) <= MaxFileSize
  /\ ListContains(openFiles[p], n)
  /\ Apply(Call(Write(S, n, buf, off)))
  /\ UNCHANGED <<openFiles, holds>>

\* sys_call_file_append: get_file_size, touch if missing, then write at
\* that size; open_files is not consulted.
SysFileAppend(n, buf) ==
  LET size == IF n \in NamesIn(dir) THEN dir[IndexOf(dir, n)].size ELSE 0
      t    == IF n \in NamesIn(dir) THEN S ELSE Touch(S, n)
  IN  /\ size + Len(buf) <= MaxFileSize
      /\ Apply(Call(Write(t, n, buf, size)))
      /\ UNCHANGED <<openFiles, holds>>

\* sys_call_open: open_file on an existing file; on success a copy of the
\* name is added to open_files.
SysOpen(p, n) ==
  LET r == Call(OpenFile(S, n))
  IN  /\ n \in NamesIn(dir)
      /\ Len(openFiles[p]) < MaxOpen
      /\ Apply(r)
      /\ openFiles' = IF r.ret = 0 THEN [openFiles EXCEPT ![p] = ListAddLast(@, n)]
                      ELSE openFiles
      /\ holds' = IF r.ret = 0 THEN [holds EXCEPT ![p] = @ \cup {n}] ELSE holds

\* sys_call_close: close_file if the name is in open_files, then
\* list_remove_data, which compares the user's pointer with the stored
\* copies and so finds none: the name stays in the list.
SysClose(p, n) ==
  /\ ListContains(openFiles[p], n)
  /\ Apply(Call(CloseFile(S, n)))
  /\ holds' = [holds EXCEPT ![p] = @ \ {n}]
  /\ UNCHANGED openFiles

\* The file-closing loop of kill_process: close_file on every name of
\* open_files, first to last, then the list is freed.
RECURSIVE CloseAll(_, _)
CloseAll(s, names) ==
  IF Len(names) = 0 THEN s
  ELSE CloseAll(CloseFile(s, ListGet(names, 0, Junk)), ListRemove(names, 0))

\* Mutant: the list is freed without closing its files.
ExitWithoutClosing(p) ==
  /\ UNCHANGED fsVars
  /\ openFiles' = [openFiles EXCEPT ![p] = <<>>]
  /\ holds' = [holds EXCEPT ![p] = {}]

\* kill_process of p (exit or any other termination) as far as files go;
\* the slot then runs a new process with an empty list.
Exit(p) ==
  /\ Apply(IF openFiles[p] = <<>> THEN S ELSE Call(CloseAll(S, openFiles[p])))
  /\ openFiles' = [openFiles EXCEPT ![p] = <<>>]
  /\ holds' = [holds EXCEPT ![p] = {}]

\* The kernel stopped in _panic() or after a wild write.
Stopped == ~Live /\ UNCHANGED vars

Next ==
  \/ Live /\ \E n \in Names : SysTouch(n) \/ SysRm(n)
  \/ Live /\ \E a, b \in Names : SysCp(a, b)
  \/ Live /\ \E p \in Procs, n \in Names, buf \in Buffers :
              \E off \in 0..(IF n \in NamesIn(dir) THEN dir[IndexOf(dir, n)].size ELSE 0) :
                SysWrite(p, n, buf, off)
  \/ Live /\ \E n \in Names, buf \in Buffers : SysFileAppend(n, buf)
  \/ Live /\ \E p \in Procs, n \in Names : SysOpen(p, n) \/ SysClose(p, n)
  \/ Live /\ \E p \in Procs : Exit(p)
  \/ Stopped

Spec == Init /\ [][Next]_vars

-----------------------------------------------------------------------------
(* What the store holds.                                                   *)

\* A chain's clusters: its data clusters and the EOF cluster after them.
ChainClusters(c) ==
  LET d == ChainFrom(fat, c, NumClusters)
  IN  ToSet(d) \cup {IF d = <<>> THEN c ELSE fat[Last(d)]}

\* The chain from c reaches a cluster marked EofC.
ChainEnds(c) ==
  LET d == ChainFrom(fat, c, NumClusters)
      e == IF d = <<>> THEN c ELSE fat[Last(d)]
  IN  Len(d) < NumClusters /\ e \in Clusters /\ fat[e] = EofC

RootChain == ChainClusters(0)

-----------------------------------------------------------------------------
(* Properties.                                                             *)

TypeOK ==
  /\ fat \in [Clusters -> Clusters \cup {EofC, FreeC, TakenC}]
  /\ mem \in [Clusters -> [Offs -> Bytes \cup {Junk}]]
  /\ \A i \in DOMAIN dir : dir[i].name \in Names /\ dir[i].start \in Clusters
                            /\ dir[i].size \in 0..MaxFileSize
                            /\ dir[i].open \in {0, 1} /\ dir[i].system \in {0, 1}
  /\ halted \in BOOLEAN /\ wild \in BOOLEAN
  /\ openFiles \in [Procs -> Seq(Names)]
  /\ holds \in [Procs -> SUBSET Names]

\* Every file's chain, and the root's, ends in an EOF cluster, and no
\* cluster belongs to two of them or is marked free: the cluster
\* allocation and release of create_file, append_data, write, cp, rm and
\* save_root_folder never hand one cluster to two owners.
ChainsDisjoint ==
  Live =>
    /\ ChainEnds(0)
    /\ \A i \in DOMAIN dir : ChainEnds(dir[i].start)
    /\ \A i \in DOMAIN dir : ChainClusters(dir[i].start) \cap RootChain = {}
    /\ \A i, j \in DOMAIN dir :
         i # j => ChainClusters(dir[i].start) \cap ChainClusters(dir[j].start) = {}
    /\ \A c \in RootChain \cup UNION {ChainClusters(dir[i].start) : i \in DOMAIN dir} :
         fat[c] # FreeC

\* The saved size of every file fits in the data clusters of its chain,
\* so read never walks past them: append_data saves a size only with the
\* clusters for it linked, and write cuts the size before the chain.
SizeFitsChain ==
  Live => \A i \in DOMAIN dir :
            GetClusterCountNeeded(dir[i].size)
              <= Len(ChainFrom(fat, dir[i].start, NumClusters))

\* A file marked open is in the open_files list of some process, so the
\* file-closing loop of kill_process closes it once that process ends:
\* open_file succeeds only where sys_call_open records the name, and
\* every file is closed when its last holder is killed.
OpenFilesHaveHolder ==
  Live => \A i \in DOMAIN dir :
            dir[i].open = 1 => \E p \in Procs : dir[i].name \in ToSet(openFiles[p])

\* The root directory that save_root_folder last wrote is read back by
\* load_root_folder from the same clusters: its walk, which stops on the
\* fat[fat[fat[curr]]] test, visits exactly the chain from cluster 0,
\* which has as many data clusters as save_root_folder computed for the
\* directory, so every entry is read from the cluster it was written to
\* and the load never panics.
RootFolderLoads ==
  Live => LET l == LoadRootFolder(S)
          IN  /\ ~l.halted
              /\ l.ret = ChainFrom(fat, 0, NumClusters)
              /\ Len(l.ret) = GetClusterCountNeeded(RootFolderSize(Len(dir)))

\* The output file of every terminal stays in the root folder as a system
\* file: rm refuses a system file, and cp onto one, whose rm of the
\* destination is refused and whose touch finds the name taken, copies
\* into the existing entry rather than replacing it.
StdoutsPersist ==
  Live => \A k \in DOMAIN Stdouts :
            Stdouts[k] \in NamesIn(dir) /\ FileOf(Stdouts[k]).system = 1

\* A file a process opened, and neither closed nor saw deleted, is still
\* marked open, so no other process can open it: sys_call_close,
\* sys_call_open and kill_process keep open_files and file->open in step.
HeldFilesStayOpen ==
  \A p \in Procs : \A n \in holds[p] : n \in NamesIn(dir) => FileOf(n).open = 1

=============================================================================
