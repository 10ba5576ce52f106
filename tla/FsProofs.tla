------------------------------ MODULE FsProofs ------------------------------
(***************************************************************************)
(* For every number of clusters, entries, names and texts: a name appears  *)
(* once in a directory (NamesUnique), whatever fails except the write of a *)
(* directory itself; a command is durable when it returns (Durable) where  *)
(* nothing fails; and where in addition rm and write are not used on a     *)
(* directory, every cluster in use belongs to one entry                    *)
(* (ClustersOwnedOnce), the current path and cluster agree                 *)
(* (CwdPathAgrees), and the volume does what FileTree says of its commands *)
(* (ImplementsTree).                                                       *)
(*                                                                         *)
(* NamesUnique is about the directories that can be reached, and says      *)
(* nothing of a slot after the end.  The invariant, VolumeInv, is about    *)
(* every cluster that holds a directory, reached or not, in memory and on  *)
(* the disk: nothing is used after the end, no name is there twice, and    *)
(* every entry leads to a cluster (Tidy).  Durable needs it too: that a    *)
(* write which has room succeeds depends on what the chains of the entries *)
(* are.                                                                    *)
(*                                                                         *)
(* For the last three the invariant is TreeInv.  Dirs finds the            *)
(* directories level by level, which a step cannot be followed through; a  *)
(* map P from the cluster of each directory to its path says the same at   *)
(* once (Volume): the paths differ, a directory other than the root has    *)
(* the one entry that leads to it and ".." leads back (Hung), and the      *)
(* chains of the used entries are apart and cover what is not free         *)
(* (Owned).  That Dirs finds just the directories of the map is            *)
(* DirsMapped.  A command that succeeds is one of three steps on the map:  *)
(* the entry of one file changes (FileStep), a directory is added          *)
(* (MkdirStep), or an empty one is removed (RmdirStep).  Each keeps the    *)
(* map and changes the tree at one path.  The map gives the path of the    *)
(* current cluster; that current_path is that path until it is cut is      *)
(* PathInv, a fact about fs_chdir and restarts alone.                      *)
(*                                                                         *)
(* Follow and Dirs repeat a step; that such functions exist and what they  *)
(* stay in comes from the well-foundedness of finite sets (LeastBelow).    *)
(***************************************************************************)
EXTENDS Fs, FiniteSetTheorems, WellFoundedInduction, SequenceTheorems, TLAPS

-----------------------------------------------------------------------------
(* Numbers below a bound, and what is reached by repeating a step *)

\* A set of numbers below a bound that is not empty has a least one: the initial
\* segments they end are finite sets, which are well-founded under inclusion.
LEMMA LeastBelow ==
  ASSUME NEW m \in Nat, NEW T, T \subseteq 0 .. m, T # {}
  PROVE  \E x \in T : \A y \in T : x <= y
<1> DEFINE B(n) == 0 .. n
           U == {B(n) : n \in T}
           F == FiniteSubsetsOf(0 .. m)
<1>1. IsWellFoundedOn(StrictSubsetOrdering(0 .. m), F)
  BY FS_Interval, FS_StrictSubsetOrderingWellFounded
<1>2. \A n \in T : B(n) \in F
  BY FS_Interval DEF FiniteSubsetsOf
<1>3. U \subseteq F /\ U # {}
  BY <1>2
<1>4. PICK b \in U : \A c \in U : ~(<<c, b>> \in StrictSubsetOrdering(0 .. m))
  <2> HIDE DEF U, F
  <2> QED
    BY <1>1, <1>3, WFMin
<1>5. PICK x \in T : b = B(x)
  OBVIOUS
<1>6. ASSUME NEW y \in T, y < x PROVE FALSE
  <2>1. B(y) \in SUBSET (0 .. m) /\ B(x) \in SUBSET (0 .. m)
    OBVIOUS
  <2>2. B(y) \subseteq B(x) /\ x \notin B(y) /\ x \in B(x)
    BY <1>6
  <2>3. <<B(y), B(x)>> \in StrictSubsetOrdering(0 .. m)
    BY <2>1, <2>2 DEF StrictSubsetOrdering
  <2> QED
    BY <1>4, <1>5, <2>3
<1> QED
  BY <1>6

\* Function w repeats step g, n times, from a.
Repeats(w, a, g, n) == w = [i \in 0 .. n |-> IF i = 0 THEN a ELSE g[w[i - 1]]]

\* The function that repeats step g from a exists, and stays where g stays: what
\* Follow and Dirs are defined by.
LEMMA Iterates ==
  ASSUME NEW S, NEW a \in S, NEW g \in [S -> S], NEW n \in Nat
  PROVE  \E w \in [0 .. n -> S] : Repeats(w, a, g, n)
<1> DEFINE It(w, k) == /\ w \in [0 .. k -> S] /\ w[0] = a
                       /\ \A i \in 1 .. k : w[i] = g[w[i - 1]]
           T == {k \in 0 .. n : ~ \E w : It(w, k)}
<1>1. T = {}
  <2> SUFFICES ASSUME T # {} PROVE FALSE
    OBVIOUS
  <2>1. T \subseteq 0 .. n
    OBVIOUS
  <2>2. PICK k \in T : \A y \in T : k <= y
    <3> HIDE DEF T
    <3> QED
      BY <2>1, LeastBelow
  <2>3. k # 0
    <3>1. It([i \in 0 .. 0 |-> a], 0)
      OBVIOUS
    <3> QED
      BY <3>1
  <2>4. k \in 1 .. n /\ k - 1 \in 0 .. n /\ k - 1 \notin T
    <3>1. k \in 0 .. n
      OBVIOUS
    <3> HIDE DEF T
    <3> QED
      BY <2>2, <2>3, <3>1
  <2>5. PICK v : It(v, k - 1)
    BY <2>4
  <2> DEFINE u == [i \in 0 .. k |-> IF i = k THEN g[v[k - 1]] ELSE v[i]]
  <2>6. v[k - 1] \in S /\ g[v[k - 1]] \in S
    BY <2>4, <2>5
  <2>7. u \in [0 .. k -> S]
    <3>1. ASSUME NEW i \in 0 .. k PROVE (IF i = k THEN g[v[k - 1]] ELSE v[i]) \in S
      <4>1. i # k => i \in 0 .. k - 1
        BY <2>4
      <4> QED
        BY <2>5, <2>6, <4>1
    <3> QED
      BY <3>1
  <2>8. u[0] = a
    BY <2>4, <2>5
  <2>9. ASSUME NEW i \in 1 .. k PROVE u[i] = g[u[i - 1]]
    <3>1. i - 1 \in 0 .. k /\ i - 1 # k /\ i \in 0 .. k
      BY <2>4
    <3>2. u[i - 1] = v[i - 1]
      BY <3>1
    <3>3. CASE i = k
      BY <3>1, <3>2, <3>3
    <3>4. CASE i # k
      <4>1. i \in 1 .. k - 1
        BY <2>4, <3>4
      <4>2. v[i] = g[v[i - 1]]
        BY <2>5, <4>1
      <4> QED
        BY <3>1, <3>2, <3>4, <4>2
    <3> QED
      BY <3>3, <3>4
  <2>10. It(u, k)
    <3> HIDE DEF u
    <3> QED
      BY <2>7, <2>8, <2>9
  <2> QED
    BY <2>10
<1>2. PICK w : It(w, n)
  BY <1>1
<1>3. w = [i \in 0 .. n |-> IF i = 0 THEN a ELSE g[w[i - 1]]]
  <2>1. ASSUME NEW i \in 0 .. n PROVE w[i] = IF i = 0 THEN a ELSE g[w[i - 1]]
    BY <1>2
  <2> QED
    BY <1>2, <2>1
<1> QED
  BY <1>2, <1>3 DEF Repeats

\* Induction up to a bound: what starts in S and never leaves it in one step.
LEMMA StaysBelow ==
  ASSUME NEW S, NEW n \in Nat, NEW w, w[0] \in S,
         \A i \in 1 .. n : w[i - 1] \in S => w[i] \in S
  PROVE  \A i \in 0 .. n : w[i] \in S
<1> DEFINE T == {k \in 0 .. n : w[k] \notin S}
<1>1. T = {}
  <2> SUFFICES ASSUME T # {} PROVE FALSE
    OBVIOUS
  <2>1. T \subseteq 0 .. n
    OBVIOUS
  <2>2. PICK k \in T : \A y \in T : k <= y
    <3> HIDE DEF T
    <3> QED
      BY <2>1, LeastBelow
  <2>3. k \in 0 .. n /\ w[k] \notin S
    OBVIOUS
  <2>4. k \in 1 .. n /\ k - 1 \in 0 .. n
    BY <2>3
  <2>5. k - 1 \notin T
    <3> HIDE DEF T
    <3> QED
      BY <2>2, <2>4
  <2>6. w[k - 1] \in S
    BY <2>4, <2>5
  <2> QED
    BY <2>3, <2>4, <2>6
<1> QED
  BY <1>1

\* Whatever repeats step g from a stays where g stays.
LEMMA IteratesStay ==
  ASSUME NEW S, NEW a \in S, NEW g \in [S -> S], NEW n \in Nat, NEW w,
         Repeats(w, a, g, n)
  PROVE  w \in [0 .. n -> S]
<1> USE DEF Repeats
<1>1. w[0] \in S
  OBVIOUS
<1>2. ASSUME NEW i \in 1 .. n, w[i - 1] \in S PROVE w[i] \in S
  <2>1. w[i] = g[w[i - 1]]
    OBVIOUS
  <2> QED
    BY <1>2, <2>1
<1>3. \A i \in 0 .. n : w[i] \in S
  BY <1>1, <1>2, StaysBelow
<1>4. w = [i \in 0 .. n |-> w[i]]
  OBVIOUS
<1> QED
  BY <1>3, <1>4

-----------------------------------------------------------------------------
(* Clusters *)

Places == {0} \cup Clusters

\* A link leads to a cluster, or ends.
LEMMA LinkType == ASSUME NEW f PROVE Link(f) \in [Places -> Places]
BY DEF Link, Places

\* A chain leads from cluster to cluster.
LEMMA FollowType ==
  ASSUME NEW f, NEW c \in Places, NEW k \in Nat
  PROVE  Follow(f, c, k) \in Places
<1> DEFINE g == Link(f)
           v == CHOOSE w : Repeats(w, c, g, k)
<1>1. g \in [Places -> Places]
  BY LinkType
<1>2. Follow(f, c, k) = v[k]
  BY DEF Follow, Repeats
<1> HIDE DEF g
<1>3. \E w : Repeats(w, c, g, k)
  BY <1>1, Iterates
<1>4. Repeats(v, c, g, k)
  BY <1>3
<1> HIDE DEF v
<1>5. v \in [0 .. k -> Places]
  BY <1>1, <1>4, IteratesStay
<1> QED
  BY <1>2, <1>5

\* What a FAT chain takes up.
LEMMA ChainType ==
  ASSUME NEW f, NEW c \in Places
  PROVE  Chain(f, c) \subseteq Clusters
<1>1. \A k \in 0 .. NClus : Follow(f, c, k) \in Places
  BY FollowType
<1> QED
  BY <1>1 DEF Chain, Places

\* The clusters are finitely many.
LEMMA ClustersFinite ==
  ASSUME NEW C, C \subseteq Clusters
  PROVE  IsFiniteSet(C) /\ Cardinality(C) \in Nat
<1>1. IsFiniteSet(Clusters)
  BY FsAssumption, FS_Interval DEF Clusters
<1> QED
  BY <1>1, FS_Subset, FS_CardinalityType

\* If there is a free cluster, alloc_cluster finds the lowest.
LEMMA FirstFree ==
  ASSUME NEW f, FreeIn(f) # {}
  PROVE  NthFree(f, 1) \in FreeIn(f) /\ NthFree(f, 1) \in Clusters
<1>1. FreeIn(f) \subseteq 0 .. NClus + 1 /\ NClus + 1 \in Nat
  BY FsAssumption DEF FreeIn, Clusters
<1>2. PICK c \in FreeIn(f) : \A y \in FreeIn(f) : c <= y
  BY <1>1, LeastBelow
<1>3. {x \in FreeIn(f) : x < c} = {}
  BY <1>1, <1>2
<1>4. Rank(f, c) = 1
  BY <1>3, FS_EmptySet DEF Rank
<1>5. NthFree(f, 1) \in FreeIn(f)
  BY <1>2, <1>4 DEF NthFree
<1> QED
  BY <1>5 DEF FreeIn

-----------------------------------------------------------------------------
(* Directories in order *)

\* What an entry may hold.
Slots == [name : Names \cup {END, DEL, ".", ".."}, dir : BOOLEAN, fst : Places, size : Nat]

\* A directory of k slots: nothing is used after the end, no name is there twice,
\* and "." and ".." are nowhere but in its first two slots.
Tidy(e, k) ==
  /\ e \in [1 .. k -> Slots]
  /\ \A i, j \in 1 .. k : i < j /\ e[i].name = END => e[j].name = END
  /\ \A i, j \in 1 .. k : e[i].name \in Names /\ e[j].name = e[i].name => i = j
  /\ \A i \in 3 .. k : e[i].name \notin {".", ".."}

\* A cluster that is read as a directory is one in order; the others are not
\* followed.
TidyData(data) ==
  /\ data = [c \in Clusters |-> data[c]]
  /\ \A c \in Clusters : data[c].ents = <<>> \/ Tidy(data[c].ents, DirSlots)

TidyDisk(d) ==
  /\ d = [boot |-> d.boot, fat |-> d.fat, root |-> d.root, data |-> d.data]
  /\ Tidy(d.root, FS_MAX_FILES) /\ TidyData(d.data)

VolumeInv == TidyDisk(disk) /\ Tidy(root, FS_MAX_FILES) /\ cwd \in Places

CwdSlots == IF cwd = 0 THEN FS_MAX_FILES ELSE DirSlots

\* A directory without entries is in order.
LEMMA BlankTidy ==
  ASSUME NEW k \in Nat PROVE Tidy(Blank(k), k)
<1>1. Empty \in Slots /\ Empty.name = END /\ END \notin Names
  BY NamesAssumption DEF Empty, Entry, Slots, Places
<1>2. Empty.name \notin {".", ".."}
  BY DEF Empty, Entry, END
<1> QED
  BY <1>1, <1>2 DEF Tidy, Blank

\* In a directory in order, find_entry_in_current overlooks no name.
LEMMA NotFound ==
  ASSUME NEW k \in Nat, NEW e, Tidy(e, k), NEW n \in Names, find_entry(e, n) = {},
         NEW j \in 1 .. k
  PROVE  e[j].name # n
<1> SUFFICES ASSUME e[j].name = n PROVE FALSE
  OBVIOUS
<1>1. END \notin Names /\ DOMAIN e = 1 .. k
  BY NamesAssumption DEF Tidy
<1>2. ASSUME NEW i \in 1 .. j - 1 PROVE e[i].name \notin {END, n}
  BY <1>1 DEF Tidy
<1>3. j \in find_entry(e, n)
  BY <1>1, <1>2 DEF find_entry
<1> QED
  BY <1>3

\* A new name in the slot find_entry_in_current hands out.
LEMMA NewEntryTidy ==
  ASSUME NEW k \in Nat, NEW e, Tidy(e, k), NEW n \in Names, find_entry(e, n) = {},
         NEW i \in free_idx(e), NEW x \in Slots, x.name = n
  PROVE  Tidy([e EXCEPT ![i] = x], k)
<1> DEFINE d == [e EXCEPT ![i] = x]
<1>1. END \notin Names /\ e \in [1 .. k -> Slots]
  BY NamesAssumption DEF Tidy
<1>2. /\ i \in 1 .. k /\ e[i].name \in {END, DEL}
      /\ \A j \in 1 .. i - 1 : e[j].name \notin {END, DEL}
  BY <1>1 DEF free_idx
<1>3. d \in [1 .. k -> Slots] /\ d[i] = x /\ \A j \in 1 .. k : j # i => d[j] = e[j]
  BY <1>1, <1>2
<1> HIDE DEF d
<1>4. ASSUME NEW p \in 1 .. k, NEW q \in 1 .. k, p < q, d[p].name = END
      PROVE  d[q].name = END
  <2>1. p # i /\ e[p].name = END
    BY <1>1, <1>3, <1>4
  <2>2. q # i
    BY <1>2, <1>4, <2>1
  <2> QED
    BY <1>3, <1>4, <2>1, <2>2 DEF Tidy
<1>5. ASSUME NEW p \in 1 .. k, NEW q \in 1 .. k, d[p].name \in Names,
             d[q].name = d[p].name
      PROVE  p = q
  <2>1. \A j \in 1 .. k : e[j].name # n
    BY NotFound
  <2>2. CASE p = i \/ q = i
    BY <1>3, <1>5, <2>1, <2>2
  <2>3. CASE p # i /\ q # i
    BY <1>3, <1>5, <2>3 DEF Tidy
  <2> QED
    BY <2>2, <2>3
<1>6. x.name \notin {".", ".."}
  BY NamesAssumption
<1>7. ASSUME NEW p \in 3 .. k PROVE d[p].name \notin {".", ".."}
  BY <1>3, <1>6 DEF Tidy
<1>8. Tidy(d, k)
  BY <1>3, <1>4, <1>5, <1>7 DEF Tidy
<1> QED
  BY <1>8 DEF d

\* An entry that is found is deleted, or changed under its name.
LEMMA FoundEntryTidy ==
  ASSUME NEW k \in Nat, NEW e, Tidy(e, k), NEW n \in Names, NEW i \in find_entry(e, n),
         NEW x \in Slots, x.name \in {n, DEL}
  PROVE  Tidy([e EXCEPT ![i] = x], k)
<1> DEFINE d == [e EXCEPT ![i] = x]
<1>1. END \notin Names /\ DEL \notin Names /\ e \in [1 .. k -> Slots] /\ END # DEL
  BY NamesAssumption DEF Tidy, END, DEL
<1>2. i \in 1 .. k /\ e[i].name = n
  BY <1>1 DEF find_entry
<1>3. d \in [1 .. k -> Slots] /\ d[i] = x /\ \A j \in 1 .. k : j # i => d[j] = e[j]
  BY <1>1, <1>2
<1> HIDE DEF d
<1>4. ASSUME NEW p \in 1 .. k, NEW q \in 1 .. k, p < q, d[p].name = END
      PROVE  d[q].name = END
  <2>1. p # i /\ e[p].name = END
    BY <1>1, <1>3, <1>4
  <2>2. q # i
    BY <1>1, <1>2, <1>4, <2>1 DEF Tidy
  <2> QED
    BY <1>3, <1>4, <2>1, <2>2 DEF Tidy
<1>5. ASSUME NEW p \in 1 .. k, NEW q \in 1 .. k, d[p].name \in Names,
             d[q].name = d[p].name
      PROVE  p = q
  <2>1. \A j \in 1 .. k : d[j].name = e[j].name \/ d[j].name = DEL
    BY <1>2, <1>3
  <2>2. e[p].name = d[p].name /\ e[q].name = d[q].name
    BY <1>1, <1>5, <2>1
  <2> QED
    BY <1>5, <2>2 DEF Tidy
<1>6. x.name \notin {".", ".."}
  BY NamesAssumption DEF DEL
<1>7. ASSUME NEW p \in 3 .. k PROVE d[p].name \notin {".", ".."}
  BY <1>3, <1>6 DEF Tidy
<1>8. Tidy(d, k)
  BY <1>3, <1>4, <1>5, <1>7 DEF Tidy
<1> QED
  BY <1>8 DEF d

-----------------------------------------------------------------------------
(* Ends of a command *)

\* An outcome with FAT f and entries e in the buffers, and a volume in order
\* with FAT x and root directory r on the disk.
Leaves(o, why, f, e, x, r) ==
  /\ TidyDisk(o.disk) /\ o.why = why /\ o.fat = f /\ o.ents = e
  /\ o.disk.fat = x /\ o.disk.root = r

NewRoot(e, d) == IF cwd = 0 THEN e ELSE d.root

\* What flush_current_dir leaves, unless it fails.
LEMMA DirFlushed ==
  ASSUME cwd \in Places, NEW f, NEW e, NEW d, TidyDisk(d), Tidy(e, CwdSlots),
         NEW o \in DirFlushes(f, e, d), o.why # "dir"
  PROVE  Leaves(o, "", f, e, d.fat, NewRoot(e, d))
<1>1. CASE cwd = 0
  <2>1. o = Outcome("", 0, f, e, [d EXCEPT !.root = e])
    <3>1. ASSUME NEW k \in DOMAIN e,
                 o = Outcome("dir", -1, f, e, [d EXCEPT !.root = Cut(d.root, e, k)])
          PROVE  FALSE
      BY <3>1 DEF Outcome
    <3> QED
      BY <1>1, <3>1 DEF DirFlushes
  <2> DEFINE b == [d EXCEPT !.root = e]
  <2>2. /\ b = [boot |-> d.boot, fat |-> d.fat, root |-> e, data |-> d.data]
    BY DEF TidyDisk
  <2> HIDE DEF b
  <2>3. TidyDisk(b) /\ b.fat = d.fat /\ b.root = e
    BY <1>1, <2>2 DEF TidyDisk, CwdSlots
  <2>4. o.disk = b /\ o.ents = e /\ o.fat = f /\ o.why = ""
    BY <2>1 DEF Outcome, b
  <2> QED
    BY <1>1, <2>3, <2>4 DEF Leaves, NewRoot
<1>2. CASE cwd # 0
  <2>1. o = Outcome("", 0, f, e, [d EXCEPT !.data[cwd] = DirSector(e)])
    <3>1. o # Outcome("dir", -1, f, e, d)
      BY DEF Outcome
    <3> QED
      BY <1>2, <3>1 DEF DirFlushes
  <2> DEFINE a == [d.data EXCEPT ![cwd] = DirSector(e)]
             b == [d EXCEPT !.data[cwd] = DirSector(e)]
  <2>2. b = [boot |-> d.boot, fat |-> d.fat, root |-> d.root, data |-> a]
    BY DEF TidyDisk
  <2>3. TidyData(a)
    <3>1. cwd \in Clusters /\ DirSector(e).ents = e
      BY <1>2 DEF Places, DirSector
    <3>2. d.data = [c \in Clusters |-> d.data[c]]
      BY DEF TidyDisk, TidyData
    <3>3. a = [c \in Clusters |-> IF c = cwd THEN DirSector(e) ELSE d.data[c]]
      BY <3>1, <3>2
    <3> HIDE DEF a
    <3>4. a = [c \in Clusters |-> a[c]]
      BY <3>3
    <3>5. ASSUME NEW c \in Clusters PROVE a[c].ents = <<>> \/ Tidy(a[c].ents, DirSlots)
      BY <1>2, <3>1, <3>3 DEF TidyDisk, TidyData, CwdSlots
    <3> QED
      BY <3>4, <3>5 DEF TidyData
  <2> HIDE DEF a, b
  <2>4. TidyDisk(b) /\ b.fat = d.fat /\ b.root = d.root
    BY <2>2, <2>3 DEF TidyDisk
  <2>5. o.disk = b /\ o.ents = e /\ o.fat = f /\ o.why = ""
    BY <2>1 DEF Outcome, b
  <2> QED
    BY <1>2, <2>4, <2>5 DEF Leaves, NewRoot
<1> QED
  BY <1>1, <1>2

\* What flush_fat and flush_current_dir leave, unless the latter fails.
LEMMA Committed ==
  ASSUME cwd \in Places, NEW f, NEW e, NEW d, TidyDisk(d), Tidy(e, CwdSlots),
         NEW o \in Commit(f, e, d), o.why # "dir"
  PROVE  \/ Leaves(o, "", f, e, f, NewRoot(e, d))
         \/ \E x : Leaves(o, "fat", f, e, x, d.root)
<1>1. PICK p \in FatFlushes(f, e, d) :
        o \in IF p.rc # 0 THEN {p} ELSE DirFlushes(f, e, p.disk)
  BY DEF Commit
<1>2. PICK x : /\ p.disk = [d EXCEPT !.fat = x] /\ p.fat = f /\ p.ents = e
               /\ (p.why = "" /\ p.rc = 0 /\ x = f) \/ (p.why = "fat" /\ p.rc = -1)
  <2>1. CASE p = Outcome("", 0, f, e, [d EXCEPT !.fat = f])
    BY <2>1 DEF Outcome
  <2>2. ASSUME NEW k \in Clusters,
               p = Outcome("fat", -1, f, e, [d EXCEPT !.fat = Cut(d.fat, f, k)])
        PROVE  \E x : /\ p.disk = [d EXCEPT !.fat = x] /\ p.fat = f /\ p.ents = e
                      /\ p.why = "fat" /\ p.rc = -1
    BY <2>2 DEF Outcome
  <2> QED
    BY <2>1, <2>2 DEF FatFlushes
<1>3. TidyDisk(p.disk) /\ p.disk.fat = x /\ p.disk.root = d.root
  <2>1. p.disk = [boot |-> d.boot, fat |-> x, root |-> d.root, data |-> d.data]
    BY <1>2 DEF TidyDisk
  <2> QED
    BY <2>1 DEF TidyDisk
<1>4. CASE p.why = "fat"
  <2>1. o = p
    BY <1>1, <1>2, <1>4
  <2> QED
    BY <1>2, <1>3, <1>4, <2>1 DEF Leaves
<1>5. CASE p.why = ""
  <2>1. o \in DirFlushes(f, e, p.disk) /\ x = f
    BY <1>1, <1>2, <1>5
  <2> DEFINE b == p.disk
  <2>2. o \in DirFlushes(f, e, b) /\ TidyDisk(b) /\ b.fat = f /\ b.root = d.root
    BY <1>3, <2>1
  <2> HIDE DEF b
  <2>3. Leaves(o, "", f, e, b.fat, NewRoot(e, b))
    BY <2>2, DirFlushed
  <2> QED
    BY <2>2, <2>3 DEF NewRoot
<1> QED
  BY <1>2, <1>4, <1>5

\* An outcome that leaves the volume in order, and one whose buffers are on the
\* disk.
Good(o) == /\ TidyDisk(o.disk) /\ Tidy(o.ents, CwdSlots)
           /\ o.why \in {"", "data", "read", "fat"}
Flushed(o) == o.disk.fat = o.fat /\ o.disk.root = NewRoot(o.ents, disk)

\* Both, of what a command with FAT f and entries e commits to disk d.
LEMMA CommitGood ==
  ASSUME cwd \in Places, NEW f, NEW e, NEW d, TidyDisk(d), Tidy(e, CwdSlots),
         d.root = disk.root, NEW o \in Commit(f, e, d), o.why # "dir"
  PROVE  Good(o) /\ (o.why = "" => Flushed(o))
<1>1. CASE Leaves(o, "", f, e, f, NewRoot(e, d))
  BY <1>1 DEF Leaves, Good, Flushed, NewRoot
<1>2. ASSUME NEW x, Leaves(o, "fat", f, e, x, d.root)
      PROVE  Good(o) /\ o.why # ""
  BY <1>2 DEF Leaves, Good
<1> QED
  BY <1>1, <1>2, Committed

\* A command with outcomes in order keeps the volume in order.
LEMMA Finished ==
  ASSUME VolumeInv, "crash" \notin Scope, "dir" \notin Scope, NEW O, Finish(O),
         \A o \in O : o.why # "dir" => Good(o)
  PROVE  VolumeInv'
<1>1. PICK o \in O : Return(o)
  BY DEF Finish
<1>2. /\ o.why \in Scope \cup {""} /\ disk' = o.disk /\ cwd' = cwd
      /\ root' = IF cwd = 0 THEN o.ents ELSE root
  BY <1>1 DEF Return
<1>3. o.why # "dir"
  BY <1>2
<1>4. TidyDisk(o.disk) /\ Tidy(o.ents, CwdSlots)
  BY <1>3 DEF Good
<1>5. TidyDisk(disk')
  BY <1>2, <1>4
<1>6. Tidy(root', FS_MAX_FILES)
  BY <1>2, <1>4 DEF VolumeInv, CwdSlots
<1>7. cwd' \in Places
  BY <1>2 DEF VolumeInv
<1> QED
  BY <1>5, <1>6, <1>7 DEF VolumeInv

\* The faults that end a command with the buffers ahead of the disk.
Quiet == Scope \cap {"full", "crash", "read", "data", "fat", "dir"} = {}

\* The buffers are what is on the disk.
Synced == fs_ready => fat = disk.fat /\ root = disk.root

\* A command that ends with its buffers on the disk.
LEMMA FinishedSynced ==
  ASSUME Quiet, Synced, fs_ready, NEW O, Finish(O),
         \A o \in O : o.why # "dir" => Good(o) /\ (o.why = "" => Flushed(o))
  PROVE  Synced'
<1>1. PICK o \in O : Return(o)
  BY DEF Finish, Quiet
<1>2. /\ o.why \in Scope \cup {""} /\ disk' = o.disk /\ fat' = o.fat
      /\ root' = IF cwd = 0 THEN o.ents ELSE root
  BY <1>1 DEF Return
<1>3. o.why # "dir" /\ Flushed(o)
  <2>1. o.why # "dir"
    BY <1>2 DEF Quiet
  <2>2. o.why = ""
    BY <1>2, <2>1 DEF Quiet, Good
  <2> QED
    BY <2>1, <2>2
<1>4. o.disk.fat = o.fat /\ o.disk.root = IF cwd = 0 THEN o.ents ELSE disk.root
  BY <1>3 DEF Flushed, NewRoot
<1>5. root' = o.disk.root
  BY <1>2, <1>4 DEF Synced
<1>6. fat' = o.disk.fat
  BY <1>2, <1>4
<1> QED
  BY <1>2, <1>5, <1>6 DEF Synced

-----------------------------------------------------------------------------
(* Writing a file *)

\* The data area with another sector in one cluster is still in order.
LEMMA WrittenTidy ==
  ASSUME NEW d, TidyData(d), NEW f, NEW t, NEW k
  PROVE  TidyData(Written(f, d, t, k))
<1> DEFINE w == Written(f, d, t, k)
<1>1. w = [c \in Clusters |-> IF c \in FreeIn(f) /\ Rank(f, c) <= k
                              THEN Piece(t, Rank(f, c)) ELSE d[c]]
  BY DEF Written
<1> HIDE DEF w
<1>2. w = [c \in Clusters |-> w[c]]
  BY <1>1
<1>3. ASSUME NEW c \in Clusters PROVE w[c].ents = <<>> \/ Tidy(w[c].ents, DirSlots)
  <2>1. w[c] = d[c] \/ \E i : w[c] = Piece(t, i)
    BY <1>1
  <2>2. \A i : Piece(t, i).ents = <<>>
    BY DEF Piece, FileSector
  <2> QED
    BY <2>1, <2>2 DEF TidyData
<1>4. TidyData(w)
  BY <1>2, <1>3 DEF TidyData
<1> QED
  BY <1>4 DEF w

\* A disk with other data on it.
LEMMA DiskWithData ==
  ASSUME NEW d, TidyDisk(d), NEW a, TidyData(a)
  PROVE  TidyDisk([d EXCEPT !.data = a]) /\ [d EXCEPT !.data = a].root = d.root
<1> DEFINE b == [d EXCEPT !.data = a]
<1>1. b = [boot |-> d.boot, fat |-> d.fat, root |-> d.root, data |-> a]
  BY DEF TidyDisk
<1> HIDE DEF b
<1>2. TidyDisk(b) /\ b.root = d.root
  BY <1>1 DEF TidyDisk
<1> QED
  BY <1>2 DEF b

\* What the user writes has a length.
IsText(t) == Len(t) \in Nat /\ (t # <<>> => Len(t) > 0)

LEMMA SeqIsText ==
  ASSUME NEW S, NEW t \in Seq(S) PROVE IsText(t)
BY DEF IsText

\* A text that is not empty needs a cluster.
LEMMA CeilPositive ==
  ASSUME NEW l \in Nat, NEW b \in Nat \ {0}
  PROVE  (l + b - 1) \div b \in Nat /\ (l > 0 => (l + b - 1) \div b >= 1)
OBVIOUS

LEMMA NeedPositive ==
  ASSUME NEW t, IsText(t)
  PROVE  Need(t) \in Nat /\ (t # <<>> => Need(t) >= 1)
<1>1. Len(t) \in Nat /\ SectorBytes \in Nat \ {0}
  BY FsAssumption DEF IsText
<1>2. Need(t) = (Len(t) + SectorBytes - 1) \div SectorBytes
  BY DEF Need
<1> DEFINE l == Len(t)
<1> HIDE DEF l
<1>3. l \in Nat /\ (t # <<>> => l > 0)
  BY DEF l, IsText
<1>4. Need(t) = (l + SectorBytes - 1) \div SectorBytes
  BY <1>2 DEF l
<1> QED
  BY <1>1, <1>3, <1>4, CeilPositive

\* An entry whose clusters and size may change.
Writable(e, i, x) ==
  \A c \in Places, s \in Nat :
    Tidy([e EXCEPT ![i] = [x EXCEPT !.fst = c, !.size = s]], CwdSlots)

\* fs_write_raw leaves the volume in order, and what it has done on the disk if
\* there was room.
LEMMA WriteOutGood ==
  ASSUME cwd \in Places, TidyDisk(disk), NEW f, NEW e, NEW i, NEW x \in Slots,
         Writable(e, i, x), NEW t, IsText(t), NEW o \in WriteOut(f, e, i, x, t),
         o.why # "dir"
  PROVE  /\ Good(o)
         /\ o.why = "" /\ Need(t) <= Cardinality(FreeIn(f)) => Flushed(o)
<1> DEFINE room == Cardinality(FreeIn(f))
           lost == [e EXCEPT ![i] = [x EXCEPT !.fst = 0]]
           b(k) == [disk EXCEPT !.data = Written(f, disk.data, t, k)]
           u == [x EXCEPT !.fst = IF t = <<>> THEN 0 ELSE NthFree(f, 1), !.size = Len(t)]
           done == [e EXCEPT ![i] = u]
<1>1. room \in Nat /\ Need(t) \in Nat
  BY ClustersFinite, NeedPositive DEF FreeIn
<1>2. \A k : TidyDisk(b(k)) /\ b(k).root = disk.root
  BY WrittenTidy, DiskWithData DEF TidyDisk
<1>3. Tidy(lost, CwdSlots)
  <2>1. [x EXCEPT !.fst = 0] = [x EXCEPT !.fst = 0, !.size = x.size]
    BY DEF Slots
  <2>2. 0 \in Places /\ x.size \in Nat
    BY DEF Places, Slots
  <2> QED
    BY <2>1, <2>2 DEF Writable
<1>4. \/ \E k : o = Outcome("data", -1, f, lost, b(k))
      \/ /\ Need(t) > room /\ o = Outcome("", -1, f, lost, b(room))
      \/ /\ ~(Need(t) > room)
         /\ o \in Commit(Linked(f, Need(t)), done, b(Need(t)))
  BY DEF WriteOut
<1>5. ASSUME NEW k, NEW w \in {"", "data"}, o = Outcome(w, -1, f, lost, b(k))
      PROVE  Good(o) /\ o.why = w
  <2>1. o.why = w /\ o.ents = lost /\ o.disk = b(k)
    BY <1>5 DEF Outcome
  <2> QED
    BY <1>2, <1>3, <2>1 DEF Good
<1>6. ASSUME ~(Need(t) > room), o \in Commit(Linked(f, Need(t)), done, b(Need(t)))
      PROVE  Good(o) /\ (o.why = "" => Flushed(o))
  <2>1. t # <<>> => NthFree(f, 1) \in Clusters
    <3> SUFFICES ASSUME t # <<>> PROVE NthFree(f, 1) \in Clusters
      OBVIOUS
    <3>1. room # 0
      BY <1>1, <1>6, NeedPositive
    <3>2. FreeIn(f) # {}
      BY <3>1, FS_EmptySet
    <3> QED
      BY <3>2, FirstFree
  <2>2. Tidy(done, CwdSlots)
    <3>1. (IF t = <<>> THEN 0 ELSE NthFree(f, 1)) \in Places /\ Len(t) \in Nat
      BY <2>1 DEF Places, IsText
    <3> QED
      BY <3>1 DEF Writable
  <2>3. TidyDisk(b(Need(t))) /\ b(Need(t)).root = disk.root
    BY <1>2
  <2> HIDE DEF b, done, lost, room
  <2> QED
    BY <1>6, <2>2, <2>3, CommitGood
<1> HIDE DEF b, done, lost, room
<1>7. Good(o)
  BY <1>4, <1>5, <1>6
<1>8. ASSUME o.why = "", Need(t) <= room PROVE Flushed(o)
  <2>1. \A p, q \in Nat : p <= q => ~(p > q)
    OBVIOUS
  <2>2. ~(Need(t) > room)
    BY <1>1, <1>8, <2>1
  <2> QED
    BY <1>4, <1>5, <1>6, <1>8, <2>2
<1> QED
  BY <1>7, <1>8 DEF room

-----------------------------------------------------------------------------
(* Commands *)

\* A directory that can be read is in order.
LEMMA EntriesTidy ==
  ASSUME TidyDisk(disk), Tidy(root, FS_MAX_FILES), NEW d \in Places,
         EntriesOf(root, disk.data, d) # <<>>
  PROVE  Tidy(EntriesOf(root, disk.data, d), IF d = 0 THEN FS_MAX_FILES ELSE DirSlots)
BY DEF EntriesOf, TidyDisk, TidyData, Places

LEMMA CwdTidy ==
  ASSUME VolumeInv, Followed
  PROVE  Tidy(current_dir_entries, CwdSlots) /\ CwdSlots \in Nat
<1>1. CwdSlots \in Nat
  BY FsAssumption DEF CwdSlots
<1> QED
  BY <1>1, EntriesTidy DEF VolumeInv, Followed, current_dir_entries, CwdSlots

\* An entry that is found is one of the directory.
LEMMA FoundSlot ==
  ASSUME NEW k \in Nat, NEW e, Tidy(e, k), NEW n \in Names, NEW i \in find_entry(e, n)
  PROVE  e[i] \in Slots /\ e[i].name = n /\ find_entry(e, n) = {i}
<1>1. END \notin Names /\ e \in [1 .. k -> Slots]
  BY NamesAssumption DEF Tidy
<1>2. i \in 1 .. k /\ e[i].name = n
  BY <1>1 DEF find_entry
<1>3. ASSUME NEW j \in find_entry(e, n) PROVE j = i
  BY <1>1, <1>2 DEF Tidy, find_entry
<1> QED
  BY <1>1, <1>2, <1>3

\* What every command keeps, and, without faults, that the disk is up to date.
Keeps == VolumeInv' /\ (Quiet /\ Synced => Synced')

\* A command that refuses.
LEMMA Refused ==
  ASSUME VolumeInv, NEW rc, Refuse(rc)
  PROVE  Keeps
BY DEF Refuse, VolumeInv, Synced, Keeps

\* A command that ends well.
LEMMA Completed ==
  ASSUME VolumeInv, fs_ready, "crash" \notin Scope, "dir" \notin Scope, NEW O, Finish(O),
         \A o \in O : o.why # "dir" =>
           Good(o) /\ (o.why = "" /\ Quiet /\ Synced => Flushed(o))
  PROVE  Keeps
<1>1. VolumeInv'
  BY Finished
<1>2. ASSUME Quiet, Synced PROVE Synced'
  BY <1>2, FinishedSynced
<1> QED
  BY <1>1, <1>2 DEF Keeps

LEMMA TouchKeeps ==
  ASSUME VolumeInv, "crash" \notin Scope, "dir" \notin Scope, NEW n \in Names, fs_touch(n)
  PROVE  Keeps
<1> DEFINE e == current_dir_entries
<1>1. fs_ready /\ Tidy(e, CwdSlots) /\ CwdSlots \in Nat
  BY CwdTidy DEF fs_touch
<1>2. CASE \E rc : Refuse(rc)
  BY <1>2, Refused
<1>3. ASSUME find_entry(e, n) = {}, NEW i \in free_idx(e),
             Finish(DirFlushes(fat, [e EXCEPT ![i] = Entry(n, FALSE, 0, 0)], disk))
      PROVE  Keeps
  <2> DEFINE x == Entry(n, FALSE, 0, 0)
             u == [e EXCEPT ![i] = x]
             O == DirFlushes(fat, u, disk)
  <2>1. x \in Slots /\ x.name = n
    BY DEF Entry, Slots, Places
  <2>2. Tidy(u, CwdSlots)
    <3> HIDE DEF e, x
    <3> QED
      BY <1>1, <1>3, <2>1, NewEntryTidy
  <2> HIDE DEF u
  <2>3. ASSUME NEW o \in O, o.why # "dir"
        PROVE  Good(o) /\ (o.why = "" /\ Quiet /\ Synced => Flushed(o))
    <3>1. Leaves(o, "", fat, u, disk.fat, NewRoot(u, disk))
      BY <2>2, <2>3, DirFlushed DEF VolumeInv
    <3> QED
      BY <1>1, <2>2, <3>1 DEF Leaves, Good, Flushed, Synced
  <2>4. Finish(O)
    BY <1>3 DEF u
  <2> HIDE DEF O
  <2> QED
    BY <1>1, <2>3, <2>4, Completed
<1> QED
  BY <1>2, <1>3 DEF fs_touch

\* rm, and rmdir once it has found the directory empty.
LEMMA DeleteKeeps ==
  ASSUME VolumeInv, "crash" \notin Scope, "dir" \notin Scope, NEW n \in Names,
         fs_ready, Followed, NEW i \in find_entry(current_dir_entries, n),
         Finish(Commit(free_chain(fat, current_dir_entries[i].fst),
                       [current_dir_entries EXCEPT ![i] = Deleted], disk))
  PROVE  Keeps
<1> DEFINE e == current_dir_entries
           u == [e EXCEPT ![i] = Deleted]
           f == free_chain(fat, e[i].fst)
           O == Commit(f, u, disk)
<1>1. Tidy(e, CwdSlots) /\ CwdSlots \in Nat
  BY CwdTidy
<1>2. Deleted \in Slots /\ Deleted.name = DEL
  BY DEF Deleted, Entry, Slots, Places
<1>3. Tidy(u, CwdSlots)
  <2>1. i \in find_entry(e, n)
    OBVIOUS
  <2> HIDE DEF e
  <2> QED
    BY <1>1, <1>2, <2>1, FoundEntryTidy
<1>4. Finish(O)
  OBVIOUS
<1> HIDE DEF e, u, f
<1>5. ASSUME NEW o \in O, o.why # "dir"
      PROVE  Good(o) /\ (o.why = "" /\ Quiet /\ Synced => Flushed(o))
  BY <1>3, <1>5, CommitGood DEF VolumeInv
<1> HIDE DEF O
<1> QED
  BY <1>4, <1>5, Completed

LEMMA RemoveKeeps ==
  ASSUME VolumeInv, "crash" \notin Scope, "dir" \notin Scope, NEW n \in Names, fs_remove(n)
  PROVE  Keeps
BY Refused, DeleteKeeps DEF fs_remove

LEMMA RmdirKeeps ==
  ASSUME VolumeInv, "crash" \notin Scope, "dir" \notin Scope, NEW n \in Names, fs_rmdir(n)
  PROVE  Keeps
BY Refused, DeleteKeeps DEF fs_rmdir

\* The clusters a file gives back are free for what is written to it next.
LEMMA FreedRoom ==
  ASSUME NEW f, NEW c \in Places
  PROVE  FreeIn(free_chain(f, c)) = FreeIn(f) \cup Chain(f, c)
<1> DEFINE C == Chain(f, c)
<1>1. C \subseteq Clusters
  BY ChainType
<1>2. free_chain(f, c) = [x \in Clusters |-> IF x \in C THEN FREE ELSE f[x]]
  BY DEF free_chain
<1> HIDE DEF C
<1>3. FreeIn(free_chain(f, c)) = {x \in Clusters : x \in C \/ f[x] = FREE}
  BY <1>2 DEF FreeIn
<1> QED
  BY <1>1, <1>3 DEF FreeIn, C

\* An entry under its name may be given other clusters and another size.
LEMMA FoundWritable ==
  ASSUME NEW e, Tidy(e, CwdSlots), CwdSlots \in Nat, NEW n \in Names,
         NEW i \in find_entry(e, n)
  PROVE  Writable(e, i, e[i])
<1>1. e[i] \in Slots /\ e[i].name = n
  BY FoundSlot
<1> DEFINE k == CwdSlots
<1> HIDE DEF k
<1>2. ASSUME NEW c \in Places, NEW s \in Nat
      PROVE  Tidy([e EXCEPT ![i] = [e[i] EXCEPT !.fst = c, !.size = s]], k)
  <2> DEFINE x == [e[i] EXCEPT !.fst = c, !.size = s]
  <2>1. x \in Slots /\ x.name \in {n, DEL}
    BY <1>1 DEF Slots
  <2> HIDE DEF x
  <2>2. Tidy([e EXCEPT ![i] = x], k)
    BY <2>1, FoundEntryTidy DEF k
  <2> QED
    BY <2>2 DEF x
<1> QED
  BY <1>2 DEF Writable, k

LEMMA NewWritable ==
  ASSUME NEW e, Tidy(e, CwdSlots), CwdSlots \in Nat, NEW n \in Names,
         find_entry(e, n) = {}, NEW i \in free_idx(e)
  PROVE  Writable(e, i, Entry(n, FALSE, 0, 0))
<1> DEFINE k == CwdSlots
           z == Entry(n, FALSE, 0, 0)
<1>1. z \in Slots /\ z.name = n
  BY DEF Entry, Slots, Places
<1> HIDE DEF k, z
<1>2. ASSUME NEW c \in Places, NEW s \in Nat
      PROVE  Tidy([e EXCEPT ![i] = [z EXCEPT !.fst = c, !.size = s]], k)
  <2> DEFINE x == [z EXCEPT !.fst = c, !.size = s]
  <2>1. x \in Slots /\ x.name = n
    BY <1>1 DEF Slots
  <2> HIDE DEF x
  <2>2. Tidy([e EXCEPT ![i] = x], k)
    BY <2>1, NewEntryTidy DEF k
  <2> QED
    BY <2>2 DEF x
<1> QED
  BY <1>2 DEF Writable, k, z

\* One write of text t to entry i.
LEMMA WriteOutKeeps ==
  ASSUME VolumeInv, fs_ready, "crash" \notin Scope, "dir" \notin Scope,
         NEW f, NEW e, NEW i, NEW x \in Slots, Writable(e, i, x), NEW t, IsText(t),
         Quiet => Need(t) <= Cardinality(FreeIn(f)), Finish(WriteOut(f, e, i, x, t))
  PROVE  Keeps
<1> DEFINE O == WriteOut(f, e, i, x, t)
<1>1. ASSUME NEW o \in O, o.why # "dir"
      PROVE  Good(o) /\ (o.why = "" /\ Quiet /\ Synced => Flushed(o))
  <2>1. /\ Good(o)
        /\ o.why = "" /\ Need(t) <= Cardinality(FreeIn(f)) => Flushed(o)
    BY <1>1, WriteOutGood DEF VolumeInv
  <2> QED
    BY <2>1
<1>2. Finish(O)
  OBVIOUS
<1> HIDE DEF O
<1> QED
  BY <1>1, <1>2, Completed

\* fs_write_raw.
LEMMA WriteRawKeeps ==
  ASSUME VolumeInv, fs_ready, Followed, "crash" \notin Scope, "dir" \notin Scope,
         NEW n \in Names, NEW t, IsText(t), fs_write_raw(n, t)
  PROVE  Keeps
<1> DEFINE e == current_dir_entries
<1>1. Tidy(e, CwdSlots) /\ CwdSlots \in Nat
  BY CwdTidy
<1>2. CASE \E rc : Refuse(rc)
  BY <1>2, Refused
<1>3. Quiet => Room(e, n, t)
  BY DEF fs_write_raw, Quiet
<1>4. CASE Rewrite(e, n, t)
  <2> HIDE DEF e
  <2>1. ASSUME NEW i \in find_entry(e, n),
               Finish(WriteOut(free_chain(fat, e[i].fst), e, i, e[i], t))
        PROVE  Keeps
    <3> DEFINE f == free_chain(fat, e[i].fst)
    <3>1. e[i] \in Slots /\ find_entry(e, n) = {i}
      BY <1>1, FoundSlot
    <3>2. e[i].fst \in Places
      BY <3>1 DEF Slots
    <3>3. Room(e, n, t) => Need(t) <= Cardinality(FreeIn(f))
      <4>1. UNION {Chain(fat, e[j].fst) : j \in find_entry(e, n)} = Chain(fat, e[i].fst)
        BY <3>1
      <4>2. FreeIn(f) = FreeIn(fat) \cup Chain(fat, e[i].fst)
        BY <3>2, FreedRoom
      <4> HIDE DEF f
      <4> QED
        BY <4>1, <4>2 DEF Room
    <3>4. Writable(e, i, e[i])
      BY <1>1, FoundWritable
    <3>5. Finish(WriteOut(f, e, i, e[i], t))
      BY <2>1
    <3> HIDE DEF f
    <3> QED
      BY <1>3, <3>1, <3>3, <3>4, <3>5, WriteOutKeeps
  <2>2. ASSUME find_entry(e, n) = {}, NEW i \in free_idx(e),
               Finish(WriteOut(fat, e, i, Entry(n, FALSE, 0, 0), t))
        PROVE  Keeps
    <3> DEFINE z == Entry(n, FALSE, 0, 0)
    <3>1. z \in Slots
      BY DEF Entry, Slots, Places
    <3>2. Room(e, n, t) => Need(t) <= Cardinality(FreeIn(fat))
      <4>1. FreeIn(fat) \cup UNION {Chain(fat, e[j].fst) : j \in find_entry(e, n)} = FreeIn(fat)
        BY <2>2
      <4> QED
        BY <4>1 DEF Room
    <3>3. Writable(e, i, z)
      BY <1>1, <2>2, NewWritable
    <3>4. Finish(WriteOut(fat, e, i, z, t))
      BY <2>2
    <3> HIDE DEF z
    <3> QED
      BY <1>3, <3>1, <3>2, <3>3, <3>4, WriteOutKeeps
  <2> QED
    BY <1>4, <2>1, <2>2 DEF Rewrite
<1> QED
  BY <1>2, <1>4 DEF fs_write_raw

LEMMA TextsAreTexts == ASSUME NEW t \in Texts PROVE IsText(t)
<1>1. t \in Seq({t[i] : i \in 1 .. Len(t)})
  BY NamesAssumption
<1> QED
  BY <1>1, SeqIsText

LEMMA WriteKeeps ==
  ASSUME VolumeInv, "crash" \notin Scope, "dir" \notin Scope, NEW n \in Names,
         NEW t \in Texts, fs_write(n, t)
  PROVE  Keeps
BY TextsAreTexts, WriteRawKeeps DEF fs_write

\* What load_cluster_chain yields is a sequence.
LEMMA LoadIsSeq ==
  ASSUME NEW f, NEW d, NEW c \in Places, NEW s \in Nat
  PROVE  \E S : Load(f, d, c, s) \in Seq(S)
<1> DEFINE want == IF s > FS_MAX_FILE_SIZE THEN FS_MAX_FILE_SIZE ELSE s
           have == Cardinality(Chain(f, c)) * SectorBytes
           m == IF want < have THEN want ELSE have
           B(i) == d[Follow(f, c, (i - 1) \div SectorBytes)].bytes[((i - 1) % SectorBytes) + 1]
<1>1. have \in Nat
  <2>1. Cardinality(Chain(f, c)) \in Nat /\ SectorBytes \in Nat
    BY FsAssumption, ChainType, ClustersFinite
  <2> QED
    BY <2>1
<1>2. want \in Nat
  BY FsAssumption
<1>3. m \in Nat
  <2> HIDE DEF want, have
  <2> QED
    BY <1>1, <1>2
<1>4. Load(f, d, c, s) = [i \in 1 .. m |-> B(i)]
  BY DEF Load
<1> HIDE DEF m, B
<1>5. [i \in 1 .. m |-> B(i)] \in Seq({B(i) : i \in 1 .. m})
  BY <1>3
<1> QED
  BY <1>4, <1>5

\* append.
LEMMA AppendKeeps ==
  ASSUME VolumeInv, "crash" \notin Scope, "dir" \notin Scope, NEW n \in Names,
         NEW t \in Texts, fs_append(n, t)
  PROVE  Keeps
<1> DEFINE e == current_dir_entries
           Old == {Load(fat, disk.data, e[i].fst, e[i].size) : i \in find_entry(e, n)}
<1>1. fs_ready /\ Followed /\ Tidy(e, CwdSlots) /\ CwdSlots \in Nat
  BY CwdTidy DEF fs_append
<1>2. PICK old \in Old \cup {<<>>} : fs_write_raw(n, old \o t)
  BY DEF fs_append
<1>3. \E S : old \in Seq(S)
  <2>1. ASSUME NEW i \in find_entry(e, n), old = Load(fat, disk.data, e[i].fst, e[i].size)
        PROVE  \E S : old \in Seq(S)
    <3> HIDE DEF e
    <3>1. e[i].fst \in Places /\ e[i].size \in Nat
      BY <1>1, FoundSlot DEF Slots
    <3> QED
      BY <2>1, <3>1, LoadIsSeq
  <2>2. CASE old = <<>>
    <3>1. old \in Seq({})
      BY <2>2
    <3> QED
      BY <3>1
  <2> QED
    BY <2>1, <2>2
<1>4. PICK S : old \in Seq(S)
  BY <1>3
<1> DEFINE R == {t[i] : i \in 1 .. Len(t)}
           U == S \cup R
<1>5. t \in Seq(R)
  BY NamesAssumption
<1> HIDE DEF R
<1>6. old \in Seq(U) /\ t \in Seq(U)
  BY <1>4, <1>5
<1> HIDE DEF U
<1>7. old \o t \in Seq(U)
  BY <1>6
<1>8. IsText(old \o t)
  BY <1>7, SeqIsText
<1> QED
  BY <1>1, <1>2, <1>8, WriteRawKeeps

\* The entries mkdir gives a new directory are in order.
LEMMA DotsTidy ==
  ASSUME NEW c \in Clusters, NEW q \in Places
  PROVE  Tidy([Blank(DirSlots) EXCEPT ![1] = Entry(".", TRUE, c, 0),
                                      ![2] = Entry("..", TRUE, q, 0)], DirSlots)
<1> DEFINE x == Entry(".", TRUE, c, 0)
           y == Entry("..", TRUE, q, 0)
           u == [Blank(DirSlots) EXCEPT ![1] = x, ![2] = y]
<1>1. /\ DirSlots \in Nat /\ DirSlots >= 2
      /\ END \notin Names /\ "." \notin Names /\ ".." \notin Names
  <2>1. DirSlots \in Nat /\ DirSlots >= 2
    BY FsAssumption
  <2>2. END \notin Names /\ "." \notin Names /\ ".." \notin Names
    BY NamesAssumption
  <2> QED
    BY <2>1, <2>2
<1>2. /\ x \in Slots /\ y \in Slots /\ Empty \in Slots /\ Empty.name = END
      /\ x.name = "." /\ y.name = ".."
  BY DEF Entry, Slots, Places, Empty
<1>3. x.name # END /\ y.name # END
  BY <1>2 DEF END
<1> HIDE DEF x, y
<1>4. u = [i \in 1 .. DirSlots |-> IF i = 1 THEN x ELSE IF i = 2 THEN y ELSE Empty]
  BY <1>1 DEF Blank
<1> HIDE DEF u
<1>5. u \in [1 .. DirSlots -> Slots]
  BY <1>2, <1>4
<1>6. \A i \in 1 .. DirSlots : u[i].name \notin Names
  BY <1>1, <1>2, <1>4
<1>7. ASSUME NEW i \in 1 .. DirSlots, NEW j \in 1 .. DirSlots, i < j, u[i].name = END
      PROVE  u[j].name = END
  <2>1. i # 1 /\ i # 2
    BY <1>3, <1>4, <1>7
  <2>2. j # 1 /\ j # 2
    BY <1>1, <1>7, <2>1
  <2> QED
    BY <1>2, <1>4, <2>2
<1>8. Empty.name \notin {".", ".."}
  BY DEF Empty, Entry, END
<1>9. ASSUME NEW i \in 3 .. DirSlots PROVE u[i].name \notin {".", ".."}
  BY <1>1, <1>4, <1>8
<1>10. Tidy(u, DirSlots)
  BY <1>5, <1>6, <1>7, <1>9 DEF Tidy
<1> QED
  BY <1>10 DEF u, x, y

\* A disk with one sector replaced by a directory in order.
LEMMA DiskWithDir ==
  ASSUME NEW d, TidyDisk(d), NEW c \in Clusters, NEW u, Tidy(u, DirSlots)
  PROVE  /\ TidyDisk([d EXCEPT !.data[c] = DirSector(u)])
         /\ [d EXCEPT !.data[c] = DirSector(u)].root = d.root
<1> DEFINE a == [d.data EXCEPT ![c] = DirSector(u)]
           b == [d EXCEPT !.data[c] = DirSector(u)]
<1>1. b = [boot |-> d.boot, fat |-> d.fat, root |-> d.root, data |-> a]
  BY DEF TidyDisk
<1>2. TidyData(a)
  <2>1. d.data = [z \in Clusters |-> d.data[z]]
    BY DEF TidyDisk, TidyData
  <2>2. a = [z \in Clusters |-> IF z = c THEN DirSector(u) ELSE d.data[z]]
    BY <2>1
  <2> HIDE DEF a
  <2>3. a = [z \in Clusters |-> a[z]]
    BY <2>2
  <2>4. DirSector(u).ents = u
    BY DEF DirSector
  <2>5. ASSUME NEW z \in Clusters PROVE a[z].ents = <<>> \/ Tidy(a[z].ents, DirSlots)
    BY <2>2, <2>4 DEF TidyDisk, TidyData
  <2> QED
    BY <2>3, <2>5 DEF TidyData
<1> HIDE DEF a, b
<1>3. TidyDisk(b) /\ b.root = d.root
  BY <1>1, <1>2 DEF TidyDisk
<1> QED
  BY <1>3 DEF b

LEMMA MkdirKeeps ==
  ASSUME VolumeInv, "crash" \notin Scope, "dir" \notin Scope, NEW n \in Names, fs_mkdir(n)
  PROVE  Keeps
<1> DEFINE e == current_dir_entries
           c == NthFree(fat, 1)
           dots == [Blank(DirSlots) EXCEPT ![1] = Entry(".", TRUE, c, 0),
                                           ![2] = Entry("..", TRUE, cwd, 0)]
           made == [disk EXCEPT !.data[c] = DirSector(dots)]
           f == Claim(fat, c)
           u(i) == [e EXCEPT ![i] = Entry(n, TRUE, c, 0)]
           O(i) == {Outcome("data", -1, fat, e, disk)} \cup
                   {Outcome("read", -1, f, e, made) : x \in {cwd} \ {0}} \cup
                   Commit(f, u(i), made)
<1>1. fs_ready /\ Tidy(e, CwdSlots) /\ CwdSlots \in Nat
  BY CwdTidy DEF fs_mkdir
<1>2. CASE \E rc : Refuse(rc)
  BY <1>2, Refused
<1>3. ASSUME find_entry(e, n) = {}, FreeIn(fat) # {}, NEW i \in free_idx(e), Finish(O(i))
      PROVE  Keeps
  <2>1. c \in Clusters
    BY <1>3, FirstFree
  <2>2. TidyDisk(made) /\ made.root = disk.root
    <3> HIDE DEF c
    <3>1. Tidy(dots, DirSlots)
      BY <2>1, DotsTidy DEF VolumeInv
    <3> HIDE DEF dots
    <3> QED
      BY <2>1, <3>1, DiskWithDir DEF VolumeInv
  <2>3. Tidy(u(i), CwdSlots)
    <3> DEFINE x == Entry(n, TRUE, c, 0)
    <3>1. x \in Slots /\ x.name = n
      BY <2>1 DEF Entry, Slots, Places
    <3> HIDE DEF e, x
    <3>2. Tidy([e EXCEPT ![i] = x], CwdSlots)
      BY <1>1, <1>3, <3>1, NewEntryTidy
    <3> QED
      BY <3>2 DEF x
  <2> HIDE DEF e, f, u, made
  <2>4. ASSUME NEW o \in O(i), o.why # "dir"
        PROVE  Good(o) /\ (o.why = "" /\ Quiet /\ Synced => Flushed(o))
    <3>1. CASE o = Outcome("data", -1, fat, e, disk)
      <4>1. o.why = "data" /\ o.ents = e /\ o.disk = disk
        BY <3>1 DEF Outcome
      <4> QED
        BY <1>1, <4>1 DEF Good, VolumeInv
    <3>2. CASE o = Outcome("read", -1, f, e, made)
      <4>1. o.why = "read" /\ o.ents = e /\ o.disk = made
        BY <3>2 DEF Outcome
      <4> QED
        BY <1>1, <2>2, <4>1 DEF Good
    <3>3. CASE o \in Commit(f, u(i), made)
      BY <2>2, <2>3, <2>4, <3>3, CommitGood DEF VolumeInv
    <3> QED
      BY <2>4, <3>1, <3>2, <3>3
  <2> DEFINE P == O(i)
  <2>5. Finish(P) /\ \A o \in P : o.why # "dir" =>
                       Good(o) /\ (o.why = "" /\ Quiet /\ Synced => Flushed(o))
    BY <1>3, <2>4
  <2> HIDE DEF P, O
  <2> QED
    BY <1>1, <2>5, Completed
<1> QED
  BY <1>2, <1>3 DEF fs_mkdir

\* cd leaves the disk alone and comes to a cluster that an entry names.
LEMMA ChdirKeeps ==
  ASSUME VolumeInv, NEW absolute \in BOOLEAN, NEW comp, fs_chdir(absolute, comp)
  PROVE  Keeps
<1> DEFINE d == IF absolute THEN 0 ELSE cwd
           e == EntriesOf(root, disk.data, d)
           k == IF d = 0 THEN FS_MAX_FILES ELSE DirSlots
<1>1. /\ disk' = disk /\ fat' = fat /\ root' = root /\ fs_ready' = fs_ready
      /\ e # <<>>
  BY DEF fs_chdir
<1>2. d \in Places
  BY DEF VolumeInv, Places
<1>3. Tidy(e, k)
  BY <1>1, <1>2, EntriesTidy DEF VolumeInv
<1>4. k \in Nat /\ DirSlots \in Nat \ {0, 1}
  BY FsAssumption
<1>5. \/ cwd' = 0 \/ cwd' = d
      \/ d # 0 /\ cwd' = e[2].fst
      \/ \E i \in find_entry(e, comp) : comp \in Names /\ cwd' = e[i].fst
  BY DEF fs_chdir
<1>6. cwd' \in Places
  <2>1. CASE cwd' = 0 \/ cwd' = d
    BY <1>2, <2>1 DEF Places
  <2>2. CASE d # 0 /\ cwd' = e[2].fst
    <3>1. k = DirSlots
      BY <2>2
    <3>2. e[2] \in Slots
      <4> HIDE DEF k, e
      <4> QED
        BY <1>3, <1>4, <3>1 DEF Tidy
    <3> QED
      BY <2>2, <3>2 DEF Slots
  <2>3. ASSUME NEW i \in find_entry(e, comp), comp \in Names, cwd' = e[i].fst
        PROVE  cwd' \in Places
    <3> HIDE DEF e, k
    <3>1. e[i] \in Slots
      BY <1>3, <1>4, <2>3, FoundSlot
    <3> QED
      BY <2>3, <3>1 DEF Slots
  <2> QED
    BY <1>5, <2>1, <2>2, <2>3
<1> QED
  BY <1>1, <1>6 DEF Keeps, VolumeInv, Synced

\* fs_init.
LEMMA InitKeeps ==
  ASSUME VolumeInv, fs_init PROVE Keeps
<1>1. Tidy(Blank(FS_MAX_FILES), FS_MAX_FILES)
  BY FsAssumption, BlankTidy
<1>2. TidyDisk(Format)
  BY <1>1 DEF Format, TidyDisk, VolumeInv
<1>3. PICK d \in {disk, Format} : disk' = d /\ fat' = d.fat /\ root' = d.root
  BY DEF fs_init
<1>4. TidyDisk(d)
  BY <1>2, <1>3 DEF VolumeInv
<1>5. Tidy(d.root, FS_MAX_FILES)
  BY <1>4 DEF TidyDisk
<1>6. cwd' = cwd
  BY DEF fs_init
<1>7. VolumeInv'
  BY <1>3, <1>4, <1>5, <1>6 DEF VolumeInv
<1>8. Synced'
  BY <1>3 DEF Synced
<1> QED
  BY <1>7, <1>8 DEF Keeps

\* The reboot command.
LEMMA RebootKeeps ==
  ASSUME VolumeInv, reboot PROVE Keeps
<1>1. Tidy(Blank(FS_MAX_FILES), FS_MAX_FILES)
  BY FsAssumption, BlankTidy
<1>2. /\ disk' = disk /\ root' = Blank(FS_MAX_FILES) /\ cwd' = 0 /\ fs_ready' = FALSE
  BY DEF reboot, PowerOff
<1>3. VolumeInv'
  BY <1>1, <1>2 DEF VolumeInv, Places
<1>4. Synced'
  BY <1>2 DEF Synced
<1> QED
  BY <1>3, <1>4 DEF Keeps

\* Every step.
LEMMA StepKeeps ==
  ASSUME VolumeInv, "crash" \notin Scope, "dir" \notin Scope, [Next]_vars
  PROVE  Keeps
<1>1. CASE fs_init
  BY <1>1, InitKeeps
<1>2. CASE reboot
  BY <1>2, RebootKeeps
<1>3. CASE Rejected
  BY <1>3, Refused DEF Rejected
<1>4. ASSUME NEW n \in Names, VfsCommand(n) PROVE Keeps
  BY <1>4, TouchKeeps, RemoveKeeps, MkdirKeeps, RmdirKeeps, WriteKeeps, AppendKeeps
     DEF VfsCommand
<1>5. ASSUME NEW absolute \in BOOLEAN, NEW comp, fs_chdir(absolute, comp) PROVE Keeps
  BY <1>5, ChdirKeeps
<1>6. CASE UNCHANGED vars
  BY <1>6 DEF vars, VolumeInv, Synced, Keeps
<1> QED
  BY <1>1, <1>2, <1>3, <1>4, <1>5, <1>6 DEF Next

LEMMA VolumeStart == ASSUME Init PROVE VolumeInv /\ Synced
<1>1. Tidy(Blank(FS_MAX_FILES), FS_MAX_FILES)
  BY FsAssumption, BlankTidy
<1> DEFINE data == [c \in Clusters |-> Zeroes]
<1>2. TidyData(data)
  <2>1. Zeroes.ents = <<>>
    BY DEF Zeroes, FileSector
  <2>2. \A c \in Clusters : data[c].ents = <<>>
    BY <2>1
  <2>3. data = [c \in Clusters |-> data[c]]
    OBVIOUS
  <2> HIDE DEF data
  <2> QED
    BY <2>2, <2>3 DEF TidyData
<1>3. /\ disk = [boot |-> FALSE, fat |-> [c \in Clusters |-> FREE],
                 root |-> Blank(FS_MAX_FILES), data |-> data]
      /\ root = Blank(FS_MAX_FILES) /\ cwd = 0 /\ fs_ready = FALSE
  BY DEF Init
<1> HIDE DEF data
<1>4. TidyDisk(disk)
  BY <1>1, <1>2, <1>3 DEF TidyDisk
<1> QED
  BY <1>1, <1>3, <1>4 DEF VolumeInv, Synced, Places

-----------------------------------------------------------------------------
(* The directories of the volume *)

\* The directories of the volume are found level by level.
Levels(l, r, data) ==
  /\ l[0] = {<<<<>>, 0>>}
  /\ \A k \in 1 .. NClus : l[k] = UNION {{x} \cup Subdirs(r, data, x) : x \in l[k - 1]}
  /\ Dirs(r, data) = l[NClus]

\* The levels exist, and only names and clusters are in them.
LEMMA DirsLevels ==
  ASSUME NEW r, NEW data, Tidy(r, FS_MAX_FILES), TidyData(data)
  PROVE  \E l : Levels(l, r, data) /\ Dirs(r, data) \subseteq Seq(Names) \X Places
<1> DEFINE P == Seq(Names) \X Places
           S == SUBSET P
           a == {<<<<>>, 0>>}
           G(X) == UNION {{x} \cup Subdirs(r, data, x) : x \in X}
           g == [X \in S |-> G(X)]
           W(w) == w = [k \in 0 .. NClus |-> IF k = 0 THEN a ELSE G(w[k - 1])]
           l == CHOOSE w : W(w)
<1>1. Dirs(r, data) = l[NClus]
  BY DEF Dirs
<1>2. a \in S
  <2>1. \A p \in Seq(Names), c \in Places : {<<p, c>>} \in S
    OBVIOUS
  <2>2. <<>> \in Seq(Names) /\ 0 \in Places
    BY DEF Places
  <2> HIDE DEF S
  <2> QED
    BY <2>1, <2>2
<1>3. ASSUME NEW x \in P PROVE Subdirs(r, data, x) \subseteq P
  <2> DEFINE e == EntriesOf(r, data, x[2])
  <2>1. PICK p \in Seq(Names), c \in Places : x = <<p, c>>
    OBVIOUS
  <2>2. e = <<>> \/ Tidy(e, IF c = 0 THEN FS_MAX_FILES ELSE DirSlots)
    BY <2>1 DEF EntriesOf, TidyData, Places
  <2>3. DOMAIN e # {} => \A j \in DOMAIN e : e[j] \in Slots
    <3>1. CASE e = <<>>
      BY <3>1
    <3>2. CASE e # <<>>
      <4> HIDE DEF e
      <4> QED
        BY <2>2, <3>2 DEF Tidy
    <3> QED
      BY <3>1, <3>2
  <2>4. ASSUME NEW j \in Used(e) PROVE <<Append(x[1], e[j].name), e[j].fst>> \in P
    <3> HIDE DEF e
    <3>1. j \in DOMAIN e /\ e[j].name \in Names
      BY DEF Used
    <3>2. e[j].fst \in Places
      BY <2>3, <3>1 DEF Slots
    <3>3. Append(p, e[j].name) \in Seq(Names)
      BY <3>1
    <3> QED
      BY <2>1, <3>2, <3>3
  <2> QED
    BY <2>4 DEF Subdirs
<1>4. \A X \in S : G(X) \in S
  <2> HIDE DEF P
  <2> QED
    BY <1>3
<1>5. g \in [S -> S]
  <2> HIDE DEF S, G
  <2> QED
    BY <1>4
<1>6. NClus \in Nat
  BY FsAssumption
<1>7. PICK v \in [0 .. NClus -> S] : Repeats(v, a, g, NClus)
  <2> HIDE DEF a, g, S
  <2> QED
    BY <1>2, <1>5, <1>6, Iterates
<1>8. W(v)
  <2>1. ASSUME NEW k \in 0 .. NClus, k # 0 PROVE g[v[k - 1]] = G(v[k - 1])
    <3>1. k - 1 \in 0 .. NClus
      BY <1>6, <2>1
    <3>2. v[k - 1] \in S
      <4> HIDE DEF S
      <4> QED
        BY <1>7, <3>1
    <3> HIDE DEF S, G
    <3> QED
      BY <3>2
  <2> HIDE DEF g, G, a, S
  <2> QED
    BY <1>7, <2>1 DEF Repeats
<1>9. W(l)
  <2> HIDE DEF W
  <2> QED
    BY <1>8
<1>10. l[0] = a /\ \A k \in 1 .. NClus : l[k] = G(l[k - 1])
  <2> HIDE DEF l, G, S, a
  <2>1. l[0] = a
    BY <1>6, <1>9
  <2>2. \A k \in 1 .. NClus : l[k] = G(l[k - 1])
    BY <1>6, <1>9
  <2> QED
    BY <2>1, <2>2
<1>11. l[NClus] \in S
  <2> HIDE DEF l, S, G, a
  <2>1. l[0] \in S /\ \A k \in 1 .. NClus : l[k - 1] \in S => l[k] \in S
    BY <1>2, <1>4, <1>10
  <2> QED
    BY <1>6, <2>1, StaysBelow
<1>12. Levels(l, r, data)
  <2> HIDE DEF l
  <2> QED
    BY <1>1, <1>10 DEF Levels
<1> HIDE DEF l
<1> QED
  BY <1>1, <1>11, <1>12

\* They are reached from the root by names.
LEMMA DirsType ==
  ASSUME NEW r, NEW data, Tidy(r, FS_MAX_FILES), TidyData(data)
  PROVE  Dirs(r, data) \subseteq Seq(Names) \X Places
BY DirsLevels

\* NamesUnique follows from the order of the directories.
LEMMA TidyNamesUnique == VolumeInv => NamesUnique
<1> SUFFICES ASSUME VolumeInv, NEW x \in Dirs(root, disk.data),
                    NEW i \in Used(EntriesOf(root, disk.data, x[2])),
                    NEW j \in Used(EntriesOf(root, disk.data, x[2])),
                    EntriesOf(root, disk.data, x[2])[i].name
                      = EntriesOf(root, disk.data, x[2])[j].name
             PROVE  i = j
  BY DEF NamesUnique
<1> DEFINE e == EntriesOf(root, disk.data, x[2])
           k == IF x[2] = 0 THEN FS_MAX_FILES ELSE DirSlots
<1>1. x[2] \in Places
  BY DirsType DEF VolumeInv, TidyDisk
<1>2. e = <<>> \/ Tidy(e, k)
  BY <1>1, EntriesTidy DEF VolumeInv
<1>3. i \in DOMAIN e /\ j \in DOMAIN e /\ e[i].name \in Names /\ e[i].name = e[j].name
  BY DEF Used
<1> HIDE DEF e, k
<1>4. e # <<>>
  BY <1>3
<1> QED
  BY <1>2, <1>3, <1>4 DEF Tidy

-----------------------------------------------------------------------------
(* Chains *)

\* Induction up to a bound.
LEMMA CountUp ==
  ASSUME NEW S, NEW n \in Nat, 0 \in S, \A i \in 1 .. n : i - 1 \in S => i \in S
  PROVE  \A i \in 0 .. n : i \in S
<1> DEFINE w == [i \in 0 .. n |-> i]
<1>1. w[0] \in S
  OBVIOUS
<1>2. \A i \in 1 .. n : w[i - 1] \in S => w[i] \in S
  OBVIOUS
<1>3. \A i \in 0 .. n : w[i] = i
  OBVIOUS
<1> HIDE DEF w
<1>4. \A i \in 0 .. n : w[i] \in S
  BY <1>1, <1>2, StaysBelow
<1> QED
  BY <1>3, <1>4

\* Follow is what repeating Link gives.
LEMMA FollowRepeats ==
  ASSUME NEW f, NEW c \in Places, NEW k \in Nat
  PROVE  \E w \in [0 .. k -> Places] : Repeats(w, c, Link(f), k) /\ Follow(f, c, k) = w[k]
<1> DEFINE g == Link(f)
           v == CHOOSE w : Repeats(w, c, g, k)
<1>1. g \in [Places -> Places]
  BY LinkType
<1>2. Follow(f, c, k) = v[k]
  BY DEF Follow, Repeats
<1>3. \E w : Repeats(w, c, g, k)
  <2> HIDE DEF g
  <2> QED
    BY <1>1, Iterates
<1>4. Repeats(v, c, g, k)
  <2> HIDE DEF g
  <2> QED
    BY <1>3
<1>5. v \in [0 .. k -> Places]
  <2> HIDE DEF g, v
  <2> QED
    BY <1>1, <1>4, IteratesStay
<1> HIDE DEF v
<1> QED
  BY <1>2, <1>4, <1>5

\* The next cluster of a chain is where its last one links to.
LEMMA FollowNext ==
  ASSUME NEW f, NEW c \in Places, NEW k \in Nat
  PROVE  /\ Follow(f, c, 0) = c
         /\ Follow(f, c, k + 1) = Link(f)[Follow(f, c, k)]
<1> DEFINE g == Link(f)
<1>1. Follow(f, c, 0) = c
  <2>1. PICK w \in [0 .. 0 -> Places] : Repeats(w, c, g, 0) /\ Follow(f, c, 0) = w[0]
    BY FollowRepeats
  <2> HIDE DEF g
  <2>2. w[0] = c
    BY <2>1 DEF Repeats
  <2> QED
    BY <2>1, <2>2
<1>2. PICK v \in [0 .. k -> Places] : Repeats(v, c, g, k) /\ Follow(f, c, k) = v[k]
  BY FollowRepeats
<1>3. PICK w \in [0 .. k + 1 -> Places] :
        Repeats(w, c, g, k + 1) /\ Follow(f, c, k + 1) = w[k + 1]
  <2>1. k + 1 \in Nat
    OBVIOUS
  <2> QED
    BY <2>1, FollowRepeats
<1> HIDE DEF g
<1>4. v[0] = c /\ \A i \in 1 .. k : v[i] = g[v[i - 1]]
  BY <1>2 DEF Repeats
<1>5. w[0] = c /\ \A i \in 1 .. k + 1 : w[i] = g[w[i - 1]]
  BY <1>3 DEF Repeats
<1> DEFINE S == {i \in 0 .. k : v[i] = w[i]}
<1>6. 0 \in S
  BY <1>4, <1>5
<1>7. ASSUME NEW i \in 1 .. k, i - 1 \in S PROVE i \in S
  BY <1>4, <1>5, <1>7
<1>8. k \in S
  <2> HIDE DEF S
  <2> QED
    BY <1>6, <1>7, CountUp
<1>9. w[k + 1] = g[w[k]]
  <2>1. k + 1 \in 1 .. k + 1 /\ (k + 1) - 1 = k
    OBVIOUS
  <2> QED
    BY <1>5, <2>1
<1>10. w[k] = v[k]
  BY <1>8
<1> QED
  BY <1>1, <1>2, <1>3, <1>9, <1>10 DEF g

\* A chain does not change with the links of other clusters.
LEMMA ChainSame ==
  ASSUME NEW f, NEW g, NEW c \in Places, \A x \in Chain(f, c) : g[x] = f[x]
  PROVE  /\ \A k \in 0 .. NClus : Follow(g, c, k) = Follow(f, c, k)
         /\ Chain(g, c) = Chain(f, c)
<1>1. NClus \in Nat
  BY FsAssumption
<1> DEFINE S == {k \in 0 .. NClus : Follow(g, c, k) = Follow(f, c, k)}
<1>2. \A k \in 0 .. NClus : k \in S
  <2>1. 0 \in S
    BY <1>1, FollowNext
  <2>2. ASSUME NEW i \in 1 .. NClus, i - 1 \in S PROVE i \in S
    <3>1. i - 1 \in Nat /\ (i - 1) + 1 = i /\ i - 1 \in 0 .. NClus /\ i \in 0 .. NClus
      BY <1>1
    <3> DEFINE y == Follow(f, c, i - 1)
    <3>2. Follow(g, c, i - 1) = y
      BY <2>2
    <3>3. y \in Places
      BY <3>1, FollowType
    <3>4. Follow(f, c, i) = Link(f)[y] /\ Follow(g, c, i) = Link(g)[y]
      <4>1. Follow(f, c, (i - 1) + 1) = Link(f)[Follow(f, c, i - 1)]
        BY <3>1, FollowNext
      <4>2. Follow(g, c, (i - 1) + 1) = Link(g)[Follow(g, c, i - 1)]
        BY <3>1, FollowNext
      <4> QED
        BY <3>1, <3>2, <4>1, <4>2
    <3>5. y = 0 \/ y \in Chain(f, c)
      <4>1. CASE c = 0
        <5>1. \A k \in 0 .. NClus : k \in {j \in 0 .. NClus : Follow(f, 0, j) = 0}
          <6> DEFINE Z == {j \in 0 .. NClus : Follow(f, 0, j) = 0}
          <6>1. 0 \in Places /\ Link(f)[0] = 0
            BY DEF Places, Link, Clusters
          <6>2. 0 \in Z
            BY <1>1, <6>1, FollowNext
          <6>3. ASSUME NEW j \in 1 .. NClus, j - 1 \in Z PROVE j \in Z
            <7>1. j - 1 \in Nat /\ (j - 1) + 1 = j /\ j \in 0 .. NClus
              BY <1>1
            <7>2. Follow(f, 0, (j - 1) + 1) = Link(f)[Follow(f, 0, j - 1)]
              BY <6>1, <7>1, FollowNext
            <7> QED
              BY <6>1, <6>3, <7>1, <7>2
          <6> HIDE DEF Z
          <6>4. \A k \in 0 .. NClus : k \in Z
            BY <1>1, <6>2, <6>3, CountUp
          <6> QED
            BY <6>4 DEF Z
        <5> QED
          BY <3>1, <4>1, <5>1
      <4>2. CASE c # 0
        BY <3>1, <4>2 DEF Chain
      <4> QED
        BY <4>1, <4>2
    <3>6. Link(g)[y] = Link(f)[y]
      <4>1. CASE y = 0
        BY <4>1 DEF Link, Clusters
      <4>2. CASE y \in Chain(f, c)
        <5>1. g[y] = f[y] /\ y \in Clusters
          BY <4>2, ChainType
        <5> HIDE DEF y
        <5> QED
          BY <5>1 DEF Link
      <4> QED
        BY <3>5, <4>1, <4>2
    <3> QED
      BY <3>1, <3>4, <3>6
  <2> HIDE DEF S
  <2> QED
    BY <1>1, <2>1, <2>2, CountUp
<1>3. \A k \in 0 .. NClus : Follow(g, c, k) = Follow(f, c, k)
  BY <1>2
<1>4. Chain(g, c) = Chain(f, c)
  BY <1>3 DEF Chain
<1> QED
  BY <1>3, <1>4

\* A chain has its first cluster, and no entry without clusters has any.
LEMMA ChainHead ==
  ASSUME NEW f
  PROVE  /\ Chain(f, 0) = {}
         /\ \A c \in Clusters : c \in Chain(f, c)
<1>1. NClus \in Nat
  BY FsAssumption
<1>2. ASSUME NEW c \in Clusters PROVE c \in Chain(f, c)
  <2>1. Follow(f, c, 0) = c /\ c # 0 /\ 0 \in 0 .. NClus
    BY <1>1, FollowNext DEF Places, Clusters
  <2> QED
    BY <2>1 DEF Chain
<1> QED
  BY <1>2 DEF Chain

-----------------------------------------------------------------------------
(* Free clusters *)

\* A chain that is freed is free; the other clusters stay what they are.
LEMMA FreedChain ==
  ASSUME NEW f, NEW c \in Places
  PROVE  /\ FreeIn(free_chain(f, c)) = FreeIn(f) \cup Chain(f, c)
         /\ \A x \in Clusters : x \notin Chain(f, c) => free_chain(f, c)[x] = f[x]
<1>1. Chain(f, c) \subseteq Clusters
  BY ChainType
<1> QED
  BY <1>1 DEF free_chain, FreeIn

\* Free clusters are ranked from 1 up, lower clusters first.
LEMMA RankOrder ==
  ASSUME NEW f, NEW c \in FreeIn(f)
  PROVE  /\ Rank(f, c) \in 1 .. Cardinality(FreeIn(f))
         /\ \A x \in FreeIn(f) : x < c => Rank(f, x) < Rank(f, c)
<1> DEFINE F == FreeIn(f)
           B(x) == {y \in F : y < x}
<1>1. F \subseteq Clusters /\ F \subseteq Int
  BY DEF FreeIn, Clusters
<1>2. IsFiniteSet(F) /\ Cardinality(F) \in Nat
  BY <1>1, ClustersFinite
<1>3. ASSUME NEW x \in F
      PROVE  IsFiniteSet(B(x)) /\ Cardinality(B(x)) \in Nat /\ Rank(f, x) = 1 + Cardinality(B(x))
  BY <1>1, ClustersFinite DEF Rank
<1>4. Cardinality(B(c)) < Cardinality(F)
  <2>1. B(c) \subseteq F /\ c \in F /\ c \notin B(c)
    BY <1>1
  <2>2. Cardinality(B(c)) <= Cardinality(F) /\ (Cardinality(F) = Cardinality(B(c)) => F = B(c))
    <3> HIDE DEF F, B
    <3> QED
      BY <1>2, <2>1, FS_Subset
  <2> HIDE DEF F, B
  <2> QED
    BY <1>2, <1>3, <2>1, <2>2
<1>5. ASSUME NEW x \in F, x < c PROVE Rank(f, x) < Rank(f, c)
  <2>1. B(x) \subseteq B(c) /\ x \in B(c) /\ x \notin B(x)
    BY <1>1, <1>5
  <2>2. /\ Cardinality(B(x)) <= Cardinality(B(c))
        /\ Cardinality(B(c)) = Cardinality(B(x)) => B(c) = B(x)
    <3>1. IsFiniteSet(B(c))
      BY <1>3
    <3> HIDE DEF F, B
    <3> QED
      BY <2>1, <3>1, FS_Subset
  <2>3. Cardinality(B(x)) \in Nat /\ Cardinality(B(c)) \in Nat
    BY <1>3
  <2>4. Rank(f, x) = 1 + Cardinality(B(x)) /\ Rank(f, c) = 1 + Cardinality(B(c))
    BY <1>3
  <2> HIDE DEF F, B
  <2> QED
    BY <2>1, <2>2, <2>3, <2>4
<1>6. Rank(f, c) = 1 + Cardinality(B(c)) /\ Cardinality(B(c)) \in Nat
  BY <1>3
<1> HIDE DEF B
<1> QED
  BY <1>2, <1>4, <1>5, <1>6

\* Every rank up to the number of free clusters is that of one free cluster, the
\* one NthFree names.
LEMMA NthFreeIs ==
  ASSUME NEW f, NEW i \in 1 .. Cardinality(FreeIn(f))
  PROVE  /\ NthFree(f, i) \in FreeIn(f) /\ Rank(f, NthFree(f, i)) = i
         /\ \A c \in FreeIn(f) : Rank(f, c) = i => c = NthFree(f, i)
<1> DEFINE F == FreeIn(f)
           n == Cardinality(F)
           R == [c \in F |-> Rank(f, c)]
<1>1. F \subseteq Int /\ IsFiniteSet(F) /\ n \in Nat
  BY ClustersFinite DEF FreeIn, Clusters
<1>2. \A c \in F : Rank(f, c) \in 1 .. n
  BY RankOrder
<1>3. ASSUME NEW c \in F, NEW d \in F, Rank(f, c) = Rank(f, d) PROVE c = d
  <2>1. c \in Int /\ d \in Int /\ Rank(f, c) \in Int
    BY <1>1, <1>2
  <2>2. ~(c < d) /\ ~(d < c)
    BY <1>3, <2>1, RankOrder
  <2> QED
    BY <2>1, <2>2
<1>4. R \in [F -> 1 .. n]
  <2> HIDE DEF F, n
  <2> QED
    BY <1>2
<1>5. IsInjective(R)
  <2> HIDE DEF F, n
  <2> QED
    BY <1>3 DEF IsInjective
<1>6. R \in Injection(F, 1 .. n)
  <2> HIDE DEF F, n, R
  <2> QED
    BY <1>4, <1>5 DEF Injection
<1>7. IsFiniteSet(1 .. n) /\ Cardinality(1 .. n) = n
  <2> HIDE DEF F, n
  <2> QED
    BY <1>1, FS_Interval
<1>8. R \in Surjection(F, 1 .. n)
  <2>1. Cardinality(F) = Cardinality(1 .. n)
    BY <1>7
  <2> HIDE DEF F, n, R
  <2> QED
    BY <1>6, <1>7, <2>1, FS_Injection
<1>9. PICK c \in F : R[c] = i
  <2>1. i \in 1 .. n
    OBVIOUS
  <2> HIDE DEF F, R, n
  <2> QED
    BY <1>8, <2>1 DEF Surjection
<1>10. Rank(f, c) = i
  BY <1>9
<1>11. NthFree(f, i) \in F /\ Rank(f, NthFree(f, i)) = i
  BY <1>10 DEF NthFree
<1> QED
  BY <1>3, <1>11

\* What write_cluster_chain has allocated after k sectors.
Taken(f, k) == {c \in FreeIn(f) : Rank(f, c) <= k}

\* The FAT after write_cluster_chain has linked k free clusters.
LEMMA LinkedFat ==
  ASSUME NEW f, NEW k \in 0 .. Cardinality(FreeIn(f))
  PROVE  /\ FreeIn(Linked(f, k)) = FreeIn(f) \ Taken(f, k)
         /\ \A x \in Clusters : x \notin FreeIn(f) => Linked(f, k)[x] = f[x]
         /\ \A x \in FreeIn(f) :
              Rank(f, x) < k => Linked(f, k)[x] = NthFree(f, Rank(f, x) + 1)
         /\ \A x \in FreeIn(f) : Rank(f, x) = k => Linked(f, k)[x] = EOC
<1> DEFINE n == Cardinality(FreeIn(f))
           l == Linked(f, k)
<1>1. n \in Nat /\ FreeIn(f) \subseteq Clusters
  BY ClustersFinite DEF FreeIn
<1>2. \A x \in Clusters : l[x] =
        IF x \notin FreeIn(f) \/ Rank(f, x) > k THEN f[x]
        ELSE IF Rank(f, x) = k THEN EOC ELSE NthFree(f, Rank(f, x) + 1)
  BY DEF Linked
<1>3. \A x \in FreeIn(f) : Rank(f, x) \in 1 .. n
  BY RankOrder
<1> HIDE DEF l
<1>4. \A x \in FreeIn(f) : Rank(f, x) = k => l[x] = EOC
  BY <1>1, <1>2, <1>3
<1>5. \A x \in FreeIn(f) : Rank(f, x) < k => l[x] = NthFree(f, Rank(f, x) + 1)
  BY <1>1, <1>2, <1>3
<1>6. ASSUME NEW x \in Clusters PROVE x \in FreeIn(l) <=> x \in FreeIn(f) \ Taken(f, k)
  <2>1. CASE x \notin FreeIn(f)
    BY <1>2, <2>1 DEF FreeIn
  <2>2. CASE x \in FreeIn(f) /\ Rank(f, x) > k
    <3>1. l[x] = f[x] /\ x \notin Taken(f, k)
      BY <1>2, <1>3, <2>2 DEF Taken
    <3> QED
      BY <2>2, <3>1 DEF FreeIn
  <2>3. CASE x \in FreeIn(f) /\ Rank(f, x) = k
    <3>1. l[x] = EOC /\ EOC # FREE
      BY <1>4, <2>3, FsAssumption DEF EOC, FREE
    <3> QED
      BY <1>1, <2>3, <3>1 DEF FreeIn, Taken
  <2>4. CASE x \in FreeIn(f) /\ Rank(f, x) < k
    <3>1. Rank(f, x) + 1 \in 1 .. n
      BY <1>1, <1>3, <2>4
    <3>2. l[x] \in FreeIn(f)
      BY <1>5, <2>4, <3>1, NthFreeIs
    <3>3. l[x] # FREE
      BY <1>1, <3>2 DEF FREE, Clusters
    <3>4. x \in Taken(f, k)
      BY <1>1, <1>3, <2>4 DEF Taken
    <3> QED
      BY <3>3, <3>4 DEF FreeIn
  <2> QED
    BY <1>1, <1>3, <2>1, <2>2, <2>3, <2>4
<1>7. FreeIn(l) = FreeIn(f) \ Taken(f, k)
  BY <1>1, <1>6 DEF FreeIn
<1> QED
  BY <1>2, <1>4, <1>5, <1>7 DEF l

\* write_cluster_chain links the free clusters in order, and the chain ends.
LEMMA LinkedFollow ==
  ASSUME NEW f, NEW k \in 1 .. Cardinality(FreeIn(f)), NEW i \in 0 .. NClus
  PROVE  Follow(Linked(f, k), NthFree(f, 1), i) = IF i < k THEN NthFree(f, i + 1) ELSE 0
<1> DEFINE n == Cardinality(FreeIn(f))
           l == Linked(f, k)
           a == NthFree(f, 1)
           S == {j \in 0 .. NClus : Follow(l, a, j) = IF j < k THEN NthFree(f, j + 1) ELSE 0}
<1>1. n \in Nat /\ FreeIn(f) \subseteq Clusters /\ NClus \in Nat /\ 1 \in 1 .. n
  BY ClustersFinite, FsAssumption DEF FreeIn
<1>2. a \in Places
  BY <1>1, NthFreeIs DEF Places
<1>3. \A j \in 1 .. n : NthFree(f, j) \in FreeIn(f) /\ Rank(f, NthFree(f, j)) = j
  BY NthFreeIs
<1>4. /\ \A x \in FreeIn(f) : Rank(f, x) < k => l[x] = NthFree(f, Rank(f, x) + 1)
      /\ \A x \in FreeIn(f) : Rank(f, x) = k => l[x] = EOC
  BY <1>1, LinkedFat
<1> HIDE DEF l, a
<1>5. 0 \in S
  <2>1. Follow(l, a, 0) = a
    BY <1>2, FollowNext
  <2> QED
    BY <1>1, <2>1 DEF a
<1>6. ASSUME NEW j \in 1 .. NClus, j - 1 \in S PROVE j \in S
  <2>1. j - 1 \in Nat /\ (j - 1) + 1 = j /\ j \in 0 .. NClus
    BY <1>1
  <2>2. Follow(l, a, j) = Link(l)[Follow(l, a, j - 1)]
    BY <1>2, <2>1, FollowNext
  <2>3. CASE j - 1 >= k
    <3>1. Follow(l, a, j - 1) = 0
      BY <1>1, <1>6, <2>1, <2>3
    <3>2. Link(l)[0] = 0
      BY DEF Link, Clusters
    <3> QED
      BY <1>1, <2>1, <2>2, <2>3, <3>1, <3>2
  <2>4. CASE j - 1 < k
    <3> DEFINE y == NthFree(f, j)
    <3>1. Follow(l, a, j - 1) = y
      BY <1>1, <1>6, <2>1, <2>4
    <3>2. j \in 1 .. n
      BY <1>1, <2>1, <2>4
    <3>3. y \in FreeIn(f) /\ y \in Clusters /\ Rank(f, y) = j
      BY <1>1, <1>3, <3>2
    <3>4. Link(l)[y] = IF l[y] \in Clusters THEN l[y] ELSE 0
      BY <3>3 DEF Link
    <3> HIDE DEF y
    <3>5. CASE j = k
      <4>1. l[y] = EOC /\ EOC \notin Clusters
        BY <1>1, <1>4, <3>3, <3>5 DEF EOC, Clusters
      <4> QED
        BY <1>1, <2>1, <2>2, <3>1, <3>4, <3>5, <4>1
    <3>6. CASE j < k
      <4>1. l[y] = NthFree(f, j + 1)
        BY <1>4, <3>3, <3>6
      <4>2. j + 1 \in 1 .. n
        BY <1>1, <3>2, <3>6
      <4>3. l[y] \in Clusters
        BY <1>1, <1>3, <4>1, <4>2
      <4> QED
        BY <2>1, <2>2, <3>1, <3>4, <3>6, <4>1, <4>3
    <3> QED
      BY <1>1, <2>1, <2>4, <3>5, <3>6
  <2> QED
    BY <1>1, <2>1, <2>3, <2>4
<1>7. i \in S
  <2> HIDE DEF S
  <2> QED
    BY <1>1, <1>5, <1>6, CountUp
<1> QED
  BY <1>7 DEF l, a

\* The chain of a written file is what was allocated for it.
LEMMA LinkedChain ==
  ASSUME NEW f, NEW k \in 1 .. Cardinality(FreeIn(f))
  PROVE  Chain(Linked(f, k), NthFree(f, 1)) = Taken(f, k)
<1> DEFINE n == Cardinality(FreeIn(f))
           l == Linked(f, k)
           a == NthFree(f, 1)
<1>1. n \in Nat /\ FreeIn(f) \subseteq Clusters /\ NClus \in Nat /\ 1 \in 1 .. n
  BY ClustersFinite, FsAssumption DEF FreeIn
<1>2. n <= NClus
  <2>1. Cardinality(Clusters) = NClus /\ IsFiniteSet(Clusters)
    <3> DEFINE b == NClus + 1
    <3>1. b \in Int /\ b >= 2 /\ b - 2 + 1 = NClus
      BY <1>1, FsAssumption
    <3>2. Clusters = 2 .. b
      BY DEF Clusters
    <3> HIDE DEF b
    <3>3. IsFiniteSet(2 .. b) /\ Cardinality(2 .. b) = IF 2 > b THEN 0 ELSE b - 2 + 1
      BY <3>1, FS_Interval
    <3> QED
      BY <3>1, <3>2, <3>3
  <2> QED
    BY <1>1, <2>1, FS_Subset
<1>3. \A i \in 0 .. NClus : Follow(l, a, i) = IF i < k THEN NthFree(f, i + 1) ELSE 0
  BY LinkedFollow
<1>4. \A j \in 1 .. n : NthFree(f, j) \in FreeIn(f) /\ Rank(f, NthFree(f, j)) = j
  BY NthFreeIs
<1>5. a # 0 /\ 0 \notin Clusters
  BY <1>1, <1>4 DEF Clusters
<1> HIDE DEF l
<1>6. Chain(l, a) = {Follow(l, a, i) : i \in 0 .. NClus} \ {0}
  BY <1>5 DEF Chain
<1>7. ASSUME NEW x \in Chain(l, a) PROVE x \in Taken(f, k)
  <2>1. PICK i \in 0 .. NClus : x = Follow(l, a, i) /\ x # 0
    BY <1>6, <1>7
  <2>2. i < k /\ x = NthFree(f, i + 1)
    BY <1>3, <2>1
  <2>3. i + 1 \in 1 .. n /\ i + 1 <= k
    BY <1>1, <2>2
  <2> QED
    BY <1>4, <2>2, <2>3 DEF Taken
<1>8. ASSUME NEW x \in Taken(f, k) PROVE x \in Chain(l, a)
  <2>1. x \in FreeIn(f) /\ Rank(f, x) \in 1 .. n /\ Rank(f, x) <= k
    BY <1>8, RankOrder DEF Taken
  <2>2. x = NthFree(f, Rank(f, x)) /\ x # 0
    BY <1>1, <1>5, <2>1, NthFreeIs
  <2> DEFINE i == Rank(f, x) - 1
  <2>3. i \in 0 .. NClus /\ i < k /\ i + 1 = Rank(f, x)
    BY <1>1, <1>2, <2>1
  <2> HIDE DEF i
  <2>4. Follow(l, a, i) = x
    BY <1>3, <2>2, <2>3
  <2> QED
    BY <1>6, <2>2, <2>3, <2>4
<1> QED
  BY <1>7, <1>8 DEF l

-----------------------------------------------------------------------------
(* The text of a file *)

\* A chain that has ended has ended.
LEMMA EndStays ==
  ASSUME NEW f, NEW c \in Places, NEW k \in 0 .. NClus, Follow(f, c, k) = 0,
         NEW j \in 0 .. NClus, k <= j
  PROVE  Follow(f, c, j) = 0
<1> DEFINE S == {i \in 0 .. NClus : i < k \/ Follow(f, c, i) = 0}
<1>1. NClus \in Nat
  BY FsAssumption
<1>2. 0 \in S
  BY <1>1
<1>3. ASSUME NEW i \in 1 .. NClus, i - 1 \in S PROVE i \in S
  <2>1. i - 1 \in Nat /\ (i - 1) + 1 = i /\ i \in 0 .. NClus
    BY <1>1
  <2>2. Follow(f, c, (i - 1) + 1) = Link(f)[Follow(f, c, i - 1)]
    BY <2>1, FollowNext
  <2>3. Link(f)[0] = 0
    BY DEF Link, Clusters
  <2>4. i < k \/ i = k \/ i - 1 >= k
    BY <2>1
  <2> QED
    BY <1>1, <1>3, <2>1, <2>2, <2>3, <2>4
<1>4. j \in S
  <2> HIDE DEF S
  <2> QED
    BY <1>1, <1>2, <1>3, CountUp
<1> QED
  BY <1>1, <1>4

\* There are no more clusters than NClus.
LEMMA AtMostNClus ==
  ASSUME NEW C, C \subseteq Clusters
  PROVE  IsFiniteSet(C) /\ Cardinality(C) \in 0 .. NClus
<1> DEFINE b == NClus + 1
<1>1. b \in Int /\ b >= 2 /\ b - 2 + 1 = NClus /\ NClus \in Nat
  BY FsAssumption
<1>2. Clusters = 2 .. b
  BY DEF Clusters
<1>3. IsFiniteSet(C) /\ Cardinality(C) \in Nat
  BY ClustersFinite
<1> HIDE DEF b
<1>4. IsFiniteSet(2 .. b) /\ Cardinality(2 .. b) = IF 2 > b THEN 0 ELSE b - 2 + 1
  BY <1>1, FS_Interval
<1>5. Cardinality(C) <= Cardinality(2 .. b)
  BY <1>2, <1>4, FS_Subset
<1> QED
  BY <1>1, <1>3, <1>4, <1>5

\* load_cluster_chain reads no more sectors than there are in the chain.
LEMMA ChainLive ==
  ASSUME NEW f, NEW c \in Places, NEW k \in Nat, k < Cardinality(Chain(f, c))
  PROVE  k \in 0 .. NClus /\ Follow(f, c, k) \in Chain(f, c)
<1> DEFINE C == Chain(f, c)
           w(i) == Follow(f, c, i - 1)
           T == {w(i) : i \in 1 .. k}
           s == [i \in 1 .. k |-> w(i)]
<1>1. NClus \in Nat /\ IsFiniteSet(C) /\ Cardinality(C) \in 0 .. NClus
  BY FsAssumption, ChainType, AtMostNClus
<1>2. k \in 0 .. NClus
  <2> HIDE DEF C
  <2> QED
    BY <1>1 DEF C
<1>3. c # 0
  <2> SUFFICES ASSUME c = 0 PROVE FALSE
    OBVIOUS
  <2>1. Cardinality(C) = 0
    BY ChainHead, FS_EmptySet
  <2> QED
    BY <2>1
<1>4. C = {Follow(f, c, i) : i \in 0 .. NClus} \ {0}
  BY <1>3 DEF Chain
<1>5. ASSUME Follow(f, c, k) = 0 PROVE FALSE
  <2>1. \A i \in 0 .. NClus : k <= i => Follow(f, c, i) = 0
    BY <1>2, <1>5, EndStays
  <2>2. C \subseteq T
    <3>1. ASSUME NEW x \in C PROVE x \in T
      <4>1. PICK i \in 0 .. NClus : x = Follow(f, c, i) /\ x # 0
        BY <1>4
      <4>2. i < k
        BY <1>1, <2>1, <4>1
      <4>3. i + 1 \in 1 .. k /\ w(i + 1) = x
        BY <1>1, <4>1, <4>2
      <4> QED
        BY <4>3
    <3> QED
      BY <3>1
  <2>3. s \in Surjection(1 .. k, T)
    <3>1. s \in [1 .. k -> T]
      OBVIOUS
    <3>2. \A t \in T : \E i \in 1 .. k : s[i] = t
      OBVIOUS
    <3> HIDE DEF s, T
    <3> QED
      BY <3>1, <3>2 DEF Surjection
  <2>4. IsFiniteSet(T) /\ Cardinality(T) <= k
    <3>1. ExistsSurjection(1 .. k, T)
      BY <2>3 DEF ExistsSurjection
    <3> HIDE DEF s, T
    <3> QED
      BY <3>1, FS_NatSurjection, FS_SurjCardinalityBound
  <2>5. Cardinality(C) <= Cardinality(T) /\ Cardinality(T) \in Nat
    <3> HIDE DEF C, T
    <3> QED
      BY <2>2, <2>4, FS_Subset, FS_CardinalityType
  <2>6. k < Cardinality(C)
    OBVIOUS
  <2> HIDE DEF C, T
  <2> QED
    BY <1>1, <2>4, <2>5, <2>6
<1> QED
  BY <1>2, <1>4, <1>5

\* Division with remainder.
LEMMA DivMod ==
  ASSUME NEW x \in Nat, NEW b \in Nat \ {0}
  PROVE  x \div b \in Nat /\ x % b \in 0 .. b - 1 /\ x = (x \div b) * b + (x % b)
OBVIOUS

\* How the bytes of a file lie in its sectors.
LEMMA InSectors ==
  ASSUME NEW l \in Nat, NEW b \in Nat \ {0}, NEW i \in 1 .. l
  PROVE  LET k == (l + b - 1) \div b
             q == (i - 1) \div b
             r == (i - 1) % b
         IN /\ k \in Nat /\ k >= 1 /\ l <= k * b
            /\ q \in Nat /\ q < k /\ r + 1 \in 1 .. b /\ q * b + (r + 1) = i
<1> DEFINE k == (l + b - 1) \div b
           q == (i - 1) \div b
           r == (i - 1) % b
<1>1. PICK m \in 0 .. b - 1 : k \in Nat /\ l + b - 1 = k * b + m
  <2> DEFINE x == l + b - 1
  <2>1. x \in Nat
    OBVIOUS
  <2> HIDE DEF x
  <2>2. x \div b \in Nat /\ x % b \in 0 .. b - 1 /\ x = (x \div b) * b + (x % b)
    BY <2>1, DivMod
  <2> QED
    BY <2>2 DEF x
<1>2. q \in Nat /\ r \in 0 .. b - 1 /\ i - 1 = q * b + r
  OBVIOUS
<1> HIDE DEF k, q, r
<1>3. l <= k * b
  BY <1>1
<1>4. k >= 1
  <2>1. k # 0
    BY <1>3
  <2> QED
    BY <1>1, <2>1
<1>5. q < k
  <2> SUFFICES ASSUME q >= k PROVE FALSE
    BY <1>1, <1>2
  <2>1. q * b >= k * b
    BY <1>1, <1>2
  <2>2. q * b \in Nat /\ k * b \in Nat
    BY <1>1, <1>2
  <2> QED
    BY <1>2, <1>3, <2>1, <2>2
<1> QED
  BY <1>1, <1>2, <1>3, <1>4, <1>5 DEF k, q, r

\* The sector a byte is in is one of those before the end.
LEMMA SectorBelow ==
  ASSUME NEW n \in Nat, NEW b \in Nat \ {0}, NEW i \in Nat \ {0}, i <= n * b
  PROVE  (i - 1) \div b \in Nat /\ (i - 1) \div b < n
<1> DEFINE x == i - 1
           q == x \div b
           r == x % b
<1>1. x \in Nat /\ x < n * b
  OBVIOUS
<1> HIDE DEF x
<1>2. q \in Nat /\ r \in 0 .. b - 1 /\ x = q * b + r
  BY <1>1, DivMod
<1> HIDE DEF q, r
<1>3. q < n
  <2> SUFFICES ASSUME q >= n PROVE FALSE
    BY <1>2
  <2>1. q * b >= n * b /\ q * b \in Nat /\ n * b \in Nat
    BY <1>2
  <2> QED
    BY <1>1, <1>2, <2>1
<1> QED
  BY <1>2, <1>3 DEF q, x

\* The text of a file does not change with what is done to other clusters.
LEMMA LoadSame ==
  ASSUME NEW f, NEW g, NEW d, NEW h, NEW c \in Places, NEW size \in Nat,
         \A x \in Chain(f, c) : g[x] = f[x] /\ h[x] = d[x]
  PROVE  Load(g, h, c, size) = Load(f, d, c, size)
<1> DEFINE want == IF size > FS_MAX_FILE_SIZE THEN FS_MAX_FILE_SIZE ELSE size
           n == Cardinality(Chain(f, c))
           have == n * SectorBytes
           m == IF want < have THEN want ELSE have
           at(i) == (i - 1) \div SectorBytes
<1>1. /\ \A k \in 0 .. NClus : Follow(g, c, k) = Follow(f, c, k)
      /\ Chain(g, c) = Chain(f, c)
  BY ChainSame
<1>2. n \in Nat
  BY ChainType, ClustersFinite
<1>3. want \in Nat /\ SectorBytes \in Nat \ {0}
  BY FsAssumption
<1> HIDE DEF want, n
<1>4. have \in Nat /\ m \in Nat /\ m <= have
  BY <1>2, <1>3
<1>5. ASSUME NEW i \in 1 .. m
      PROVE  h[Follow(g, c, at(i))] = d[Follow(f, c, at(i))]
  <2>1. i \in Nat \ {0} /\ i <= n * SectorBytes
    BY <1>4
  <2>2. at(i) \in Nat /\ at(i) < n
    BY <1>2, <1>3, <2>1, SectorBelow
  <2> HIDE DEF at
  <2>3. at(i) \in 0 .. NClus /\ Follow(f, c, at(i)) \in Chain(f, c)
    BY <2>2, ChainLive DEF n
  <2> QED
    BY <1>1, <2>3
<1>6. Load(f, d, c, size) =
        [i \in 1 .. m |-> d[Follow(f, c, at(i))].bytes[((i - 1) % SectorBytes) + 1]]
  BY DEF Load, want, n
<1>7. Load(g, h, c, size) =
        [i \in 1 .. m |-> h[Follow(g, c, at(i))].bytes[((i - 1) % SectorBytes) + 1]]
  BY <1>1 DEF Load, want, n
<1> HIDE DEF m, at
<1> QED
  BY <1>5, <1>6, <1>7

\* A file without clusters and without size has no text.
LEMMA LoadNothing ==
  ASSUME NEW f, NEW d PROVE Load(f, d, 0, 0) = <<>>
<1>1. Cardinality(Chain(f, 0)) = 0
  BY ChainHead, FS_EmptySet
<1>2. SectorBytes \in Nat /\ FS_MAX_FILE_SIZE \in Nat
  BY FsAssumption
<1> QED
  BY <1>1, <1>2 DEF Load

\* As many clusters are taken as there are sectors to write.
LEMMA TakenCount ==
  ASSUME NEW f, NEW k \in 0 .. Cardinality(FreeIn(f))
  PROVE  Cardinality(Taken(f, k)) = k
<1> DEFINE n == Cardinality(FreeIn(f))
           T == Taken(f, k)
           s == [i \in 1 .. k |-> NthFree(f, i)]
<1>1. n \in Nat /\ k \in Nat
  BY ClustersFinite DEF FreeIn
<1>2. \A i \in 1 .. n : /\ NthFree(f, i) \in FreeIn(f) /\ Rank(f, NthFree(f, i)) = i
                        /\ \A c \in FreeIn(f) : Rank(f, c) = i => c = NthFree(f, i)
  BY NthFreeIs
<1>3. \A i \in 1 .. k : i \in 1 .. n
  BY <1>1
<1>4. s \in [1 .. k -> T]
  BY <1>1, <1>2, <1>3 DEF Taken
<1>5. IsInjective(s)
  BY <1>2, <1>3 DEF IsInjective
<1>6. ASSUME NEW c \in T PROVE \E i \in 1 .. k : s[i] = c
  <2>1. c \in FreeIn(f) /\ Rank(f, c) \in 1 .. n /\ Rank(f, c) <= k
    BY RankOrder DEF Taken
  <2>2. Rank(f, c) \in 1 .. k
    BY <1>1, <2>1
  <2> QED
    BY <1>2, <2>1, <2>2
<1> HIDE DEF s, T
<1>7. s \in Bijection(1 .. k, T)
  BY <1>4, <1>5, <1>6 DEF Bijection, Injection, Surjection
<1>8. ExistsBijection(1 .. k, T)
  BY <1>7 DEF ExistsBijection
<1>9. Cardinality(T) = k
  BY <1>1, <1>8, FS_CountingElements
<1> QED
  BY <1>9 DEF T

\* A text of one sector or more needs as many clusters as hold it.
LEMMA NeedHolds ==
  ASSUME NEW S, NEW t \in Seq(S), NEW i \in 1 .. Len(t)
  PROVE  /\ Need(t) \in Nat /\ Need(t) >= 1 /\ Len(t) <= Need(t) * SectorBytes
         /\ (i - 1) \div SectorBytes \in Nat /\ (i - 1) \div SectorBytes < Need(t)
         /\ ((i - 1) % SectorBytes) + 1 \in 1 .. SectorBytes
         /\ ((i - 1) \div SectorBytes) * SectorBytes + (((i - 1) % SectorBytes) + 1) = i
<1> DEFINE l == Len(t)
           b == SectorBytes
<1>1. l \in Nat /\ b \in Nat \ {0} /\ i \in 1 .. l
  BY FsAssumption
<1>2. Need(t) = (l + b - 1) \div b
  BY DEF Need
<1> HIDE DEF l, b
<1>3. /\ Need(t) \in Nat /\ Need(t) >= 1 /\ l <= Need(t) * b
      /\ (i - 1) \div b \in Nat /\ (i - 1) \div b < Need(t)
      /\ ((i - 1) % b) + 1 \in 1 .. b
      /\ ((i - 1) \div b) * b + (((i - 1) % b) + 1) = i
  BY <1>1, <1>2, InSectors
<1> QED
  BY <1>3 DEF l, b

\* What write_cluster_chain has written, load_cluster_chain reads.
LEMMA LoadWritten ==
  ASSUME NEW f, NEW d, NEW S, NEW t \in Seq(S), t # <<>>, Len(t) <= FS_MAX_FILE_SIZE,
         Need(t) <= Cardinality(FreeIn(f))
  PROVE  Load(Linked(f, Need(t)), Written(f, d, t, Need(t)), NthFree(f, 1), Len(t)) = t
<1> DEFINE k == Need(t)
           l == Linked(f, k)
           h == Written(f, d, t, k)
           a == NthFree(f, 1)
           B == SectorBytes
           at(i) == (i - 1) \div B
           byte(i) == ((i - 1) % B) + 1
<1>1. /\ Len(t) \in Nat /\ Len(t) >= 1 /\ FS_MAX_FILE_SIZE \in Nat /\ NClus \in Nat
      /\ B \in Nat \ {0} /\ Cardinality(FreeIn(f)) \in Nat
  BY FsAssumption, ClustersFinite DEF FreeIn
<1>2. \A i \in 1 .. Len(t) :
        /\ k \in Nat /\ k >= 1 /\ Len(t) <= k * B
        /\ at(i) \in Nat /\ at(i) < k /\ byte(i) \in 1 .. B /\ at(i) * B + byte(i) = i
  BY NeedHolds
<1>3. 1 \in 1 .. Len(t)
  BY <1>1
<1>4. k \in 1 .. Cardinality(FreeIn(f)) /\ Len(t) <= k * B
  <2> HIDE DEF k
  <2> QED
    BY <1>1, <1>2, <1>3 DEF k
<1>5. Cardinality(Chain(l, a)) = k
  <2>1. k \in 0 .. Cardinality(FreeIn(f))
    <3> HIDE DEF k
    <3> QED
      BY <1>1, <1>4
  <2>2. Cardinality(Taken(f, k)) = k
    BY <2>1, TakenCount
  <2> QED
    BY <1>4, <2>2, LinkedChain
<1>6. ASSUME NEW i \in 1 .. Len(t)
      PROVE  h[Follow(l, a, at(i))].bytes[byte(i)] = t[i]
  <2>1. /\ at(i) \in Nat /\ at(i) < k /\ byte(i) \in 1 .. B /\ at(i) * B + byte(i) = i
        /\ k \in Nat
    BY <1>2
  <2> HIDE DEF at, byte, k
  <2>2. k <= NClus
    <3>1. Cardinality(FreeIn(f)) \in 0 .. NClus
      BY AtMostNClus DEF FreeIn
    <3> QED
      BY <1>1, <1>4, <3>1
  <2>3. at(i) \in 0 .. NClus /\ at(i) + 1 \in 1 .. Cardinality(FreeIn(f))
    BY <1>1, <1>4, <2>1, <2>2
  <2> DEFINE y == NthFree(f, at(i) + 1)
  <2>4. Follow(l, a, at(i)) = y
    BY <1>4, <2>1, <2>3, LinkedFollow
  <2>5. y \in FreeIn(f) /\ Rank(f, y) = at(i) + 1
    BY <2>3, NthFreeIs
  <2> HIDE DEF y
  <2>6. h[y] = Piece(t, at(i) + 1)
    <3>1. y \in Clusters /\ Rank(f, y) <= k
      BY <2>1, <2>5 DEF FreeIn
    <3> QED
      BY <2>5, <3>1 DEF Written
  <2>7. Piece(t, at(i) + 1).bytes =
          [j \in 1 .. B |-> IF ((at(i) + 1) - 1) * B + j <= Len(t)
                            THEN t[((at(i) + 1) - 1) * B + j] ELSE NUL]
    BY DEF Piece, FileSector
  <2>8. ((at(i) + 1) - 1) * B + byte(i) = i
    BY <2>1
  <2>9. Piece(t, at(i) + 1).bytes[byte(i)] = t[i]
    <3> DEFINE p == ((at(i) + 1) - 1) * B
               u == Piece(t, at(i) + 1).bytes
    <3>1. u = [j \in 1 .. B |-> IF p + j <= Len(t) THEN t[p + j] ELSE NUL]
      BY <2>7
    <3>2. p + byte(i) = i
      BY <2>8
    <3>3. i <= Len(t)
      BY <1>1
    <3> HIDE DEF p, u
    <3>4. u[byte(i)] = IF p + byte(i) <= Len(t) THEN t[p + byte(i)] ELSE NUL
      BY <2>1, <3>1
    <3>5. u[byte(i)] = t[i]
      BY <3>2, <3>3, <3>4
    <3> QED
      BY <3>5 DEF u
  <2> QED
    BY <2>4, <2>6, <2>9
<1>7. Load(l, h, a, Len(t)) =
        [i \in 1 .. Len(t) |-> h[Follow(l, a, at(i))].bytes[byte(i)]]
  <2> DEFINE want == IF Len(t) > FS_MAX_FILE_SIZE THEN FS_MAX_FILE_SIZE ELSE Len(t)
             have == Cardinality(Chain(l, a)) * B
             m == IF want < have THEN want ELSE have
  <2>1. Load(l, h, a, Len(t)) =
          [i \in 1 .. m |-> h[Follow(l, a, at(i))].bytes[byte(i)]]
    BY DEF Load
  <2>2. want = Len(t)
    BY <1>1
  <2>3. have = k * B /\ k * B \in Nat
    <3>1. k \in Nat
      BY <1>2, <1>3
    <3> HIDE DEF k
    <3> QED
      BY <1>1, <1>5, <3>1 DEF k
  <2>4. m = Len(t)
    <3> HIDE DEF want, have
    <3> QED
      BY <1>1, <1>4, <2>2, <2>3
  <2> HIDE DEF m
  <2> QED
    BY <2>1, <2>4
<1> HIDE DEF at, byte, l, h, a, k
<1>8. Load(l, h, a, Len(t)) = [i \in 1 .. Len(t) |-> t[i]]
  BY <1>6, <1>7
<1>9. t = [i \in 1 .. Len(t) |-> t[i]]
  OBVIOUS
<1> QED
  BY <1>8, <1>9 DEF l, h, a, k

-----------------------------------------------------------------------------
(* The volume as a tree of directories *)

\* The number of entries of a directory.
SlotsOf(d) == IF d = 0 THEN FS_MAX_FILES ELSE DirSlots

\* P is a map of the directories whose entries F holds: it gives each one that
\* is in use its path.  Every directory is in order and leads back to its parent.
Mapped(F, P) ==
  /\ DOMAIN P \subseteq Places /\ 0 \in DOMAIN P /\ P[0] = <<>>
  /\ \A d \in DOMAIN P : P[d] \in Seq(Names) /\ Tidy(F[d], SlotsOf(d))
  /\ \A d \in DOMAIN P : d # 0 => F[d][1].name = "." /\ F[d][2].name = ".."
  /\ \A d, q \in DOMAIN P : P[d] = P[q] => d = q

\* Every directory but the root has an entry, and every entry of a directory
\* leads to one, under the path it should have.
LeadsTo(F, P, q, c, n) ==
  c \in DOMAIN P /\ c # 0 /\ P[c] = Append(P[q], n) /\ F[c][2].fst = q
Hung(F, P) ==
  /\ \A d \in DOMAIN P : d # 0 =>
       \E q \in DOMAIN P : \E j \in Used(F[q]) : F[q][j].dir /\ F[q][j].fst = d
  /\ \A q \in DOMAIN P : \A j \in Used(F[q]) :
       F[q][j].dir => LeadsTo(F, P, q, F[q][j].fst, F[q][j].name)

\* No two entries have a cluster in common, and exactly the clusters that no
\* entry has are free.
Owned(f, F, P) ==
  /\ \A q, p \in DOMAIN P : \A i \in Used(F[q]), j \in Used(F[p]) :
       <<q, i>> # <<p, j>> => Chain(f, F[q][i].fst) \cap Chain(f, F[p][j].fst) = {}
  /\ \A c \in Clusters : c \notin FreeIn(f) <=>
       \E q \in DOMAIN P : \E j \in Used(F[q]) : c \in Chain(f, F[q][j].fst)

Volume(f, F, P) == Mapped(F, P) /\ Hung(F, P) /\ Owned(f, F, P)

\* The used entries of a directory in order are those with a name.
LEMMA UsedTidy ==
  ASSUME NEW k \in Nat, NEW e, Tidy(e, k)
  PROVE  Used(e) = {j \in 1 .. k : e[j].name \in Names}
<1>1. END \notin Names /\ DOMAIN e = 1 .. k
  BY NamesAssumption DEF Tidy
<1>2. ASSUME NEW j \in 1 .. k, e[j].name \in Names, NEW i \in 1 .. j PROVE e[i].name # END
  <2>1. i \in 1 .. k /\ (i < j \/ i = j)
    OBVIOUS
  <2> QED
    BY <1>1, <1>2, <2>1 DEF Tidy
<1> QED
  BY <1>1, <1>2 DEF Used

\* A subdirectory has room for "." and "..".
LEMMA SlotsOfType ==
  \A d : SlotsOf(d) \in Nat /\ (d # 0 => 1 \in 1 .. SlotsOf(d) /\ 2 \in 1 .. SlotsOf(d))
BY FsAssumption DEF SlotsOf

\* The used entries of a directory with another entry in slot i.
LEMMA ChangedUsed ==
  ASSUME NEW k \in Nat, NEW e, Tidy(e, k), NEW i \in 1 .. k, NEW x,
         Tidy([e EXCEPT ![i] = x], k)
  PROVE  LET u == [e EXCEPT ![i] = x]
         IN /\ u[i] = x /\ \A j \in 1 .. k : j # i => u[j] = e[j]
            /\ \A j \in 1 .. k : j # i => (j \in Used(u) <=> j \in Used(e))
            /\ i \in Used(u) <=> x.name \in Names
            /\ Used(u) \subseteq 1 .. k /\ Used(e) \subseteq 1 .. k
<1> DEFINE u == [e EXCEPT ![i] = x]
<1>1. DOMAIN e = 1 .. k /\ e \in [1 .. k -> Slots]
  BY DEF Tidy
<1>2. u[i] = x /\ \A j \in 1 .. k : j # i => u[j] = e[j]
  BY <1>1
<1>3. Used(e) = {j \in 1 .. k : e[j].name \in Names}
  BY UsedTidy
<1>4. Used(u) = {j \in 1 .. k : u[j].name \in Names}
  <2> HIDE DEF u
  <2>1. Tidy(u, k)
    BY DEF u
  <2> QED
    BY <2>1, UsedTidy
<1> HIDE DEF u
<1>5. /\ u[i] = x /\ \A j \in 1 .. k : j # i => u[j] = e[j]
      /\ \A j \in 1 .. k : j # i => (j \in Used(u) <=> j \in Used(e))
      /\ i \in Used(u) <=> x.name \in Names
      /\ Used(u) \subseteq 1 .. k /\ Used(e) \subseteq 1 .. k
  BY <1>2, <1>3, <1>4
<1> QED
  BY <1>5 DEF u

\* The clusters of an entry are not free.
LEMMA OwnedChain ==
  ASSUME NEW f, NEW F, NEW P, Mapped(F, P), Owned(f, F, P),
         NEW q \in DOMAIN P, NEW j \in Used(F[q])
  PROVE  /\ F[q][j].fst \in Places /\ F[q][j] \in Slots /\ j \in 1 .. SlotsOf(q)
         /\ Chain(f, F[q][j].fst) \subseteq Clusters \ FreeIn(f)
<1>1. SlotsOf(q) \in Nat /\ Tidy(F[q], SlotsOf(q))
  BY SlotsOfType DEF Mapped
<1>2. j \in 1 .. SlotsOf(q)
  BY <1>1, UsedTidy
<1>3. F[q][j] \in Slots
  BY <1>1, <1>2 DEF Tidy
<1>4. F[q][j].fst \in Places
  BY <1>3 DEF Slots
<1>5. Chain(f, F[q][j].fst) \subseteq Clusters
  BY <1>4, ChainType
<1>6. \A c \in Chain(f, F[q][j].fst) : c \notin FreeIn(f)
  BY <1>5 DEF Owned
<1> QED
  BY <1>2, <1>3, <1>4, <1>5, <1>6

\* A command that changes one entry, which is and was no directory, and gives
\* the clusters Old it had back for the clusters New it has: a volume with
\* FAT g and entries G.
OneFile(f, g, F, G, P, q, i, x, Old, New) ==
  /\ q \in DOMAIN P /\ i \in 1 .. SlotsOf(q)
  /\ G[q] = [F[q] EXCEPT ![i] = x] /\ Tidy(G[q], SlotsOf(q))
  /\ \A d \in DOMAIN P : d # q => G[d] = F[d]
  /\ F[q][i].name \notin {".", ".."} /\ (i \in Used(F[q]) => ~F[q][i].dir)
  /\ x.name \in Names => ~x.dir
  /\ Old = IF i \in Used(F[q]) THEN Chain(f, F[q][i].fst) ELSE {}
  /\ New = IF x.name \in Names THEN Chain(g, x.fst) ELSE {}
  /\ New \subseteq FreeIn(f) \cup Old
  /\ FreeIn(g) = (FreeIn(f) \cup Old) \ New
  /\ \A c \in Clusters : c \notin FreeIn(f) \cup Old => g[c] = f[c]

\* The other entries, and their clusters, are the same.
LEMMA OthersStay ==
  ASSUME NEW f, NEW g, NEW F, NEW G, NEW P, NEW q, NEW i, NEW x, NEW Old, NEW New,
         Volume(f, F, P), OneFile(f, g, F, G, P, q, i, x, Old, New)
  PROVE  /\ G[q][i] = x /\ (i \in Used(G[q]) <=> x.name \in Names)
         /\ \A d \in DOMAIN P : \A j : <<d, j>> # <<q, i>> =>
              /\ j \in Used(G[d]) <=> j \in Used(F[d])
              /\ j \in Used(F[d]) =>
                   /\ G[d][j] = F[d][j]
                   /\ \A c \in Chain(f, F[d][j].fst) :
                        c \in Clusters /\ c \notin FreeIn(f) \cup Old /\ g[c] = f[c]
                   /\ Chain(g, F[d][j].fst) = Chain(f, F[d][j].fst)
<1> DEFINE k == SlotsOf(q)
           e == F[q]
           u == [e EXCEPT ![i] = x]
<1>1. q \in DOMAIN P /\ i \in 1 .. k /\ G[q] = u /\ Tidy(u, k) /\ Tidy(e, k) /\ k \in Nat
  BY SlotsOfType DEF OneFile, Volume, Mapped
<1>2. /\ u[i] = x /\ \A j \in 1 .. k : j # i => u[j] = e[j]
      /\ \A j \in 1 .. k : j # i => (j \in Used(u) <=> j \in Used(e))
      /\ i \in Used(u) <=> x.name \in Names
      /\ Used(u) \subseteq 1 .. k /\ Used(e) \subseteq 1 .. k
  <2> HIDE DEF k, e
  <2> QED
    BY <1>1, ChangedUsed
<1>3. ASSUME NEW d \in DOMAIN P, NEW j, <<d, j>> # <<q, i>>
      PROVE  /\ j \in Used(G[d]) <=> j \in Used(F[d])
             /\ j \in Used(F[d]) => G[d][j] = F[d][j]
  <2>1. CASE d = q
    <3>1. j # i
      BY <1>3, <2>1
    <3> HIDE DEF u
    <3> QED
      BY <1>1, <1>2, <2>1, <3>1
  <2>2. CASE d # q
    BY <2>2 DEF OneFile
  <2> QED
    BY <2>1, <2>2
<1>4. ASSUME NEW d \in DOMAIN P, NEW j \in Used(F[d]), <<d, j>> # <<q, i>>
      PROVE  /\ \A c \in Chain(f, F[d][j].fst) :
                  c \in Clusters /\ c \notin FreeIn(f) \cup Old /\ g[c] = f[c]
             /\ Chain(g, F[d][j].fst) = Chain(f, F[d][j].fst)
  <2> DEFINE a == F[d][j].fst
  <2>1. a \in Places /\ Chain(f, a) \subseteq Clusters \ FreeIn(f)
    BY OwnedChain DEF Volume
  <2>2. Chain(f, a) \cap Old = {}
    <3>1. CASE i \in Used(F[q])
      <4>1. Old = Chain(f, F[q][i].fst)
        BY <3>1 DEF OneFile
      <4> QED
        BY <1>1, <1>4, <3>1, <4>1 DEF Volume, Owned
    <3>2. CASE i \notin Used(F[q])
      BY <3>2 DEF OneFile
    <3> QED
      BY <3>1, <3>2
  <2> HIDE DEF a
  <2>3. \A c \in Chain(f, a) : c \in Clusters /\ c \notin FreeIn(f) \cup Old /\ g[c] = f[c]
    BY <2>1, <2>2 DEF OneFile
  <2>4. Chain(g, a) = Chain(f, a)
    BY <2>1, <2>3, ChainSame
  <2> QED
    BY <2>3, <2>4 DEF a
<1> HIDE DEF u
<1> QED
  BY <1>1, <1>2, <1>3, <1>4

\* It leaves a volume.
LEMMA OneFileVolume ==
  ASSUME NEW f, NEW g, NEW F, NEW G, NEW P, NEW q, NEW i, NEW x, NEW Old, NEW New,
         Volume(f, F, P), OneFile(f, g, F, G, P, q, i, x, Old, New)
  PROVE  Volume(g, G, P)
<1>1. /\ G[q][i] = x /\ (i \in Used(G[q]) <=> x.name \in Names)
      /\ \A d \in DOMAIN P : \A j : <<d, j>> # <<q, i>> =>
           /\ j \in Used(G[d]) <=> j \in Used(F[d])
           /\ j \in Used(F[d]) =>
                /\ G[d][j] = F[d][j]
                /\ \A c \in Chain(f, F[d][j].fst) :
                     c \in Clusters /\ c \notin FreeIn(f) \cup Old /\ g[c] = f[c]
                /\ Chain(g, F[d][j].fst) = Chain(f, F[d][j].fst)
  BY OthersStay
<1>2. q \in DOMAIN P /\ i \in 1 .. SlotsOf(q)
  BY DEF OneFile
<1>3. \A d \in DOMAIN P : d # 0 => G[d][1] = F[d][1] /\ G[d][2] = F[d][2]
  <2> SUFFICES ASSUME NEW d \in DOMAIN P, d # 0 PROVE G[d][1] = F[d][1] /\ G[d][2] = F[d][2]
    OBVIOUS
  <2>1. CASE d = q
    <3>1. F[q][1].name = "." /\ F[q][2].name = ".."
      BY <2>1 DEF Volume, Mapped
    <3>2. i # 1 /\ i # 2
      BY <3>1 DEF OneFile
    <3>3. 1 \in DOMAIN F[q] /\ 2 \in DOMAIN F[q]
      BY <2>1, SlotsOfType DEF Volume, Mapped, Tidy
    <3> QED
      BY <2>1, <3>2, <3>3 DEF OneFile
  <2>2. CASE d # q
    BY <2>2 DEF OneFile
  <2> QED
    BY <2>1, <2>2
<1>4. Mapped(G, P)
  <2>1. \A d \in DOMAIN P : Tidy(G[d], SlotsOf(d))
    BY DEF OneFile, Volume, Mapped
  <2> QED
    BY <1>3, <2>1 DEF Volume, Mapped
<1>5. Hung(G, P)
  <2>1. ASSUME NEW d \in DOMAIN P, d # 0
        PROVE  \E p \in DOMAIN P : \E j \in Used(G[p]) : G[p][j].dir /\ G[p][j].fst = d
    <3>1. PICK p \in DOMAIN P : \E j \in Used(F[p]) : F[p][j].dir /\ F[p][j].fst = d
      BY <2>1 DEF Volume, Hung
    <3>2. PICK j \in Used(F[p]) : F[p][j].dir /\ F[p][j].fst = d
      BY <3>1
    <3>3. <<p, j>> # <<q, i>>
      BY <3>2 DEF OneFile
    <3>4. j \in Used(G[p]) /\ G[p][j] = F[p][j]
      BY <1>1, <3>3
    <3> QED
      BY <3>2, <3>4
  <2>2. ASSUME NEW p \in DOMAIN P, NEW j \in Used(G[p]), G[p][j].dir
        PROVE  LeadsTo(G, P, p, G[p][j].fst, G[p][j].name)
    <3>1. <<p, j>> # <<q, i>>
      <4> SUFFICES ASSUME p = q, j = i PROVE FALSE
        OBVIOUS
      <4>1. x.name \in Names /\ x.dir
        BY <1>1, <2>2
      <4> QED
        BY <4>1 DEF OneFile
    <3>2. j \in Used(F[p]) /\ G[p][j] = F[p][j]
      BY <1>1, <3>1
    <3>3. LeadsTo(F, P, p, F[p][j].fst, F[p][j].name)
      BY <2>2, <3>2 DEF Volume, Hung
    <3> QED
      BY <1>3, <3>2, <3>3 DEF LeadsTo
  <2> QED
    BY <2>1, <2>2 DEF Hung
<1>6. ASSUME NEW d \in DOMAIN P, NEW j \in Used(G[d]), <<d, j>> # <<q, i>>
      PROVE  /\ j \in Used(F[d]) /\ G[d][j] = F[d][j]
             /\ Chain(g, G[d][j].fst) = Chain(f, F[d][j].fst)
             /\ Chain(f, F[d][j].fst) \cap (FreeIn(f) \cup Old) = {}
  BY <1>1, <1>6
<1>7. x.name \in Names => Chain(g, x.fst) = New
  BY DEF OneFile
<1>8. Owned(g, G, P)
  <2>1. ASSUME NEW d \in DOMAIN P, NEW p \in DOMAIN P, NEW a \in Used(G[d]), NEW b \in Used(G[p]),
               <<d, a>> # <<p, b>>
        PROVE  Chain(g, G[d][a].fst) \cap Chain(g, G[p][b].fst) = {}
    <3>1. CASE <<d, a>> # <<q, i>> /\ <<p, b>> # <<q, i>>
      <4>1. a \in Used(F[d]) /\ Chain(g, G[d][a].fst) = Chain(f, F[d][a].fst)
        BY <1>6, <3>1
      <4>2. b \in Used(F[p]) /\ Chain(g, G[p][b].fst) = Chain(f, F[p][b].fst)
        BY <1>6, <3>1
      <4>3. Chain(f, F[d][a].fst) \cap Chain(f, F[p][b].fst) = {}
        BY <2>1, <4>1, <4>2 DEF Volume, Owned
      <4> QED
        BY <4>1, <4>2, <4>3
    <3>2. CASE <<d, a>> = <<q, i>>
      <4>1. Chain(g, G[d][a].fst) = New
        BY <1>1, <1>7, <3>2
      <4>2. Chain(g, G[p][b].fst) \cap (FreeIn(f) \cup Old) = {}
        BY <1>6, <2>1, <3>2
      <4> QED
        BY <4>1, <4>2 DEF OneFile
    <3>3. CASE <<p, b>> = <<q, i>>
      <4>1. Chain(g, G[p][b].fst) = New
        BY <1>1, <1>7, <3>3
      <4>2. Chain(g, G[d][a].fst) \cap (FreeIn(f) \cup Old) = {}
        BY <1>6, <2>1, <3>3
      <4> QED
        BY <4>1, <4>2 DEF OneFile
    <3> QED
      BY <3>1, <3>2, <3>3
  <2>2. ASSUME NEW c \in Clusters, c \notin FreeIn(g)
        PROVE  \E d \in DOMAIN P : \E j \in Used(G[d]) : c \in Chain(g, G[d][j].fst)
    <3>1. CASE c \in New
      <4>1. x.name \in Names
        BY <3>1 DEF OneFile
      <4>2. i \in Used(G[q]) /\ c \in Chain(g, G[q][i].fst)
        BY <1>1, <1>7, <3>1, <4>1
      <4> QED
        BY <1>2, <4>2
    <3>2. CASE c \notin New
      <4>1. c \notin FreeIn(f) /\ c \notin Old
        BY <2>2, <3>2 DEF OneFile
      <4>2. PICK d \in DOMAIN P : \E j \in Used(F[d]) : c \in Chain(f, F[d][j].fst)
        BY <4>1 DEF Volume, Owned
      <4>3. PICK j \in Used(F[d]) : c \in Chain(f, F[d][j].fst)
        BY <4>2
      <4>4. <<d, j>> # <<q, i>>
        BY <4>1, <4>3 DEF OneFile
      <4>5. j \in Used(G[d]) /\ c \in Chain(g, G[d][j].fst)
        BY <1>1, <4>3, <4>4
      <4> QED
        BY <4>5
    <3> QED
      BY <3>1, <3>2
  <2>3. ASSUME NEW c \in Clusters, NEW d \in DOMAIN P, NEW j \in Used(G[d]),
               c \in Chain(g, G[d][j].fst)
        PROVE  c \notin FreeIn(g)
    <3>1. CASE <<d, j>> = <<q, i>>
      <4>1. c \in New
        BY <1>1, <1>7, <2>3, <3>1
      <4> QED
        BY <4>1 DEF OneFile
    <3>2. CASE <<d, j>> # <<q, i>>
      <4>1. c \notin FreeIn(f) \cup Old
        BY <1>6, <2>3, <3>2
      <4> QED
        BY <4>1 DEF OneFile
    <3> QED
      BY <3>1, <3>2
  <2> QED
    BY <2>1, <2>2, <2>3 DEF Owned
<1> QED
  BY <1>4, <1>5, <1>8 DEF Volume

\* A directory is in a cluster of its own, which is not free.
LEMMA DirInCluster ==
  ASSUME NEW f, NEW F, NEW P, Volume(f, F, P), NEW d \in DOMAIN P, d # 0
  PROVE  d \in Clusters /\ d \notin FreeIn(f)
<1>1. d \in Clusters
  BY DEF Volume, Mapped, Places
<1>2. PICK q \in DOMAIN P : \E j \in Used(F[q]) : F[q][j].dir /\ F[q][j].fst = d
  BY DEF Volume, Hung
<1>3. PICK j \in Used(F[q]) : F[q][j].fst = d
  BY <1>2
<1>4. d \in Chain(f, F[q][j].fst)
  BY <1>1, <1>3, ChainHead
<1> QED
  BY <1>1, <1>4 DEF Volume, Owned

\* A claimed cluster is a chain by itself.
LEMMA ClaimedChain ==
  ASSUME NEW f, DOMAIN f = Clusters, NEW c \in Clusters
  PROVE  /\ Chain(Claim(f, c), c) = {c}
         /\ FreeIn(Claim(f, c)) = FreeIn(f) \ {c}
         /\ \A x \in Clusters : x # c => Claim(f, c)[x] = f[x]
<1> DEFINE g == Claim(f, c)
<1>1. g[c] = EOC /\ \A x \in Clusters : x # c => g[x] = f[x]
  BY DEF Claim
<1>2. EOC \notin Clusters /\ EOC # FREE /\ NClus \in Nat /\ NClus >= 1
  BY FsAssumption DEF EOC, FREE, Clusters
<1>3. FreeIn(g) = FreeIn(f) \ {c}
  <2> HIDE DEF g
  <2> QED
    BY <1>1, <1>2 DEF FreeIn
<1>4. c \in Places /\ c # 0
  BY DEF Places, Clusters
<1> HIDE DEF g
<1>5. Follow(g, c, 0) = c
  BY <1>4, FollowNext
<1>6. Follow(g, c, 1) = 0
  <2>1. Follow(g, c, 0 + 1) = Link(g)[Follow(g, c, 0)]
    BY <1>4, FollowNext
  <2>2. Link(g)[c] = 0
    BY <1>1, <1>2, <1>4 DEF Link
  <2> QED
    BY <1>5, <2>1, <2>2
<1>7. \A k \in 0 .. NClus : k >= 1 => Follow(g, c, k) = 0
  <2>1. 1 \in 0 .. NClus
    BY <1>2
  <2> QED
    BY <1>4, <1>6, <2>1, EndStays
<1>8. Chain(g, c) = {Follow(g, c, k) : k \in 0 .. NClus} \ {0}
  BY <1>4 DEF Chain
<1>9. Chain(g, c) = {c}
  <2>1. ASSUME NEW y \in Chain(g, c) PROVE y = c
    <3>1. PICK k \in 0 .. NClus : y = Follow(g, c, k) /\ y # 0
      BY <1>8
    <3>2. k = 0
      BY <1>2, <1>7, <3>1
    <3> QED
      BY <1>5, <3>1, <3>2
  <2>2. c \in Chain(g, c)
    BY ChainHead
  <2> QED
    BY <2>1, <2>2
<1> QED
  BY <1>1, <1>3, <1>9 DEF g

\* What mkdir makes: entry i of directory q becomes n, in the free cluster c.
WithDir(P, q, c, n) ==
  [d \in DOMAIN P \cup {c} |-> IF d = c THEN Append(P[q], n) ELSE P[d]]
NewDir(f, g, F, G, P, q, i, c, n) ==
  /\ DOMAIN f = Clusters /\ c \in FreeIn(f) /\ c \in Clusters /\ g = Claim(f, c)
  /\ q \in DOMAIN P /\ i \in 1 .. SlotsOf(q) /\ n \in Names
  /\ F[q][i].name \in {END, DEL}
  /\ \A j \in Used(F[q]) : F[q][j].name # n
  /\ G[q] = [F[q] EXCEPT ![i] = Entry(n, TRUE, c, 0)] /\ Tidy(G[q], SlotsOf(q))
  /\ \A d \in DOMAIN P : d # q => G[d] = F[d]
  /\ Tidy(G[c], DirSlots) /\ Used(G[c]) = {}
  /\ G[c][1].name = "." /\ G[c][2].name = ".." /\ G[c][2].fst = q

\* The entry x is new in slot i of directory q, and the others are the same.
Added(F, G, P, q, i, x) ==
  /\ i \notin Used(F[q]) /\ (q # 0 => i # 1 /\ i # 2)
  /\ G[q][i] = x /\ i \in Used(G[q])
  /\ \A j \in 1 .. SlotsOf(q) : j # i => G[q][j] = F[q][j]
  /\ \A d \in DOMAIN P : \A j : <<d, j>> # <<q, i>> =>
       (j \in Used(G[d]) <=> j \in Used(F[d])) /\ (j \in Used(F[d]) => G[d][j] = F[d][j])

\* The other entries stay what they are.
LEMMA NewDirOthers ==
  ASSUME NEW f, NEW g, NEW F, NEW G, NEW P, NEW q, NEW i, NEW c, NEW n,
         Volume(f, F, P), NewDir(f, g, F, G, P, q, i, c, n)
  PROVE  Added(F, G, P, q, i, Entry(n, TRUE, c, 0))
<1> DEFINE x == Entry(n, TRUE, c, 0)
           k == SlotsOf(q)
<1>1. /\ q \in DOMAIN P /\ i \in 1 .. k /\ n \in Names /\ k \in Nat
  BY SlotsOfType DEF NewDir
<1>4. x.name = n /\ x.dir /\ x.fst = c
  BY DEF Entry
<1>5. i \notin Used(F[q]) /\ (q # 0 => i # 1 /\ i # 2)
  <2>1. END \notin Names /\ DEL \notin Names /\ END \notin {".", ".."} /\ DEL \notin {".", ".."}
    BY NamesAssumption DEF END, DEL
  <2>2. q # 0 => F[q][1].name = "." /\ F[q][2].name = ".."
    BY <1>1 DEF Volume, Mapped
  <2> QED
    BY <2>1, <2>2 DEF NewDir, Used
<1>6. /\ G[q][i] = x /\ \A j \in 1 .. k : j # i => G[q][j] = F[q][j]
      /\ \A j \in 1 .. k : j # i => (j \in Used(G[q]) <=> j \in Used(F[q]))
      /\ i \in Used(G[q])
      /\ Used(G[q]) \subseteq 1 .. k /\ Used(F[q]) \subseteq 1 .. k
  <2>1. Tidy(F[q], k) /\ Tidy([F[q] EXCEPT ![i] = x], k) /\ G[q] = [F[q] EXCEPT ![i] = x]
    BY DEF Volume, Mapped, NewDir
  <2> HIDE DEF x, k
  <2> QED
    BY <1>1, <1>4, <2>1, ChangedUsed
<1>7. ASSUME NEW d \in DOMAIN P, NEW j, <<d, j>> # <<q, i>>
      PROVE  (j \in Used(G[d]) <=> j \in Used(F[d])) /\ (j \in Used(F[d]) => G[d][j] = F[d][j])
  <2>1. CASE d = q
    <3>1. j # i
      BY <1>7, <2>1
    <3> QED
      BY <1>6, <2>1, <3>1
  <2>2. CASE d # q
    BY <2>2 DEF NewDir
  <2> QED
    BY <2>1, <2>2
<1>8. Added(F, G, P, q, i, x)
  <2> HIDE DEF x, k
  <2> QED
    BY <1>5, <1>6, <1>7 DEF Added, k
<1> QED
  BY <1>8

\* It leaves a volume.
LEMMA NewDirVolume ==
  ASSUME NEW f, NEW g, NEW F, NEW G, NEW P, NEW q, NEW i, NEW c, NEW n,
         Volume(f, F, P), NewDir(f, g, F, G, P, q, i, c, n)
  PROVE  Volume(g, G, WithDir(P, q, c, n))
<1> DEFINE Q == WithDir(P, q, c, n)
           x == Entry(n, TRUE, c, 0)
           k == SlotsOf(q)
<1>1. /\ q \in DOMAIN P /\ i \in 1 .. k /\ n \in Names /\ k \in Nat
      /\ c \in Clusters /\ c \in FreeIn(f) /\ c # 0
  BY SlotsOfType DEF NewDir, Clusters
<1>2. c \notin DOMAIN P /\ c # q
  BY <1>1, DirInCluster
<1>3. /\ Chain(g, c) = {c} /\ FreeIn(g) = FreeIn(f) \ {c}
      /\ \A y \in Clusters : y # c => g[y] = f[y]
  BY ClaimedChain DEF NewDir
<1>4. x.name = n /\ x.dir /\ x.fst = c
  BY DEF Entry
<1>a. Added(F, G, P, q, i, x)
  BY NewDirOthers
<1>5. i \notin Used(F[q]) /\ (q # 0 => i # 1 /\ i # 2)
  BY <1>a DEF Added
<1>6. G[q][i] = x /\ i \in Used(G[q]) /\ \A j \in 1 .. k : j # i => G[q][j] = F[q][j]
  BY <1>a DEF Added
<1>7. ASSUME NEW d \in DOMAIN P, NEW j, <<d, j>> # <<q, i>>
      PROVE  (j \in Used(G[d]) <=> j \in Used(F[d])) /\ (j \in Used(F[d]) => G[d][j] = F[d][j])
  BY <1>7, <1>a DEF Added
<1>8. ASSUME NEW d \in DOMAIN P, NEW j \in Used(F[d])
      PROVE  /\ Chain(g, F[d][j].fst) = Chain(f, F[d][j].fst)
             /\ Chain(f, F[d][j].fst) \subseteq Clusters \ FreeIn(f)
  <2> DEFINE a == F[d][j].fst
  <2>1. a \in Places /\ Chain(f, a) \subseteq Clusters \ FreeIn(f)
    BY OwnedChain DEF Volume
  <2> HIDE DEF a
  <2>2. \A y \in Chain(f, a) : g[y] = f[y]
    BY <1>1, <1>3, <2>1
  <2>3. Chain(g, a) = Chain(f, a)
    BY <2>1, <2>2, ChainSame
  <2> QED
    BY <2>1, <2>3 DEF a
<1>9. \A d \in DOMAIN P : d # 0 => G[d][1] = F[d][1] /\ G[d][2] = F[d][2]
  <2> SUFFICES ASSUME NEW d \in DOMAIN P, d # 0 PROVE G[d][1] = F[d][1] /\ G[d][2] = F[d][2]
    OBVIOUS
  <2>1. CASE d = q
    BY <1>5, <1>6, <2>1, SlotsOfType
  <2>2. CASE d # q
    BY <2>2 DEF NewDir
  <2> QED
    BY <2>1, <2>2
<1>10. /\ DOMAIN Q = DOMAIN P \cup {c} /\ Q[c] = Append(P[q], n)
       /\ \A d \in DOMAIN P : Q[d] = P[d]
  BY <1>2 DEF WithDir
<1>11. P[q] \in Seq(Names) /\ \A d \in DOMAIN P : P[d] \in Seq(Names)
  BY <1>1 DEF Volume, Mapped
<1> HIDE DEF Q, x
<1>12. ASSUME NEW d \in DOMAIN P, P[d] = Append(P[q], n) PROVE FALSE
  <2>1. d # 0
    <3>1. P[0] = <<>>
      BY DEF Volume, Mapped
    <3>2. Append(P[q], n) # <<>>
      BY <1>1, <1>11
    <3> QED
      BY <1>12, <3>1, <3>2
  <2>2. PICK p \in DOMAIN P : \E j \in Used(F[p]) : F[p][j].dir /\ F[p][j].fst = d
    BY <2>1 DEF Volume, Hung
  <2>3. PICK j \in Used(F[p]) : F[p][j].dir /\ F[p][j].fst = d
    BY <2>2
  <2>4. P[d] = Append(P[p], F[p][j].name)
    BY <2>3 DEF Volume, Hung, LeadsTo
  <2>5. F[p][j].name \in Names
    BY DEF Used
  <2>6. P[p] = P[q] /\ F[p][j].name = n
    <3> DEFINE s == P[p]
               t == P[q]
               m == F[p][j].name
    <3>1. s \in Seq(Names) /\ t \in Seq(Names) /\ m \in Names /\ Append(s, m) = Append(t, n)
      BY <1>11, <1>12, <2>4, <2>5
    <3> HIDE DEF s, t, m
    <3>2. s = t /\ m = n
      BY <1>1, <3>1, AppendProperties
    <3> QED
      BY <3>2 DEF s, t, m
  <2>7. p = q
    BY <1>1, <2>6 DEF Volume, Mapped
  <2> QED
    BY <2>6, <2>7 DEF NewDir
<1>13. Mapped(G, Q)
  <2>1. DOMAIN Q \subseteq Places /\ 0 \in DOMAIN Q /\ Q[0] = <<>>
    BY <1>1, <1>10 DEF Volume, Mapped, Places
  <2>2. ASSUME NEW d \in DOMAIN Q PROVE Q[d] \in Seq(Names) /\ Tidy(G[d], SlotsOf(d))
    <3>1. CASE d = c
      BY <1>1, <1>10, <1>11, <3>1 DEF NewDir, SlotsOf
    <3>2. CASE d \in DOMAIN P
      BY <1>10, <1>11, <3>2 DEF NewDir, Volume, Mapped
    <3> QED
      BY <1>10, <3>1, <3>2
  <2>3. \A d \in DOMAIN Q : d # 0 => G[d][1].name = "." /\ G[d][2].name = ".."
    BY <1>9, <1>10 DEF NewDir, Volume, Mapped
  <2>4. \A d, p \in DOMAIN Q : Q[d] = Q[p] => d = p
    BY <1>10, <1>12 DEF Volume, Mapped
  <2> QED
    BY <2>1, <2>2, <2>3, <2>4 DEF Mapped
<1>14. Hung(G, Q)
  <2>1. ASSUME NEW d \in DOMAIN Q, d # 0
        PROVE  \E p \in DOMAIN Q : \E j \in Used(G[p]) : G[p][j].dir /\ G[p][j].fst = d
    <3>1. CASE d = c
      <4>1. q \in DOMAIN Q /\ i \in Used(G[q]) /\ G[q][i].dir /\ G[q][i].fst = c
        BY <1>1, <1>4, <1>6, <1>10
      <4> QED
        BY <3>1, <4>1
    <3>2. CASE d \in DOMAIN P
      <4>1. PICK p \in DOMAIN P : \E j \in Used(F[p]) : F[p][j].dir /\ F[p][j].fst = d
        BY <2>1, <3>2 DEF Volume, Hung
      <4>2. PICK j \in Used(F[p]) : F[p][j].dir /\ F[p][j].fst = d
        BY <4>1
      <4>3. j \in Used(G[p]) /\ G[p][j] = F[p][j] /\ p \in DOMAIN Q
        BY <1>5, <1>7, <1>10, <4>2
      <4> QED
        BY <4>2, <4>3
    <3> QED
      BY <1>10, <3>1, <3>2
  <2>2. ASSUME NEW p \in DOMAIN Q, NEW j \in Used(G[p]), G[p][j].dir
        PROVE  LeadsTo(G, Q, p, G[p][j].fst, G[p][j].name)
    <3>1. p \in DOMAIN P
      BY <1>10 DEF NewDir
    <3>2. CASE <<p, j>> = <<q, i>>
      <4>1. G[p][j].fst = c /\ G[p][j].name = n
        BY <1>4, <1>6, <3>2
      <4> QED
        BY <1>1, <1>10, <3>2, <4>1 DEF LeadsTo, NewDir
    <3>3. CASE <<p, j>> # <<q, i>>
      <4>1. j \in Used(F[p]) /\ G[p][j] = F[p][j]
        BY <1>7, <3>1, <3>3
      <4>2. LeadsTo(F, P, p, F[p][j].fst, F[p][j].name)
        BY <2>2, <3>1, <4>1 DEF Volume, Hung
      <4> QED
        BY <1>9, <1>10, <3>1, <4>1, <4>2 DEF LeadsTo
    <3> QED
      BY <3>2, <3>3
  <2> QED
    BY <2>1, <2>2 DEF Hung
<1>15. ASSUME NEW d \in DOMAIN Q, NEW j \in Used(G[d]), <<d, j>> # <<q, i>>
       PROVE  /\ d \in DOMAIN P /\ j \in Used(F[d]) /\ G[d][j] = F[d][j]
              /\ Chain(g, G[d][j].fst) = Chain(f, F[d][j].fst)
              /\ Chain(f, F[d][j].fst) \cap FreeIn(f) = {}
  <2>1. d \in DOMAIN P
    BY <1>10 DEF NewDir
  <2> QED
    BY <1>7, <1>8, <1>15, <2>1
<1>16. Chain(g, G[q][i].fst) = {c}
  BY <1>3, <1>4, <1>6
<1>17. Owned(g, G, Q)
  <2>1. ASSUME NEW d \in DOMAIN Q, NEW p \in DOMAIN Q, NEW a \in Used(G[d]), NEW b \in Used(G[p]),
               <<d, a>> # <<p, b>>
        PROVE  Chain(g, G[d][a].fst) \cap Chain(g, G[p][b].fst) = {}
    <3>1. CASE <<d, a>> # <<q, i>> /\ <<p, b>> # <<q, i>>
      <4>1. d \in DOMAIN P /\ a \in Used(F[d]) /\ Chain(g, G[d][a].fst) = Chain(f, F[d][a].fst)
        BY <1>15, <3>1
      <4>2. p \in DOMAIN P /\ b \in Used(F[p]) /\ Chain(g, G[p][b].fst) = Chain(f, F[p][b].fst)
        BY <1>15, <3>1
      <4>3. Chain(f, F[d][a].fst) \cap Chain(f, F[p][b].fst) = {}
        BY <2>1, <4>1, <4>2 DEF Volume, Owned
      <4> QED
        BY <4>1, <4>2, <4>3
    <3>2. CASE <<d, a>> = <<q, i>>
      <4>1. Chain(g, G[d][a].fst) = {c}
        BY <1>16, <3>2
      <4>2. Chain(g, G[p][b].fst) \cap FreeIn(f) = {}
        BY <1>15, <2>1, <3>2
      <4> QED
        BY <1>1, <4>1, <4>2
    <3>3. CASE <<p, b>> = <<q, i>>
      <4>1. Chain(g, G[p][b].fst) = {c}
        BY <1>16, <3>3
      <4>2. Chain(g, G[d][a].fst) \cap FreeIn(f) = {}
        BY <1>15, <2>1, <3>3
      <4> QED
        BY <1>1, <4>1, <4>2
    <3> QED
      BY <3>1, <3>2, <3>3
  <2>2. ASSUME NEW y \in Clusters, y \notin FreeIn(g)
        PROVE  \E d \in DOMAIN Q : \E j \in Used(G[d]) : y \in Chain(g, G[d][j].fst)
    <3>1. CASE y = c
      <4>1. q \in DOMAIN Q /\ i \in Used(G[q]) /\ y \in Chain(g, G[q][i].fst)
        BY <1>1, <1>6, <1>10, <1>16, <3>1
      <4> QED
        BY <4>1
    <3>2. CASE y # c
      <4>1. y \notin FreeIn(f)
        BY <1>3, <2>2, <3>2
      <4>2. PICK d \in DOMAIN P : \E j \in Used(F[d]) : y \in Chain(f, F[d][j].fst)
        BY <4>1 DEF Volume, Owned
      <4>3. PICK j \in Used(F[d]) : y \in Chain(f, F[d][j].fst)
        BY <4>2
      <4>4. <<d, j>> # <<q, i>>
        BY <1>5, <4>3
      <4>5. d \in DOMAIN Q /\ j \in Used(G[d]) /\ y \in Chain(g, G[d][j].fst)
        BY <1>7, <1>8, <1>10, <4>3, <4>4
      <4> QED
        BY <4>5
    <3> QED
      BY <3>1, <3>2
  <2>3. ASSUME NEW y \in Clusters, NEW d \in DOMAIN Q, NEW j \in Used(G[d]),
               y \in Chain(g, G[d][j].fst)
        PROVE  y \notin FreeIn(g)
    <3>1. CASE <<d, j>> = <<q, i>>
      BY <1>3, <1>16, <2>3, <3>1
    <3>2. CASE <<d, j>> # <<q, i>>
      <4>1. y \notin FreeIn(f)
        BY <1>15, <2>3, <3>2
      <4> QED
        BY <1>3, <4>1
    <3> QED
      BY <3>1, <3>2
  <2> QED
    BY <2>1, <2>2, <2>3 DEF Owned
<1> QED
  BY <1>13, <1>14, <1>17 DEF Volume, Q

\* What rmdir does: entry i of directory q, an empty directory, is deleted.
WithoutDir(P, c) == [d \in DOMAIN P \ {c} |-> P[d]]
OldDir(f, g, F, G, P, q, i, c) ==
  /\ q \in DOMAIN P /\ i \in Used(F[q]) /\ F[q][i].dir /\ c = F[q][i].fst
  /\ Used(F[c]) = {} /\ g = free_chain(f, c)
  /\ G[q] = [F[q] EXCEPT ![i] = Deleted] /\ Tidy(G[q], SlotsOf(q))
  /\ \A d \in DOMAIN P : d # q => G[d] = F[d]

\* A directory is not its own parent.
LEMMA NotOwnParent ==
  ASSUME NEW F, NEW P, Mapped(F, P), NEW q \in DOMAIN P, NEW c, NEW n \in Names,
         LeadsTo(F, P, q, c, n)
  PROVE  c # q
<1>1. P[q] \in Seq(Names) /\ P[c] = Append(P[q], n)
  BY DEF Mapped, LeadsTo
<1> DEFINE s == P[q]
<1> HIDE DEF s
<1>2. s \in Seq(Names) => Append(s, n) # s
  <2> SUFFICES ASSUME s \in Seq(Names) PROVE Len(Append(s, n)) # Len(s)
    OBVIOUS
  <2>1. Len(Append(s, n)) = Len(s) + 1 /\ Len(s) \in Nat
    OBVIOUS
  <2> QED
    BY <2>1
<1> QED
  BY <1>1, <1>2 DEF s

\* The directory leaves the map; the rest of the volume stays.
LEMMA OldDirVolume ==
  ASSUME NEW f, NEW g, NEW F, NEW G, NEW P, NEW q, NEW i, NEW c,
         Volume(f, F, P), OldDir(f, g, F, G, P, q, i, c)
  PROVE  /\ Volume(g, G, WithoutDir(P, c)) /\ c # q /\ c # 0 /\ c \in DOMAIN P
         /\ P[c] = Append(P[q], F[q][i].name)
         /\ G[q][i] = Deleted /\ i \notin Used(G[q])
         /\ \A d \in DOMAIN P : \A j : <<d, j>> # <<q, i>> =>
              /\ j \in Used(G[d]) <=> j \in Used(F[d])
              /\ j \in Used(F[d]) =>
                   /\ G[d][j] = F[d][j]
                   /\ \A y \in Chain(f, F[d][j].fst) : g[y] = f[y]
<1> DEFINE Q == WithoutDir(P, c)
           k == SlotsOf(q)
<1>1. q \in DOMAIN P /\ i \in Used(F[q]) /\ k \in Nat /\ Tidy(F[q], k) /\ i \in 1 .. k
  BY SlotsOfType, UsedTidy DEF OldDir, Volume, Mapped
<1>2. F[q][i].name \in Names
  BY <1>1 DEF Used
<1>3. LeadsTo(F, P, q, c, F[q][i].name)
  BY <1>1 DEF OldDir, Volume, Hung
<1>4. /\ c \in DOMAIN P /\ c # 0 /\ P[c] = Append(P[q], F[q][i].name) /\ c # q
      /\ c \in Clusters /\ c \in Places
  <2>1. c # q
    BY <1>1, <1>2, <1>3, NotOwnParent DEF Volume
  <2>2. c \in DOMAIN P /\ c # 0
    BY <1>3 DEF LeadsTo
  <2>3. c \in Clusters
    BY <2>2, DirInCluster
  <2> QED
    BY <1>3, <2>1, <2>2, <2>3 DEF LeadsTo, Places
<1>5. /\ FreeIn(g) = FreeIn(f) \cup Chain(f, c)
      /\ \A y \in Clusters : y \notin Chain(f, c) => g[y] = f[y]
      /\ c \in Chain(f, c)
  <2>1. g = free_chain(f, c)
    BY DEF OldDir
  <2>2. /\ FreeIn(free_chain(f, c)) = FreeIn(f) \cup Chain(f, c)
        /\ \A y \in Clusters : y \notin Chain(f, c) => free_chain(f, c)[y] = f[y]
    BY <1>4, FreedChain
  <2> QED
    BY <1>4, <2>1, <2>2, ChainHead
<1>6. /\ DEL \notin Names /\ DEL \notin {".", ".."} /\ Deleted.name = DEL
      /\ "." \notin Names /\ ".." \notin Names
  BY NamesAssumption DEF DEL, Deleted, Entry
<1>7. /\ G[q][i] = Deleted /\ \A j \in 1 .. k : j # i => G[q][j] = F[q][j]
      /\ \A j \in 1 .. k : j # i => (j \in Used(G[q]) <=> j \in Used(F[q]))
      /\ i \notin Used(G[q])
      /\ Used(G[q]) \subseteq 1 .. k /\ Used(F[q]) \subseteq 1 .. k
  <2>1. Tidy([F[q] EXCEPT ![i] = Deleted], k) /\ G[q] = [F[q] EXCEPT ![i] = Deleted]
    BY DEF OldDir
  <2> HIDE DEF k
  <2> QED
    BY <1>1, <1>6, <2>1, ChangedUsed
<1>8. ASSUME NEW d \in DOMAIN P, NEW j, <<d, j>> # <<q, i>>
      PROVE  (j \in Used(G[d]) <=> j \in Used(F[d])) /\ (j \in Used(F[d]) => G[d][j] = F[d][j])
  <2>1. CASE d = q
    <3>1. j # i
      BY <1>8, <2>1
    <3> QED
      BY <1>7, <2>1, <3>1
  <2>2. CASE d # q
    BY <2>2 DEF OldDir
  <2> QED
    BY <2>1, <2>2
<1>9. ASSUME NEW d \in DOMAIN P, NEW j \in Used(F[d]), <<d, j>> # <<q, i>>
      PROVE  /\ Chain(g, F[d][j].fst) = Chain(f, F[d][j].fst)
             /\ Chain(f, F[d][j].fst) \subseteq Clusters \ FreeIn(f)
             /\ Chain(f, F[d][j].fst) \cap Chain(f, c) = {}
             /\ \A y \in Chain(f, F[d][j].fst) : g[y] = f[y]
  <2> DEFINE a == F[d][j].fst
  <2>1. a \in Places /\ Chain(f, a) \subseteq Clusters \ FreeIn(f)
    BY OwnedChain DEF Volume
  <2>2. Chain(f, a) \cap Chain(f, c) = {}
    BY <1>1, <1>9 DEF Volume, Owned, OldDir
  <2> HIDE DEF a
  <2>3. \A y \in Chain(f, a) : g[y] = f[y]
    BY <1>5, <2>1, <2>2
  <2>4. Chain(g, a) = Chain(f, a)
    BY <2>1, <2>3, ChainSame
  <2> QED
    BY <2>1, <2>2, <2>3, <2>4 DEF a
<1>10. \A d \in DOMAIN P : d # 0 => G[d][1] = F[d][1] /\ G[d][2] = F[d][2]
  <2> SUFFICES ASSUME NEW d \in DOMAIN P, d # 0 PROVE G[d][1] = F[d][1] /\ G[d][2] = F[d][2]
    OBVIOUS
  <2>1. CASE d = q
    <3>1. i # 1 /\ i # 2
      BY <1>2, <1>6, <2>1 DEF Volume, Mapped
    <3> QED
      BY <1>7, <2>1, <3>1, SlotsOfType
  <2>2. CASE d # q
    BY <2>2 DEF OldDir
  <2> QED
    BY <2>1, <2>2
<1>11. DOMAIN Q = DOMAIN P \ {c} /\ \A d \in DOMAIN P : d # c => Q[d] = P[d]
  BY DEF WithoutDir
<1> HIDE DEF Q
<1>12. Mapped(G, Q)
  <2>1. DOMAIN Q \subseteq Places /\ 0 \in DOMAIN Q /\ Q[0] = <<>>
    BY <1>4, <1>11 DEF Volume, Mapped
  <2>2. ASSUME NEW d \in DOMAIN Q PROVE Q[d] \in Seq(Names) /\ Tidy(G[d], SlotsOf(d))
    BY <1>11 DEF OldDir, Volume, Mapped
  <2>3. \A d \in DOMAIN Q : d # 0 => G[d][1].name = "." /\ G[d][2].name = ".."
    BY <1>10, <1>11 DEF Volume, Mapped
  <2>4. \A d, p \in DOMAIN Q : Q[d] = Q[p] => d = p
    BY <1>11 DEF Volume, Mapped
  <2> QED
    BY <2>1, <2>2, <2>3, <2>4 DEF Mapped
<1>13. ASSUME NEW d \in DOMAIN P, NEW j \in Used(F[d]), <<d, j>> # <<q, i>>
       PROVE  d # c /\ F[d][j].fst # c
  <2>1. d # c
    BY DEF OldDir
  <2>2. F[d][j].fst # c
    BY <1>5, <1>9, <1>13
  <2> QED
    BY <2>1, <2>2
<1>14. Hung(G, Q)
  <2>1. ASSUME NEW d \in DOMAIN Q, d # 0
        PROVE  \E p \in DOMAIN Q : \E j \in Used(G[p]) : G[p][j].dir /\ G[p][j].fst = d
    <3>1. PICK p \in DOMAIN P : \E j \in Used(F[p]) : F[p][j].dir /\ F[p][j].fst = d
      BY <1>11, <2>1 DEF Volume, Hung
    <3>2. PICK j \in Used(F[p]) : F[p][j].dir /\ F[p][j].fst = d
      BY <3>1
    <3>3. <<p, j>> # <<q, i>>
      BY <1>11, <3>2 DEF OldDir
    <3>4. j \in Used(G[p]) /\ G[p][j] = F[p][j] /\ p \in DOMAIN Q
      BY <1>8, <1>11, <1>13, <3>2, <3>3
    <3> QED
      BY <3>2, <3>4
  <2>2. ASSUME NEW p \in DOMAIN Q, NEW j \in Used(G[p]), G[p][j].dir
        PROVE  LeadsTo(G, Q, p, G[p][j].fst, G[p][j].name)
    <3>1. <<p, j>> # <<q, i>> /\ p \in DOMAIN P
      BY <1>7, <1>11
    <3>2. j \in Used(F[p]) /\ G[p][j] = F[p][j]
      BY <1>8, <3>1
    <3>3. LeadsTo(F, P, p, F[p][j].fst, F[p][j].name)
      BY <2>2, <3>1, <3>2 DEF Volume, Hung
    <3>4. F[p][j].fst # c /\ p # c
      BY <1>13, <3>1, <3>2
    <3> QED
      BY <1>10, <1>11, <3>1, <3>2, <3>3, <3>4 DEF LeadsTo
  <2> QED
    BY <2>1, <2>2 DEF Hung
<1>15. ASSUME NEW d \in DOMAIN Q, NEW j \in Used(G[d])
       PROVE  /\ d \in DOMAIN P /\ j \in Used(F[d]) /\ <<d, j>> # <<q, i>>
              /\ Chain(g, G[d][j].fst) = Chain(f, F[d][j].fst)
              /\ Chain(f, F[d][j].fst) \cap (FreeIn(f) \cup Chain(f, c)) = {}
  <2>1. <<d, j>> # <<q, i>> /\ d \in DOMAIN P
    BY <1>7, <1>11
  <2> QED
    BY <1>8, <1>9, <2>1
<1>16. Owned(g, G, Q)
  <2>1. ASSUME NEW d \in DOMAIN Q, NEW p \in DOMAIN Q, NEW a \in Used(G[d]), NEW b \in Used(G[p]),
               <<d, a>> # <<p, b>>
        PROVE  Chain(g, G[d][a].fst) \cap Chain(g, G[p][b].fst) = {}
    <3>1. d \in DOMAIN P /\ a \in Used(F[d]) /\ Chain(g, G[d][a].fst) = Chain(f, F[d][a].fst)
      BY <1>15
    <3>2. p \in DOMAIN P /\ b \in Used(F[p]) /\ Chain(g, G[p][b].fst) = Chain(f, F[p][b].fst)
      BY <1>15
    <3>3. Chain(f, F[d][a].fst) \cap Chain(f, F[p][b].fst) = {}
      BY <2>1, <3>1, <3>2 DEF Volume, Owned
    <3> QED
      BY <3>1, <3>2, <3>3
  <2>2. ASSUME NEW y \in Clusters, y \notin FreeIn(g)
        PROVE  \E d \in DOMAIN Q : \E j \in Used(G[d]) : y \in Chain(g, G[d][j].fst)
    <3>1. y \notin FreeIn(f) /\ y \notin Chain(f, c)
      BY <1>5, <2>2
    <3>2. PICK d \in DOMAIN P : \E j \in Used(F[d]) : y \in Chain(f, F[d][j].fst)
      BY <3>1 DEF Volume, Owned
    <3>3. PICK j \in Used(F[d]) : y \in Chain(f, F[d][j].fst)
      BY <3>2
    <3>4. <<d, j>> # <<q, i>>
      BY <3>1, <3>3 DEF OldDir
    <3>5. d \in DOMAIN Q /\ j \in Used(G[d]) /\ y \in Chain(g, G[d][j].fst)
      BY <1>8, <1>9, <1>11, <1>13, <3>3, <3>4
    <3> QED
      BY <3>5
  <2>3. ASSUME NEW y \in Clusters, NEW d \in DOMAIN Q, NEW j \in Used(G[d]),
               y \in Chain(g, G[d][j].fst)
        PROVE  y \notin FreeIn(g)
    BY <1>5, <1>15, <2>3
  <2> QED
    BY <2>1, <2>2, <2>3 DEF Owned
<1>17. Volume(g, G, Q)
  BY <1>12, <1>14, <1>16 DEF Volume
<1> QED
  BY <1>4, <1>7, <1>8, <1>9, <1>17 DEF Q

-----------------------------------------------------------------------------
(* The directories that are found are those of the map *)

\* The entries of every directory of a volume.
Shelf(r, data) == [d \in Places |-> EntriesOf(r, data, d)]

\* A directory is no deeper than there are clusters.
LEMMA DepthBound ==
  ASSUME NEW F, NEW P, Mapped(F, P), Hung(F, P), NEW d \in DOMAIN P
  PROVE  Len(P[d]) \in 0 .. NClus
<1> DEFINE m == Len(P[d])
           S == {i \in 0 .. m : \E q \in DOMAIN P : Len(P[q]) = m - i}
<1>1. \A q \in DOMAIN P : P[q] \in Seq(Names) /\ Len(P[q]) \in Nat
  BY DEF Mapped
<1>2. m \in Nat
  BY <1>1
<1>3. 0 \in S
  BY <1>2
<1>4. ASSUME NEW i \in 1 .. m, i - 1 \in S PROVE i \in S
  <2>1. PICK q \in DOMAIN P : Len(P[q]) = m - (i - 1)
    BY <1>4
  <2>2. Len(P[q]) > 0
    <3> HIDE DEF m
    <3> QED
      BY <1>2, <2>1
  <2>3. q # 0
    BY <2>2 DEF Mapped
  <2>4. PICK p \in DOMAIN P : \E j \in Used(F[p]) : F[p][j].dir /\ F[p][j].fst = q
    BY <2>3 DEF Hung
  <2>5. PICK j \in Used(F[p]) : P[q] = Append(P[p], F[p][j].name)
    BY <2>4 DEF Hung, LeadsTo
  <2>6. Len(P[q]) = Len(P[p]) + 1
    <3>1. P[p] \in Seq(Names) /\ F[p][j].name \in Names
      BY <1>1 DEF Used
    <3> DEFINE s == P[p]
               n == F[p][j].name
    <3>2. s \in Seq(Names) /\ n \in Names /\ P[q] = Append(s, n)
      BY <2>5, <3>1
    <3> HIDE DEF s, n
    <3>3. Len(Append(s, n)) = Len(s) + 1
      BY <3>2
    <3> QED
      BY <3>2, <3>3 DEF s
  <2>7. Len(P[p]) \in Nat /\ Len(P[p]) = m - i
    <3>1. Len(P[p]) \in Nat
      BY <1>1
    <3> HIDE DEF m
    <3> QED
      BY <1>2, <2>1, <2>6, <3>1
  <2> QED
    BY <1>2, <2>7
<1>5. \A i \in 0 .. m : i \in S
  <2> HIDE DEF S, m
  <2> QED
    BY <1>2, <1>3, <1>4, CountUp
<1>6. ASSUME NEW k \in 1 .. m PROVE \E q \in Clusters : q \in DOMAIN P /\ Len(P[q]) = k
  <2>1. m - k \in 0 .. m /\ m - (m - k) = k
    <3> HIDE DEF m
    <3> QED
      BY <1>2
  <2>2. m - k \in S
    <3> HIDE DEF S, m
    <3> QED
      BY <1>5, <2>1
  <2>3. PICK q \in DOMAIN P : Len(P[q]) = k
    BY <2>1, <2>2
  <2>4. q # 0
    BY <2>3 DEF Mapped
  <2> QED
    BY <2>3, <2>4 DEF Mapped, Places
<1> DEFINE h == [k \in 1 .. m |-> CHOOSE q \in Clusters : q \in DOMAIN P /\ Len(P[q]) = k]
<1>7. ASSUME NEW k \in 1 .. m PROVE h[k] \in Clusters /\ Len(P[h[k]]) = k
  <2> HIDE DEF m
  <2> QED
    BY <1>6
<1>8. h \in [1 .. m -> Clusters]
  BY <1>7
<1>9. \A a, b \in 1 .. m : h[a] = h[b] => a = b
  <2> HIDE DEF h, m
  <2> QED
    BY <1>7
<1> HIDE DEF h, m, S
<1>10. h \in Injection(1 .. m, Clusters)
  BY <1>8, <1>9 DEF Injection, IsInjective
<1>11. IsFiniteSet(Clusters) /\ Cardinality(Clusters) \in 0 .. NClus
  BY AtMostNClus
<1>12. Cardinality(1 .. m) <= Cardinality(Clusters)
  BY <1>10, <1>11, FS_Injection
<1>13. Cardinality(1 .. m) = m
  <2>1. Cardinality(1 .. m) = IF 1 > m THEN 0 ELSE m - 1 + 1
    BY <1>2, FS_Interval
  <2> QED
    BY <1>2, <2>1
<1>14. m \in 0 .. NClus
  BY <1>2, <1>11, <1>12, <1>13, FsAssumption
<1> QED
  BY <1>14 DEF m

\* What a level of Dirs adds to the directories found so far.
Upto(P, k) == {<<P[d], d>> : d \in {d \in DOMAIN P : Len(P[d]) <= k}}

\* What is k levels down has a path of k names at most, and is found.
LEMMA DirsMapped ==
  ASSUME NEW r, NEW data, Tidy(r, FS_MAX_FILES), TidyData(data),
         NEW P, Mapped(Shelf(r, data), P), Hung(Shelf(r, data), P)
  PROVE  Dirs(r, data) = {<<P[d], d>> : d \in DOMAIN P}
<1> DEFINE F == Shelf(r, data)
<1>1. PICK l : Levels(l, r, data)
  BY DirsLevels
<1>2. NClus \in Nat
  BY FsAssumption
<1>3. Mapped(F, P) /\ Hung(F, P)
  OBVIOUS
<1>4. \A d \in DOMAIN P : d \in Places /\ P[d] \in Seq(Names) /\ Len(P[d]) \in Nat
  BY <1>3 DEF Mapped
<1>5. \A d \in DOMAIN P : F[d] = EntriesOf(r, data, d)
  BY <1>4 DEF Shelf
<1> HIDE DEF F
<1> DEFINE S == {k \in 0 .. NClus : l[k] = Upto(P, k)}
<1>6. 0 \in S
  <2>1. \A d \in DOMAIN P : Len(P[d]) <= 0 <=> d = 0
    <3>1. 0 \in DOMAIN P /\ P[0] = <<>> /\ Len(P[0]) = 0
      BY <1>3 DEF Mapped
    <3>2. ASSUME NEW d \in DOMAIN P, Len(P[d]) <= 0 PROVE d = 0
      <4>1. P[d] = <<>>
        BY <1>4, <3>2
      <4> QED
        BY <1>3, <3>1, <4>1 DEF Mapped
    <3> QED
      BY <3>1, <3>2
  <2>2. {d \in DOMAIN P : Len(P[d]) <= 0} = {0} /\ P[0] = <<>>
    BY <1>3, <2>1 DEF Mapped
  <2>3. Upto(P, 0) = {<<<<>>, 0>>}
    BY <2>2 DEF Upto
  <2>4. l[0] = {<<<<>>, 0>>}
    BY <1>1 DEF Levels
  <2>5. l[0] = Upto(P, 0)
    BY <2>3, <2>4
  <2>6. 0 \in 0 .. NClus
    BY <1>2
  <2> QED
    BY <2>5, <2>6
<1>7. ASSUME NEW q \in DOMAIN P, NEW y
      PROVE  y \in Subdirs(r, data, <<P[q], q>>) <=>
               \E j \in Used(F[q]) : F[q][j].dir /\ y = <<P[F[q][j].fst], F[q][j].fst>>
  <2>1. <<P[q], q>>[1] = P[q] /\ <<P[q], q>>[2] = q
    OBVIOUS
  <2>2. Subdirs(r, data, <<P[q], q>>) =
          {<<Append(P[q], F[q][j].name), F[q][j].fst>> : j \in {j \in Used(F[q]) : F[q][j].dir}}
    BY <1>5, <2>1 DEF Subdirs
  <2>3. \A j \in Used(F[q]) : F[q][j].dir => P[F[q][j].fst] = Append(P[q], F[q][j].name)
    BY <1>3 DEF Hung, LeadsTo
  <2> QED
    BY <2>2, <2>3
<1>8. ASSUME NEW q \in DOMAIN P, NEW j \in Used(F[q]), F[q][j].dir
      PROVE  F[q][j].fst \in DOMAIN P /\ Len(P[F[q][j].fst]) = Len(P[q]) + 1
  <2>1. F[q][j].fst \in DOMAIN P /\ P[F[q][j].fst] = Append(P[q], F[q][j].name)
    BY <1>3, <1>8 DEF Hung, LeadsTo
  <2>2. F[q][j].name \in Names /\ P[q] \in Seq(Names)
    BY <1>4 DEF Used
  <2> DEFINE s == P[q]
             n == F[q][j].name
  <2>3. P[F[q][j].fst] = Append(s, n) /\ s \in Seq(Names) /\ n \in Names
    BY <2>1, <2>2
  <2> HIDE DEF s, n
  <2>4. Len(Append(s, n)) = Len(s) + 1
    BY <2>3
  <2> QED
    BY <2>1, <2>3, <2>4 DEF s
<1>9. ASSUME NEW k \in 1 .. NClus, k - 1 \in S PROVE k \in S
  <2>1. k \in 0 .. NClus /\ k - 1 \in Nat
    BY <1>2
  <2>2. l[k] = UNION {{x} \cup Subdirs(r, data, x) : x \in Upto(P, k - 1)}
    BY <1>1, <1>9 DEF Levels
  <2>3. ASSUME NEW y \in l[k] PROVE y \in Upto(P, k)
    <3>1. PICK q \in DOMAIN P : /\ Len(P[q]) <= k - 1
                                /\ y \in {<<P[q], q>>} \cup Subdirs(r, data, <<P[q], q>>)
      BY <2>2, <2>3 DEF Upto
    <3>2. CASE y = <<P[q], q>>
      <4>1. Len(P[q]) <= k
        BY <1>4, <2>1, <3>1
      <4> QED
        BY <3>2, <4>1 DEF Upto
    <3>3. CASE y \in Subdirs(r, data, <<P[q], q>>)
      <4>1. PICK j \in Used(F[q]) : F[q][j].dir /\ y = <<P[F[q][j].fst], F[q][j].fst>>
        BY <1>7, <3>3
      <4>2. F[q][j].fst \in DOMAIN P /\ Len(P[F[q][j].fst]) = Len(P[q]) + 1
        BY <1>8, <4>1
      <4>3. Len(P[F[q][j].fst]) <= k
        BY <1>4, <2>1, <3>1, <4>2
      <4> QED
        BY <4>1, <4>2, <4>3 DEF Upto
    <3> QED
      BY <3>1, <3>2, <3>3
  <2>4. ASSUME NEW y \in Upto(P, k) PROVE y \in l[k]
    <3>1. PICK d \in DOMAIN P : Len(P[d]) <= k /\ y = <<P[d], d>>
      BY <2>4 DEF Upto
    <3>2. CASE Len(P[d]) <= k - 1
      <4>1. y \in Upto(P, k - 1)
        BY <3>1, <3>2 DEF Upto
      <4> QED
        BY <2>2, <4>1
    <3>3. CASE Len(P[d]) = k
      <4>1. d # 0
        BY <1>3, <2>1, <3>3 DEF Mapped
      <4>2. PICK q \in DOMAIN P : \E j \in Used(F[q]) : F[q][j].dir /\ F[q][j].fst = d
        BY <1>3, <4>1 DEF Hung
      <4>3. PICK j \in Used(F[q]) : F[q][j].dir /\ F[q][j].fst = d
        BY <4>2
      <4>4. Len(P[q]) <= k - 1
        BY <1>4, <1>8, <2>1, <3>3, <4>3
      <4>5. y \in Subdirs(r, data, <<P[q], q>>)
        BY <1>7, <3>1, <4>3
      <4>6. <<P[q], q>> \in Upto(P, k - 1)
        BY <4>4 DEF Upto
      <4> QED
        BY <2>2, <4>5, <4>6
    <3> QED
      BY <1>4, <2>1, <3>1, <3>2, <3>3
  <2> QED
    BY <2>1, <2>3, <2>4
<1>10. NClus \in S
  <2>1. NClus \in 0 .. NClus
    BY <1>2
  <2> HIDE DEF S
  <2> QED
    BY <1>2, <1>6, <1>9, <2>1, CountUp
<1>11. Dirs(r, data) = Upto(P, NClus)
  BY <1>1, <1>10 DEF Levels
<1>12. \A d \in DOMAIN P : Len(P[d]) <= NClus
  BY <1>2, <1>3, DepthBound
<1> QED
  BY <1>11, <1>12 DEF Upto

\* The entry in slot j of directory d, as it is listed.
Item(F, P, d, j) ==
  [path |-> Append(P[d], F[d][j].name), at |-> <<d, j>>, ent |-> F[d][j]]

\* A volume that its buffers and its data hold.
Sound(f, r, data, P) ==
  Tidy(r, FS_MAX_FILES) /\ TidyData(data) /\ Volume(f, Shelf(r, data), P)

\* The listing is the used entries of the directories of the map.
LEMMA ListingIs ==
  ASSUME NEW f, NEW r, NEW data, NEW P, Sound(f, r, data, P), NEW l
  PROVE  LET F == Shelf(r, data)
         IN l \in Listing(r, data) <=>
              \E d \in DOMAIN P : \E j \in Used(F[d]) : l = Item(F, P, d, j)
<1> DEFINE F == Shelf(r, data)
<1>1. Dirs(r, data) = {<<P[d], d>> : d \in DOMAIN P}
  BY DirsMapped DEF Sound, Volume
<1>2. \A d \in DOMAIN P : F[d] = EntriesOf(r, data, d)
  BY DEF Sound, Volume, Mapped, Shelf
<1> DEFINE G(x) == LET e == EntriesOf(r, data, x[2]) IN
         {[path |-> Append(x[1], e[j].name), at |-> <<x[2], j>>, ent |-> e[j]] : j \in Used(e)}
<1>3. Listing(r, data) = UNION {G(x) : x \in Dirs(r, data)}
  BY DEF Listing
<1>4. ASSUME NEW d \in DOMAIN P
      PROVE  G(<<P[d], d>>) = {Item(F, P, d, j) : j \in Used(F[d])}
  <2>1. <<P[d], d>>[1] = P[d] /\ <<P[d], d>>[2] = d
    OBVIOUS
  <2> HIDE DEF F
  <2> QED
    BY <1>2, <2>1 DEF Item
<1> HIDE DEF F, G
<1>5. l \in Listing(r, data) <=> \E d \in DOMAIN P : l \in G(<<P[d], d>>)
  BY <1>1, <1>3
<1>6. l \in Listing(r, data) <=>
        \E d \in DOMAIN P : \E j \in Used(F[d]) : l = Item(F, P, d, j)
  BY <1>4, <1>5
<1> QED
  BY <1>6 DEF F

\* Its clusters are owned once.
LEMMA VolumeOwned ==
  ASSUME NEW f, NEW r, NEW data, NEW P, Sound(f, r, data, P)
  PROVE  OwnedOnce(f, r, data)
<1> DEFINE F == Shelf(r, data)
           L == Listing(r, data)
<1>1. Volume(f, F, P)
  BY DEF Sound
<1>2. \A l : l \in L <=> \E d \in DOMAIN P : \E j \in Used(F[d]) : l = Item(F, P, d, j)
  BY ListingIs
<1>3. \A d, j : Item(F, P, d, j).ent = F[d][j]
  BY DEF Item
<1>4. \A d \in DOMAIN P : d \in Places
  BY <1>1 DEF Volume, Mapped
<1> HIDE DEF F, L
<1>5. ASSUME NEW a \in L, NEW b \in L, a # b
      PROVE  Chain(f, a.ent.fst) \cap Chain(f, b.ent.fst) = {}
  <2>a. PICK d \in DOMAIN P : \E i \in Used(F[d]) : a = Item(F, P, d, i)
    BY <1>2
  <2>1. PICK i \in Used(F[d]) : a = Item(F, P, d, i)
    BY <2>a
  <2>b. PICK q \in DOMAIN P : \E j \in Used(F[q]) : b = Item(F, P, q, j)
    BY <1>2
  <2>2. PICK j \in Used(F[q]) : b = Item(F, P, q, j)
    BY <2>b
  <2>3. <<d, i>> # <<q, j>>
    BY <1>5, <2>1, <2>2
  <2>4. a.ent = F[d][i] /\ b.ent = F[q][j]
    BY <1>3, <2>1, <2>2
  <2> QED
    BY <1>1, <2>3, <2>4 DEF Volume, Owned
<1>6. ASSUME NEW c
      PROVE  c \in UNION {Chain(f, l.ent.fst) : l \in L} <=> c \in Clusters \ FreeIn(f)
  <2>1. c \in UNION {Chain(f, l.ent.fst) : l \in L} <=>
          \E d \in DOMAIN P : \E j \in Used(F[d]) : c \in Chain(f, F[d][j].fst)
    <3>1. ASSUME NEW l \in L, c \in Chain(f, l.ent.fst)
          PROVE  \E d \in DOMAIN P : \E j \in Used(F[d]) : c \in Chain(f, F[d][j].fst)
      BY <1>2, <1>3, <3>1
    <3>2. ASSUME NEW d \in DOMAIN P, NEW j \in Used(F[d]), c \in Chain(f, F[d][j].fst)
          PROVE  \E l \in L : c \in Chain(f, l.ent.fst)
      <4>1. Item(F, P, d, j) \in L
        BY <1>2
      <4> QED
        BY <1>3, <3>2, <4>1
    <3> QED
      BY <3>1, <3>2
  <2>2. ASSUME NEW d \in DOMAIN P, NEW j \in Used(F[d]), c \in Chain(f, F[d][j].fst)
        PROVE  c \in Clusters
    BY <1>1, <2>2, OwnedChain DEF Volume
  <2>3. FreeIn(f) \subseteq Clusters
    BY DEF FreeIn
  <2> QED
    BY <1>1, <2>1, <2>2, <2>3 DEF Volume, Owned
<1>7. UNION {Chain(f, l.ent.fst) : l \in L} = Clusters \ FreeIn(f)
  BY <1>6
<1> QED
  BY <1>5, <1>7 DEF OwnedOnce, L

\* The file or the directory that an entry stands for.
Node(f, data, F, P, d, j) ==
  [path |-> Append(P[d], F[d][j].name), dir |-> F[d][j].dir,
   text |-> IF F[d][j].dir THEN <<>> ELSE Load(f, data, F[d][j].fst, F[d][j].size)]

\* The tree is the root and a node for each of those entries.
LEMMA TreeIs ==
  ASSUME NEW f, NEW r, NEW data, NEW P, Sound(f, r, data, P), NEW y
  PROVE  LET F == Shelf(r, data)
         IN y \in TreeOf(f, r, data) <=>
              \/ y = [path |-> <<>>, dir |-> TRUE, text |-> <<>>]
              \/ \E d \in DOMAIN P : \E j \in Used(F[d]) : y = Node(f, data, F, P, d, j)
<1> DEFINE F == Shelf(r, data)
           L == Listing(r, data)
           N(l) == [path |-> l.path, dir |-> l.ent.dir,
                    text |-> IF l.ent.dir THEN <<>> ELSE Load(f, data, l.ent.fst, l.ent.size)]
<1>1. \A l : l \in L <=> \E d \in DOMAIN P : \E j \in Used(F[d]) : l = Item(F, P, d, j)
  BY ListingIs
<1>2. \A d, j : N(Item(F, P, d, j)) = Node(f, data, F, P, d, j)
  <2> TAKE d, j
  <2>1. Item(F, P, d, j).ent = F[d][j] /\ Item(F, P, d, j).path = Append(P[d], F[d][j].name)
    BY DEF Item
  <2> HIDE DEF F
  <2> QED
    BY <2>1 DEF Node
<1>3. TreeOf(f, r, data) =
        {[path |-> <<>>, dir |-> TRUE, text |-> <<>>]} \cup {N(l) : l \in L}
  BY DEF TreeOf
<1> HIDE DEF F, L, N
<1>4. y \in {N(l) : l \in L} <=>
        \E d \in DOMAIN P : \E j \in Used(F[d]) : y = Node(f, data, F, P, d, j)
  <2>1. ASSUME NEW l \in L, y = N(l)
        PROVE  \E d \in DOMAIN P : \E j \in Used(F[d]) : y = Node(f, data, F, P, d, j)
    BY <1>1, <1>2, <2>1
  <2>2. ASSUME NEW d \in DOMAIN P, NEW j \in Used(F[d]), y = Node(f, data, F, P, d, j)
        PROVE  \E l \in L : y = N(l)
    <3>1. Item(F, P, d, j) \in L
      BY <1>1
    <3> QED
      BY <1>2, <2>2, <3>1
  <2> QED
    BY <2>1, <2>2
<1>5. y \in TreeOf(f, r, data) <=>
        \/ y = [path |-> <<>>, dir |-> TRUE, text |-> <<>>]
        \/ \E d \in DOMAIN P : \E j \in Used(F[d]) : y = Node(f, data, F, P, d, j)
  BY <1>3, <1>4
<1> QED
  BY <1>5 DEF F

-----------------------------------------------------------------------------
(* Commands that succeed *)

\* FAT f and the entries e of the current directory end up in the buffers and on
\* the disk, over the data a.
Stores(f, e, a) ==
  /\ disk' = [boot |-> disk.boot, fat |-> f, root |-> NewRoot(e, disk),
              data |-> IF cwd = 0 THEN a ELSE [a EXCEPT ![cwd] = DirSector(e)]]
  /\ fat' = f /\ root' = (IF cwd = 0 THEN e ELSE root)
  /\ ret' = 0 /\ UNCHANGED <<cwd, path, fs_ready>>

\* An outcome that no error of the disk is the reason for.
Faultless(o) == o.why = ""

\* The fields of an outcome.
LEMMA OutcomeParts ==
  ASSUME NEW why, NEW rc, NEW f, NEW e, NEW d
  PROVE  LET o == Outcome(why, rc, f, e, d)
         IN o.why = why /\ o.rc = rc /\ o.fat = f /\ o.ents = e /\ o.disk = d
BY DEF Outcome

\* A disk with another part.
LEMMA DiskWith ==
  ASSUME NEW d, TidyDisk(d), NEW x
  PROVE  /\ [d EXCEPT !.root = x] =
              [boot |-> d.boot, fat |-> d.fat, root |-> x, data |-> d.data]
         /\ [d EXCEPT !.fat = x] =
              [boot |-> d.boot, fat |-> x, root |-> d.root, data |-> d.data]
         /\ [d EXCEPT !.data = x] =
              [boot |-> d.boot, fat |-> d.fat, root |-> d.root, data |-> x]
         /\ \A c : [d EXCEPT !.data[c] = x] =
              [boot |-> d.boot, fat |-> d.fat, root |-> d.root,
               data |-> [d.data EXCEPT ![c] = x]]
BY DEF TidyDisk

\* What flush_current_dir stores.
LEMMA FlushStores ==
  ASSUME NEW f, NEW e, NEW d, TidyDisk(d), d.boot = disk.boot, d.root = disk.root,
         d.fat = f, NEW o \in DirFlushes(f, e, d), Faultless(o), Return(o)
  PROVE  Stores(f, e, d.data)
<1>1. /\ disk' = o.disk /\ fat' = o.fat /\ ret' = o.rc
      /\ root' = (IF cwd = 0 THEN o.ents ELSE root) /\ UNCHANGED <<cwd, path, fs_ready>>
  BY DEF Return
<1>2. o.why # "dir"
  BY DEF Faultless
<1>3. CASE cwd = 0
  <2>1. o = Outcome("", 0, f, e, [d EXCEPT !.root = e])
    <3>1. ASSUME NEW k \in DOMAIN e,
                 o = Outcome("dir", -1, f, e, [d EXCEPT !.root = Cut(d.root, e, k)])
          PROVE  FALSE
      BY <1>2, <3>1, OutcomeParts
    <3> QED
      BY <1>3, <3>1 DEF DirFlushes
  <2>2. [d EXCEPT !.root = e] =
          [boot |-> d.boot, fat |-> d.fat, root |-> e, data |-> d.data]
    BY DiskWith
  <2>3. o.disk = [d EXCEPT !.root = e] /\ o.ents = e /\ o.fat = f /\ o.rc = 0
    BY <2>1 DEF Outcome
  <2> QED
    BY <1>1, <1>3, <2>2, <2>3 DEF Stores, NewRoot
<1>4. CASE cwd # 0
  <2>1. o = Outcome("", 0, f, e, [d EXCEPT !.data[cwd] = DirSector(e)])
    <3>1. o # Outcome("dir", -1, f, e, d)
      BY <1>2, OutcomeParts
    <3> QED
      BY <1>4, <3>1 DEF DirFlushes
  <2> DEFINE a == [d.data EXCEPT ![cwd] = DirSector(e)]
  <2>2. [d EXCEPT !.data[cwd] = DirSector(e)] =
          [boot |-> d.boot, fat |-> d.fat, root |-> d.root, data |-> a]
    BY DiskWith
  <2>3. /\ o.disk = [d EXCEPT !.data[cwd] = DirSector(e)] /\ o.ents = e
        /\ o.fat = f /\ o.rc = 0
    BY <2>1 DEF Outcome
  <2> QED
    BY <1>1, <1>4, <2>2, <2>3 DEF Stores, NewRoot
<1> QED
  BY <1>3, <1>4

\* What flush_fat and flush_current_dir store.
LEMMA CommitStores ==
  ASSUME NEW f, NEW e, NEW d, TidyDisk(d), d.boot = disk.boot, d.root = disk.root,
         NEW o \in Commit(f, e, d), Faultless(o), Return(o)
  PROVE  Stores(f, e, d.data)
<1>1. PICK p \in FatFlushes(f, e, d) :
        o \in IF p.rc # 0 THEN {p} ELSE DirFlushes(f, e, p.disk)
  BY DEF Commit
<1>2. \/ p = Outcome("", 0, f, e, [d EXCEPT !.fat = f])
      \/ p.why = "fat" /\ p.rc = -1
  <2>1. ASSUME NEW k \in Clusters,
               p = Outcome("fat", -1, f, e, [d EXCEPT !.fat = Cut(d.fat, f, k)])
        PROVE  p.why = "fat" /\ p.rc = -1
    BY <2>1 DEF Outcome
  <2> QED
    BY <2>1 DEF FatFlushes
<1>3. p = Outcome("", 0, f, e, [d EXCEPT !.fat = f])
  <2>1. ASSUME p.why = "fat", p.rc = -1 PROVE FALSE
    <3>0. p.rc # 0
      BY <2>1
    <3>1. o = p
      BY <1>1, <3>0
    <3>2. o.why = "fat"
      BY <2>1, <3>1
    <3> QED
      BY <3>2 DEF Faultless
  <2> QED
    BY <1>2, <2>1
<1> DEFINE b == [d EXCEPT !.fat = f]
<1>4. p.rc = 0 /\ p.disk = b
  BY <1>3 DEF Outcome
<1>5. b = [boot |-> d.boot, fat |-> f, root |-> d.root, data |-> d.data]
  BY DiskWith
<1>6. o \in DirFlushes(f, e, b)
  BY <1>1, <1>4
<1> HIDE DEF b
<1>7. TidyDisk(b) /\ b.boot = disk.boot /\ b.root = disk.root /\ b.fat = f /\ b.data = d.data
  BY <1>5 DEF TidyDisk
<1>8. Stores(f, e, b.data)
  BY <1>6, <1>7, FlushStores
<1> QED
  BY <1>7, <1>8

\* Without faults, a command ends in an outcome without an error of the disk.
LEMMA QuietFinish ==
  ASSUME Quiet, NEW O, Finish(O),
         \A o \in O : o.why \in {"", "data", "read", "fat", "dir"}
  PROVE  \E o \in O : Return(o) /\ Faultless(o)
<1>1. PICK o \in O : Return(o)
  BY DEF Finish, Quiet
<1>2. o.why \in Scope \cup {""}
  BY <1>1 DEF Return
<1> QED
  BY <1>1, <1>2 DEF Quiet, Faultless

\* What can end a commit.
LEMMA CommitWhy ==
  ASSUME NEW f, NEW e, NEW d, NEW o \in Commit(f, e, d)
  PROVE  o.why \in {"", "fat", "dir"}
<1>1. PICK p \in FatFlushes(f, e, d) :
        o \in IF p.rc # 0 THEN {p} ELSE DirFlushes(f, e, p.disk)
  BY DEF Commit
<1>2. p.why \in {"", "fat"}
  <2>1. ASSUME NEW k \in Clusters,
               p = Outcome("fat", -1, f, e, [d EXCEPT !.fat = Cut(d.fat, f, k)])
        PROVE  p.why = "fat"
    BY <2>1 DEF Outcome
  <2>2. CASE p = Outcome("", 0, f, e, [d EXCEPT !.fat = f])
    BY <2>2 DEF Outcome
  <2> QED
    BY <2>1, <2>2 DEF FatFlushes
<1> DEFINE b == p.disk
<1>3. ASSUME o \in DirFlushes(f, e, b) PROVE o.why \in {"", "dir"}
  <2> HIDE DEF b
  <2>1. ASSUME NEW k \in DOMAIN e,
               o = Outcome("dir", -1, f, e, [b EXCEPT !.root = Cut(b.root, e, k)])
        PROVE  o.why = "dir"
    BY <2>1 DEF Outcome
  <2>2. ASSUME NEW w \in {"", "dir"}, NEW rc, NEW x, o = Outcome(w, rc, f, e, x)
        PROVE  o.why \in {"", "dir"}
    BY <2>2 DEF Outcome
  <2>3. \/ o = Outcome("", 0, f, e, [b EXCEPT !.root = e])
        \/ \E k \in DOMAIN e :
             o = Outcome("dir", -1, f, e, [b EXCEPT !.root = Cut(b.root, e, k)])
        \/ o = Outcome("", 0, f, e, [b EXCEPT !.data[cwd] = DirSector(e)])
        \/ o = Outcome("dir", -1, f, e, b)
    BY <1>3 DEF DirFlushes
  <2> QED
    BY <2>1, <2>2, <2>3
<1> QED
  BY <1>1, <1>2, <1>3

\* rm, rmdir and the end of write and mkdir.
LEMMA CommitFinish ==
  ASSUME Quiet, NEW f, NEW e, NEW d, TidyDisk(d), d.boot = disk.boot, d.root = disk.root,
         Finish(Commit(f, e, d))
  PROVE  Stores(f, e, d.data)
<1> DEFINE O == Commit(f, e, d)
<1>1. \A o \in O : o.why \in {"", "data", "read", "fat", "dir"}
  BY CommitWhy
<1>2. Finish(O)
  OBVIOUS
<1>3. PICK o \in O : Return(o) /\ Faultless(o)
  <2> HIDE DEF O
  <2> QED
    BY <1>1, <1>2, QuietFinish
<1> QED
  BY <1>3, CommitStores

\* touch.
LEMMA FlushFinish ==
  ASSUME Quiet, TidyDisk(disk), NEW e, Finish(DirFlushes(fat, e, disk)), disk.fat = fat
  PROVE  Stores(fat, e, disk.data)
<1> DEFINE O == DirFlushes(fat, e, disk)
<1>1. ASSUME NEW o \in O PROVE o.why \in {"", "dir"}
  <2>1. ASSUME NEW k \in DOMAIN e,
               o = Outcome("dir", -1, fat, e, [disk EXCEPT !.root = Cut(disk.root, e, k)])
        PROVE  o.why = "dir"
    BY <2>1 DEF Outcome
  <2>2. ASSUME NEW w \in {"", "dir"}, NEW rc, NEW x, o = Outcome(w, rc, fat, e, x)
        PROVE  o.why \in {"", "dir"}
    BY <2>2 DEF Outcome
  <2>3. \/ o = Outcome("", 0, fat, e, [disk EXCEPT !.root = e])
        \/ \E k \in DOMAIN e :
             o = Outcome("dir", -1, fat, e, [disk EXCEPT !.root = Cut(disk.root, e, k)])
        \/ o = Outcome("", 0, fat, e, [disk EXCEPT !.data[cwd] = DirSector(e)])
        \/ o = Outcome("dir", -1, fat, e, disk)
    BY DEF DirFlushes
  <2> QED
    BY <2>1, <2>2, <2>3
<1>2. Finish(O)
  OBVIOUS
<1>3. PICK o \in O : Return(o) /\ Faultless(o)
  <2> HIDE DEF O
  <2> QED
    BY <1>1, <1>2, QuietFinish
<1> QED
  BY <1>3, FlushStores

\* write and append, when there is room.
LEMMA WriteFinish ==
  ASSUME Quiet, TidyDisk(disk), NEW f, NEW e, NEW i, NEW x, NEW t, IsText(t),
         Need(t) <= Cardinality(FreeIn(f)), Finish(WriteOut(f, e, i, x, t))
  PROVE  Stores(Linked(f, Need(t)),
                [e EXCEPT ![i] = [x EXCEPT !.fst = IF t = <<>> THEN 0 ELSE NthFree(f, 1),
                                           !.size = Len(t)]],
                Written(f, disk.data, t, Need(t)))
<1> DEFINE room == Cardinality(FreeIn(f))
           lost == [e EXCEPT ![i] = [x EXCEPT !.fst = 0]]
           b(k) == [disk EXCEPT !.data = Written(f, disk.data, t, k)]
           u == [x EXCEPT !.fst = IF t = <<>> THEN 0 ELSE NthFree(f, 1), !.size = Len(t)]
           done == [e EXCEPT ![i] = u]
           g == Linked(f, Need(t))
           O == WriteOut(f, e, i, x, t)
<1>1. ~(Need(t) > room)
  <2>1. room \in Nat /\ Need(t) \in Nat
    BY ClustersFinite, NeedPositive DEF FreeIn
  <2> HIDE DEF room
  <2>2. Need(t) <= room
    BY DEF room
  <2> QED
    BY <2>1, <2>2
<1>2. ASSUME NEW o \in O
      PROVE  \/ o.why = "data"
             \/ o \in Commit(g, done, b(Need(t)))
  <2>1. \/ \E k : o = Outcome("data", -1, f, lost, b(k))
        \/ /\ ~(Need(t) > room)
           /\ o \in Commit(g, done, b(Need(t)))
    BY <1>1 DEF WriteOut
  <2>2. \A k : Outcome("data", -1, f, lost, b(k)).why = "data"
    BY DEF Outcome
  <2> HIDE DEF b, done, lost, room
  <2> QED
    BY <2>1, <2>2
<1>3. Finish(O)
  OBVIOUS
<1> DEFINE d == b(Need(t))
<1>4. d = [boot |-> disk.boot, fat |-> disk.fat, root |-> disk.root,
           data |-> Written(f, disk.data, t, Need(t))]
  BY DEF TidyDisk
<1>5. TidyDisk(d)
  BY WrittenTidy, DiskWithData DEF TidyDisk
<1> HIDE DEF O, b, done, g, d
<1>6. d.boot = disk.boot /\ d.root = disk.root /\ d.data = Written(f, disk.data, t, Need(t))
  BY <1>4
<1>7. \A o \in O : o.why = "data" \/ o \in Commit(g, done, d)
  BY <1>2 DEF d
<1>8. \A o \in O : o.why \in {"", "data", "read", "fat", "dir"}
  BY <1>7, CommitWhy
<1>9. PICK o \in O : Return(o) /\ Faultless(o)
  BY <1>3, <1>8, QuietFinish
<1>10. o \in Commit(g, done, d)
  BY <1>7, <1>9 DEF Faultless
<1>11. Stores(g, done, d.data)
  BY <1>5, <1>6, <1>9, <1>10, CommitStores
<1> QED
  BY <1>6, <1>11 DEF g, done

-----------------------------------------------------------------------------
(* The invariant of the volume *)

\* P maps the volume on the disk, and says where the user is.
TreeAt(P) ==
  /\ Sound(disk.fat, disk.root, disk.data, P) /\ DOMAIN disk.fat = Clusters
  /\ cwd \in DOMAIN P /\ path = P[cwd]

\* The volume is in order; the buffers of a machine that is off are empty, and so
\* is a volume that has not been formatted.
TreeInv ==
  /\ VolumeInv /\ Synced /\ \E P : TreeAt(P)
  /\ ~fs_ready => cwd = 0 /\ path = <<>> /\ root = Blank(FS_MAX_FILES)
  /\ fs_ready => disk.boot
  /\ ~disk.boot => disk.fat = [c \in Clusters |-> FREE] /\ disk.root = Blank(FS_MAX_FILES)

\* The entries a command leaves.
LEMMA ShelfAfter ==
  ASSUME VolumeInv, Synced, fs_ready, NEW f, NEW e, NEW a, DOMAIN a = Clusters,
         Stores(f, e, a)
  PROVE  /\ Shelf(disk'.root, disk'.data)[cwd] = e
         /\ \A d \in Places : d # cwd =>
              Shelf(disk'.root, disk'.data)[d] = EntriesOf(root, a, d)
         /\ \A c \in Clusters : c # cwd => disk'.data[c] = a[c]
         /\ disk'.fat = f
<1> DEFINE b == IF cwd = 0 THEN a ELSE [a EXCEPT ![cwd] = DirSector(e)]
           r == NewRoot(e, disk)
<1>1. disk' = [boot |-> disk.boot, fat |-> f, root |-> r, data |-> b]
  BY DEF Stores
<1>2. cwd \in Places /\ root = disk.root
  BY DEF VolumeInv, Synced
<1>3. DirSector(e).ents = e
  BY DEF DirSector
<1>4. \A c \in Clusters : c # cwd => b[c] = a[c]
  OBVIOUS
<1>5. cwd # 0 => b[cwd] = DirSector(e)
  BY <1>2 DEF Places
<1>6. r = IF cwd = 0 THEN e ELSE root
  BY <1>2 DEF NewRoot
<1> HIDE DEF b, r
<1>7. disk'.root = r /\ disk'.data = b /\ disk'.fat = f
  BY <1>1
<1>8. EntriesOf(r, b, cwd) = e
  BY <1>2, <1>3, <1>5, <1>6 DEF EntriesOf
<1>9. ASSUME NEW d \in Places, d # cwd PROVE EntriesOf(r, b, d) = EntriesOf(root, a, d)
  BY <1>4, <1>6, <1>9 DEF EntriesOf, Places
<1>10. \A d \in Places : Shelf(r, b)[d] = EntriesOf(r, b, d)
  BY DEF Shelf
<1> QED
  BY <1>2, <1>4, <1>7, <1>8, <1>9, <1>10

\* No file has the cluster of a directory.
LEMMA DirNotInFile ==
  ASSUME NEW f, NEW F, NEW P, Volume(f, F, P), NEW d \in DOMAIN P, d # 0,
         NEW q \in DOMAIN P, NEW i \in Used(F[q]), ~F[q][i].dir
  PROVE  d \notin Chain(f, F[q][i].fst)
<1>1. d \in Clusters
  BY DirInCluster
<1>2. PICK p \in DOMAIN P : \E j \in Used(F[p]) : F[p][j].dir /\ F[p][j].fst = d
  BY DEF Volume, Hung
<1>3. PICK j \in Used(F[p]) : F[p][j].dir /\ F[p][j].fst = d
  BY <1>2
<1>4. d \in Chain(f, F[p][j].fst)
  BY <1>1, <1>3, ChainHead
<1>5. <<q, i>> # <<p, j>>
  BY <1>3
<1>6. Chain(f, F[q][i].fst) \cap Chain(f, F[p][j].fst) = {}
  BY <1>5 DEF Volume, Owned
<1> QED
  BY <1>4, <1>6

\* A command on the file n of the current directory: slot i gets the entry x, the
\* clusters Old are given back, New are taken, and nothing else is touched.
Here == Shelf(root, disk.data)[cwd]
FileStep(n, i, x, g, a, Old, New) ==
  /\ Stores(g, [Here EXCEPT ![i] = x], a)
  /\ i \in 1 .. SlotsOf(cwd) /\ Tidy([Here EXCEPT ![i] = x], SlotsOf(cwd))
  /\ Here[i].name \notin {".", ".."} /\ (i \in Used(Here) => ~Here[i].dir /\ Here[i].name = n)
  /\ x.name \in Names => ~x.dir /\ x.name = n
  /\ \A j \in Used(Here) : Here[j].name = n => j = i
  /\ Old = IF i \in Used(Here) THEN Chain(fat, Here[i].fst) ELSE {}
  /\ New = IF x.name \in Names THEN Chain(g, x.fst) ELSE {}
  /\ New \subseteq FreeIn(fat) \cup Old
  /\ FreeIn(g) = (FreeIn(fat) \cup Old) \ New
  /\ DOMAIN g = Clusters /\ DOMAIN a = Clusters
  /\ \A c \in Clusters : c \notin FreeIn(fat) \cup Old => g[c] = fat[c] /\ a[c] = disk.data[c]

\* It changes one file.
LEMMA FileStepOne ==
  ASSUME VolumeInv, Synced, fs_ready, NEW P, TreeAt(P), NEW n, NEW i, NEW x, NEW g, NEW a,
         NEW Old, NEW New, FileStep(n, i, x, g, a, Old, New)
  PROVE  LET F == Shelf(root, disk.data)
             G == Shelf(disk'.root, disk'.data)
         IN /\ Volume(fat, F, P) /\ OneFile(fat, g, F, G, P, cwd, i, x, Old, New)
            /\ disk'.fat = g
            /\ \A c \in Clusters : c # cwd /\ c \notin FreeIn(fat) \cup Old =>
                 disk'.data[c] = disk.data[c]
<1> DEFINE F == Shelf(root, disk.data)
           G == Shelf(disk'.root, disk'.data)
           u == [Here EXCEPT ![i] = x]
<1>1. fat = disk.fat /\ root = disk.root /\ Here = F[cwd]
  BY DEF Synced, Here
<1>2. Volume(fat, F, P) /\ cwd \in DOMAIN P
  BY <1>1 DEF TreeAt, Sound
<1>3. Stores(g, u, a) /\ DOMAIN a = Clusters
  BY DEF FileStep
<1> HIDE DEF u
<1>4. /\ G[cwd] = u
      /\ \A d \in Places : d # cwd => G[d] = EntriesOf(root, a, d)
      /\ \A c \in Clusters : c # cwd => disk'.data[c] = a[c]
      /\ disk'.fat = g
  BY <1>3, ShelfAfter
<1>5. \A d \in Places : F[d] = EntriesOf(root, disk.data, d)
  BY DEF Shelf
<1> HIDE DEF F, G
<1>6. ASSUME NEW d \in DOMAIN P, d # cwd PROVE G[d] = F[d]
  <2>1. d \in Places
    BY <1>2 DEF Volume, Mapped
  <2>2. d # 0 => a[d] = disk.data[d]
    <3> SUFFICES ASSUME d # 0 PROVE a[d] = disk.data[d]
      OBVIOUS
    <3>1. d \in Clusters /\ d \notin FreeIn(fat)
      BY <1>2, DirInCluster
    <3>2. d \notin Old
      <4>1. CASE i \in Used(F[cwd])
        <5>1. ~F[cwd][i].dir /\ Old = Chain(fat, F[cwd][i].fst)
          BY <1>1, <4>1 DEF FileStep
        <5> QED
          BY <1>2, <4>1, <5>1, DirNotInFile
      <4>2. CASE i \notin Used(F[cwd])
        BY <1>1, <4>2 DEF FileStep
      <4> QED
        BY <4>1, <4>2
    <3> QED
      BY <3>1, <3>2 DEF FileStep
  <2>3. EntriesOf(root, a, d) = EntriesOf(root, disk.data, d)
    BY <2>2 DEF EntriesOf
  <2> QED
    BY <1>4, <1>5, <1>6, <2>1, <2>3
<1>7. OneFile(fat, g, F, G, P, cwd, i, x, Old, New)
  BY <1>1, <1>2, <1>4, <1>6 DEF OneFile, FileStep, u
<1>8. ASSUME NEW c \in Clusters, c # cwd, c \notin FreeIn(fat) \cup Old
      PROVE  disk'.data[c] = disk.data[c]
  BY <1>4, <1>8 DEF FileStep
<1> QED
  BY <1>2, <1>4, <1>7, <1>8 DEF F, G

\* The map stays as it is.
LEMMA FileStepKeeps ==
  ASSUME TreeInv, fs_ready, NEW P, TreeAt(P), NEW n, NEW i, NEW x, NEW g, NEW a,
         NEW Old, NEW New, FileStep(n, i, x, g, a, Old, New), VolumeInv', Synced'
  PROVE  TreeInv' /\ TreeAt(P)'
<1> DEFINE F == Shelf(root, disk.data)
           G == Shelf(disk'.root, disk'.data)
<1>1. VolumeInv /\ Synced /\ disk.boot
  BY DEF TreeInv
<1>2. Volume(fat, F, P) /\ OneFile(fat, g, F, G, P, cwd, i, x, Old, New) /\ disk'.fat = g
  BY <1>1, FileStepOne
<1> HIDE DEF F, G
<1>3. Volume(g, G, P)
  BY <1>2, OneFileVolume
<1>4. /\ cwd' = cwd /\ path' = path /\ fs_ready' = fs_ready /\ disk'.boot = disk.boot
      /\ DOMAIN g = Clusters
  BY DEF FileStep, Stores
<1>5. Sound(disk'.fat, disk'.root, disk'.data, P)
  BY <1>2, <1>3 DEF Sound, VolumeInv, TidyDisk, G
<1>6. TreeAt(P)'
  BY <1>2, <1>4, <1>5 DEF TreeAt
<1> QED
  BY <1>1, <1>4, <1>6 DEF TreeInv

-----------------------------------------------------------------------------
(* What a command does to the tree *)

\* A path tells its last name and what is before it.
LEMMA AppendOnce ==
  ASSUME NEW S, NEW s \in Seq(S), NEW t \in Seq(S), NEW a \in S, NEW b \in S
  PROVE  /\ Append(s, a) # <<>>
         /\ Append(s, a) = Append(t, b) => s = t /\ a = b
<1> DEFINE u == Append(s, a)
           v == Append(t, b)
<1>1. /\ u \in Seq(S) /\ Len(u) = Len(s) + 1 /\ Len(s) \in Nat /\ u[Len(s) + 1] = a
      /\ \A i \in 1 .. Len(s) : u[i] = s[i]
  OBVIOUS
<1>2. /\ v \in Seq(S) /\ Len(v) = Len(t) + 1 /\ Len(t) \in Nat /\ v[Len(t) + 1] = b
      /\ \A i \in 1 .. Len(t) : v[i] = t[i]
  OBVIOUS
<1> HIDE DEF u, v
<1>3. u # <<>>
  BY <1>1
<1>4. ASSUME u = v PROVE s = t /\ a = b
  <2>1. Len(s) = Len(t)
    BY <1>1, <1>2, <1>4
  <2>2. a = b
    BY <1>1, <1>2, <1>4, <2>1
  <2>3. \A i \in 1 .. Len(s) : s[i] = t[i]
    BY <1>1, <1>2, <1>4, <2>1
  <2>4. s = t
    BY <2>1, <2>3
  <2> QED
    BY <2>2, <2>4
<1> QED
  BY <1>3, <1>4 DEF u, v

\* An entry is told by its path.
LEMMA PathTells ==
  ASSUME NEW F, NEW P, Mapped(F, P), NEW d \in DOMAIN P, NEW q \in DOMAIN P,
         NEW j \in Used(F[d]), NEW n \in Names,
         Append(P[d], F[d][j].name) = Append(P[q], n)
  PROVE  d = q /\ F[d][j].name = n
<1>1. P[d] \in Seq(Names) /\ P[q] \in Seq(Names) /\ F[d][j].name \in Names
  BY DEF Mapped, Used
<1> DEFINE s == P[d]
           t == P[q]
           m == F[d][j].name
<1>2. s \in Seq(Names) /\ t \in Seq(Names) /\ m \in Names /\ Append(s, m) = Append(t, n)
  BY <1>1
<1> HIDE DEF s, t, m
<1>3. s = t /\ m = n
  BY <1>2, AppendOnce
<1> QED
  BY <1>3 DEF Mapped, s, t, m

Root == [path |-> <<>>, dir |-> TRUE, text |-> <<>>]

\* The tree of a volume.
LEMMA TreeHas ==
  ASSUME NEW f, NEW r, NEW data, NEW P, Sound(f, r, data, P), NEW F, F = Shelf(r, data)
  PROVE  \A y : y \in TreeOf(f, r, data) <=>
           y = Root \/ \E d \in DOMAIN P : \E j \in Used(F[d]) : y = Node(f, data, F, P, d, j)
BY TreeIs DEF Root

\* What the command of FileStep does to it.
LEMMA FileStepTree ==
  ASSUME TreeInv, fs_ready, NEW P, TreeAt(P), NEW n \in Names, NEW i, NEW x, NEW g, NEW a,
         NEW Old, NEW New, FileStep(n, i, x, g, a, Old, New), VolumeInv', Synced', NEW y
  PROVE  y \in TreeOf(disk'.fat, disk'.root, disk'.data) <=>
           \/ y \in TreeOf(fat, root, disk.data) /\ y.path # Append(path, n)
           \/ /\ x.name \in Names
              /\ y = [path |-> Append(path, n), dir |-> FALSE,
                      text |-> Load(g, disk'.data, x.fst, x.size)]
<1> DEFINE F == Shelf(root, disk.data)
           G == Shelf(disk'.root, disk'.data)
           p == Append(path, n)
           X == [path |-> p, dir |-> FALSE, text |-> Load(g, disk'.data, x.fst, x.size)]
           T == TreeOf(fat, root, disk.data)
           U == TreeOf(disk'.fat, disk'.root, disk'.data)
<1>1. VolumeInv /\ Synced /\ fat = disk.fat /\ root = disk.root
  BY DEF TreeInv, Synced
<1>2. /\ Volume(fat, F, P) /\ OneFile(fat, g, F, G, P, cwd, i, x, Old, New) /\ disk'.fat = g
      /\ \A c \in Clusters : c # cwd /\ c \notin FreeIn(fat) \cup Old =>
           disk'.data[c] = disk.data[c]
  BY <1>1, FileStepOne
<1>3. Sound(fat, root, disk.data, P) /\ cwd \in DOMAIN P /\ path = P[cwd]
  BY <1>1 DEF TreeAt
<1>4. Sound(disk'.fat, disk'.root, disk'.data, P)
  <2>1. TreeAt(P)'
    BY FileStepKeeps
  <2> QED
    BY <2>1 DEF TreeAt
<1>5. \A z : z \in T <=>
        z = Root \/ \E d \in DOMAIN P : \E j \in Used(F[d]) : z = Node(fat, disk.data, F, P, d, j)
  BY <1>3, TreeHas
<1>6. \A z : z \in U <=>
        z = Root \/ \E d \in DOMAIN P : \E j \in Used(G[d]) : z = Node(g, disk'.data, G, P, d, j)
  BY <1>2, <1>4, TreeHas
<1>7. Here = F[cwd]
  BY DEF Here
<1> HIDE DEF F, G, T, U
<1>8. /\ G[cwd][i] = x /\ (i \in Used(G[cwd]) <=> x.name \in Names)
      /\ \A d \in DOMAIN P : \A j : <<d, j>> # <<cwd, i>> =>
           /\ j \in Used(G[d]) <=> j \in Used(F[d])
           /\ j \in Used(F[d]) =>
                /\ G[d][j] = F[d][j]
                /\ \A c \in Chain(fat, F[d][j].fst) :
                     c \in Clusters /\ c \notin FreeIn(fat) \cup Old /\ g[c] = fat[c]
                /\ Chain(g, F[d][j].fst) = Chain(fat, F[d][j].fst)
  BY <1>2, OthersStay
<1>9. ASSUME NEW d \in DOMAIN P, NEW j \in Used(F[d]), <<d, j>> # <<cwd, i>>
      PROVE  /\ Node(g, disk'.data, G, P, d, j) = Node(fat, disk.data, F, P, d, j)
             /\ Node(fat, disk.data, F, P, d, j).path # p
  <2>1. G[d][j] = F[d][j]
    BY <1>8, <1>9
  <2>2. F[d][j].fst \in Places /\ F[d][j].size \in Nat
    BY <1>2, OwnedChain DEF Volume, Slots
  <2>3. ASSUME ~F[d][j].dir
        PROVE  Load(g, disk'.data, F[d][j].fst, F[d][j].size) =
                 Load(fat, disk.data, F[d][j].fst, F[d][j].size)
    <3>1. ASSUME NEW c \in Chain(fat, F[d][j].fst)
          PROVE  g[c] = fat[c] /\ disk'.data[c] = disk.data[c]
      <4>1. c \in Clusters /\ c \notin FreeIn(fat) \cup Old /\ g[c] = fat[c]
        BY <1>8, <1>9, <3>1
      <4>2. c # cwd
        <5>1. 0 \notin Clusters
          BY DEF Clusters
        <5>2. CASE cwd # 0
          BY <1>2, <1>3, <2>3, <3>1, <5>2, DirNotInFile
        <5> QED
          BY <4>1, <5>1, <5>2
      <4> QED
        BY <1>2, <4>1, <4>2
    <3> DEFINE h == disk'.data
    <3>2. \A c \in Chain(fat, F[d][j].fst) : g[c] = fat[c] /\ h[c] = disk.data[c]
      BY <3>1
    <3> HIDE DEF h
    <3>3. Load(g, h, F[d][j].fst, F[d][j].size) =
            Load(fat, disk.data, F[d][j].fst, F[d][j].size)
      BY <2>2, <3>2, LoadSame
    <3> QED
      BY <3>3 DEF h
  <2>4. Node(g, disk'.data, G, P, d, j) = Node(fat, disk.data, F, P, d, j)
    BY <2>1, <2>3 DEF Node
  <2>5. Node(fat, disk.data, F, P, d, j).path = Append(P[d], F[d][j].name)
    BY DEF Node
  <2>6. ASSUME Append(P[d], F[d][j].name) = Append(P[cwd], n) PROVE FALSE
    <3>1. d = cwd /\ F[d][j].name = n
      BY <1>2, <1>3, <2>6, PathTells DEF Volume
    <3>2. j = i
      BY <1>7, <3>1 DEF FileStep
    <3> QED
      BY <1>9, <3>1, <3>2
  <2> QED
    BY <1>3, <2>4, <2>5, <2>6
<1>10. i \in Used(F[cwd]) => Node(fat, disk.data, F, P, cwd, i).path = p
  BY <1>3, <1>7 DEF Node, FileStep
<1>11. x.name \in Names => Node(g, disk'.data, G, P, cwd, i) = X
  <2> SUFFICES ASSUME x.name \in Names PROVE Node(g, disk'.data, G, P, cwd, i) = X
    OBVIOUS
  <2>1. x.name = n /\ ~x.dir
    BY DEF FileStep
  <2>2. x.dir = FALSE
    <3>1. x \in Slots
      <4>1. i \in 1 .. SlotsOf(cwd) /\ Tidy(G[cwd], SlotsOf(cwd))
        BY <1>2 DEF OneFile
      <4> QED
        BY <1>8, <4>1 DEF Tidy
    <3> QED
      BY <2>1, <3>1 DEF Slots
  <2> QED
    BY <1>3, <1>8, <2>1, <2>2 DEF Node
<1>12. Root.path # p
  <2>1. path \in Seq(Names)
    BY <1>2, <1>3 DEF Volume, Mapped
  <2>2. p # <<>>
    BY <2>1, AppendOnce
  <2> QED
    BY <2>2 DEF Root
<1> HIDE DEF p, X
<1>13. ASSUME y \in U PROVE (y \in T /\ y.path # p) \/ (x.name \in Names /\ y = X)
  <2>1. CASE y = Root
    BY <1>5, <1>12, <2>1
  <2>2. ASSUME NEW d \in DOMAIN P, NEW j \in Used(G[d]), y = Node(g, disk'.data, G, P, d, j)
        PROVE  (y \in T /\ y.path # p) \/ (x.name \in Names /\ y = X)
    <3>1. CASE <<d, j>> = <<cwd, i>>
      BY <1>8, <1>11, <2>2, <3>1
    <3>2. CASE <<d, j>> # <<cwd, i>>
      <4>1. j \in Used(F[d])
        BY <1>8, <3>2
      <4>2. y = Node(fat, disk.data, F, P, d, j) /\ y.path # p
        BY <1>9, <2>2, <3>2, <4>1
      <4> QED
        BY <1>5, <4>1, <4>2
    <3> QED
      BY <3>1, <3>2
  <2> QED
    BY <1>6, <1>13, <2>1, <2>2
<1>14. ASSUME y \in T, y.path # p PROVE y \in U
  <2>1. CASE y = Root
    BY <1>6, <2>1
  <2>2. ASSUME NEW d \in DOMAIN P, NEW j \in Used(F[d]), y = Node(fat, disk.data, F, P, d, j)
        PROVE  y \in U
    <3>1. <<d, j>> # <<cwd, i>>
      <4> SUFFICES ASSUME d = cwd, j = i PROVE FALSE
        OBVIOUS
      <4> QED
        BY <1>10, <1>14, <2>2
    <3>2. j \in Used(G[d])
      BY <1>8, <3>1
    <3>3. y = Node(g, disk'.data, G, P, d, j)
      BY <1>9, <2>2, <3>1
    <3> QED
      BY <1>6, <3>2, <3>3
  <2> QED
    BY <1>5, <1>14, <2>1, <2>2
<1>15. ASSUME x.name \in Names, y = X PROVE y \in U
  <2>1. i \in Used(G[cwd])
    BY <1>8, <1>15
  <2> QED
    BY <1>3, <1>6, <1>11, <1>15, <2>1
<1> QED
  BY <1>13, <1>14, <1>15 DEF p, X, T, U

\* The entries of a new directory c below the current one.
Dots(c) == [Blank(DirSlots) EXCEPT ![1] = Entry(".", TRUE, c, 0),
                                   ![2] = Entry("..", TRUE, cwd, 0)]

\* They are in order, and none of them is used.
LEMMA DotsAre ==
  ASSUME NEW c \in Clusters, cwd \in Places
  PROVE  /\ Tidy(Dots(c), DirSlots) /\ Used(Dots(c)) = {}
         /\ Dots(c)[1].name = "." /\ Dots(c)[2].name = ".." /\ Dots(c)[2].fst = cwd
<1> DEFINE x == Entry(".", TRUE, c, 0)
           y == Entry("..", TRUE, cwd, 0)
           u == [Blank(DirSlots) EXCEPT ![1] = x, ![2] = y]
<1>1. Tidy(Dots(c), DirSlots)
  BY DotsTidy DEF Dots
<1>2. DirSlots \in Nat /\ DirSlots >= 2
  BY FsAssumption
<1>3. x.name = "." /\ y.name = ".." /\ y.fst = cwd /\ Empty.name = END
  BY DEF Entry, Empty
<1> HIDE DEF x, y
<1>a. u = [i \in 1 .. DirSlots |-> IF i = 1 THEN x ELSE IF i = 2 THEN y ELSE Empty]
  BY <1>2 DEF Blank
<1>4. Dots(c) = [i \in 1 .. DirSlots |-> IF i = 1 THEN x ELSE IF i = 2 THEN y ELSE Empty]
  BY <1>a DEF Dots, x, y
<1>5. Dots(c)[1] = x /\ Dots(c)[2] = y
  BY <1>2, <1>4
<1>6. \A j \in 1 .. DirSlots : Dots(c)[j].name \in {".", "..", END}
  BY <1>3, <1>4
<1>7. "." \notin Names /\ ".." \notin Names /\ END \notin Names
  BY NamesAssumption
<1>8. Used(Dots(c)) = {}
  BY <1>1, <1>2, <1>6, <1>7, UsedTidy
<1> QED
  BY <1>1, <1>3, <1>5, <1>8

\* mkdir n takes the free cluster c and slot i of the current directory.
MkdirStep(n, i, c) ==
  /\ Stores(Claim(fat, c), [Here EXCEPT ![i] = Entry(n, TRUE, c, 0)],
            [disk.data EXCEPT ![c] = DirSector(Dots(c))])
  /\ n \in Names /\ c \in FreeIn(fat) /\ find_entry(Here, n) = {} /\ i \in free_idx(Here)

\* mkdir adds a directory to the map.
LEMMA MkdirStepNew ==
  ASSUME VolumeInv, Synced, fs_ready, NEW P, TreeAt(P), NEW n, NEW i, NEW c,
         MkdirStep(n, i, c)
  PROVE  LET F == Shelf(root, disk.data)
             G == Shelf(disk'.root, disk'.data)
             g == Claim(fat, c)
         IN /\ Volume(fat, F, P) /\ NewDir(fat, g, F, G, P, cwd, i, c, n)
            /\ disk'.fat = g /\ c # cwd
            /\ \A y \in Clusters : y # cwd /\ y # c => disk'.data[y] = disk.data[y]
<1> DEFINE F == Shelf(root, disk.data)
           G == Shelf(disk'.root, disk'.data)
           g == Claim(fat, c)
           x == Entry(n, TRUE, c, 0)
           u == [Here EXCEPT ![i] = x]
           a == [disk.data EXCEPT ![c] = DirSector(Dots(c))]
           k == SlotsOf(cwd)
<1>1. fat = disk.fat /\ root = disk.root /\ Here = F[cwd]
  BY DEF Synced, Here
<1>2. Volume(fat, F, P) /\ cwd \in DOMAIN P /\ cwd \in Places /\ DOMAIN fat = Clusters
  BY <1>1 DEF TreeAt, Sound, VolumeInv
<1>3. c \in Clusters /\ c \in FreeIn(fat) /\ n \in Names /\ c # 0 /\ c \in Places
  BY DEF MkdirStep, FreeIn, Clusters, Places
<1>4. c # cwd /\ c \notin DOMAIN P
  BY <1>2, <1>3, DirInCluster
<1>5. DOMAIN disk.data = Clusters
  BY DEF VolumeInv, TidyDisk, TidyData
<1>6. DOMAIN a = Clusters /\ a[c] = DirSector(Dots(c))
      /\ \A y \in Clusters : y # c => a[y] = disk.data[y]
  BY <1>3, <1>5
<1>7. Stores(g, u, a)
  BY DEF MkdirStep
<1> HIDE DEF a, g, u
<1>8. /\ G[cwd] = u
      /\ \A d \in Places : d # cwd => G[d] = EntriesOf(root, a, d)
      /\ \A y \in Clusters : y # cwd => disk'.data[y] = a[y]
      /\ disk'.fat = g
  BY <1>6, <1>7, ShelfAfter
<1>9. \A d \in Places : F[d] = EntriesOf(root, disk.data, d)
  BY DEF Shelf
<1> HIDE DEF F, G
<1>10. Tidy(F[cwd], k) /\ k \in Nat
  BY <1>2, SlotsOfType DEF Volume, Mapped
<1>11. ASSUME NEW d \in DOMAIN P, d # cwd PROVE G[d] = F[d]
  <2>1. d \in Places /\ d # c
    BY <1>2, <1>4 DEF Volume, Mapped
  <2>2. EntriesOf(root, a, d) = EntriesOf(root, disk.data, d)
    BY <1>6, <2>1 DEF EntriesOf, Places
  <2> QED
    BY <1>8, <1>9, <1>11, <2>1, <2>2
<1>12. G[c] = Dots(c)
  <2>1. DirSector(Dots(c)).ents = Dots(c)
    BY DEF DirSector
  <2>2. EntriesOf(root, a, c) = Dots(c)
    BY <1>3, <1>6, <2>1 DEF EntriesOf
  <2> QED
    BY <1>3, <1>4, <1>8, <2>2
<1>13. find_entry(F[cwd], n) = {} /\ i \in free_idx(F[cwd])
  BY <1>1 DEF MkdirStep
<1>14. i \in 1 .. k /\ F[cwd][i].name \in {END, DEL}
  BY <1>10, <1>13 DEF free_idx, Tidy
<1>15. x \in Slots /\ x.name = n
  BY <1>3 DEF Entry, Slots
<1>16. Tidy(u, k)
  <2>1. u = [F[cwd] EXCEPT ![i] = x]
    BY <1>1 DEF u
  <2> DEFINE e == F[cwd]
  <2>2. Tidy(e, k) /\ find_entry(e, n) = {} /\ i \in free_idx(e)
    BY <1>10, <1>13
  <2> HIDE DEF x, k, e
  <2>3. Tidy([e EXCEPT ![i] = x], k)
    BY <1>3, <1>10, <1>15, <2>2, NewEntryTidy
  <2> QED
    BY <2>1, <2>3 DEF e
<1>17. \A j \in Used(F[cwd]) : F[cwd][j].name # n
  <2>1. Used(F[cwd]) \subseteq 1 .. k
    BY <1>10, UsedTidy
  <2> QED
    BY <1>3, <1>10, <1>13, <2>1, NotFound
<1>18. NewDir(fat, g, F, G, P, cwd, i, c, n)
  <2>1. /\ Tidy(G[c], DirSlots) /\ Used(G[c]) = {}
        /\ G[c][1].name = "." /\ G[c][2].name = ".." /\ G[c][2].fst = cwd
    BY <1>2, <1>3, <1>12, DotsAre
  <2>2. G[cwd] = [F[cwd] EXCEPT ![i] = Entry(n, TRUE, c, 0)] /\ Tidy(G[cwd], SlotsOf(cwd))
    BY <1>1, <1>8, <1>16 DEF u
  <2> QED
    BY <1>2, <1>3, <1>11, <1>14, <1>17, <2>1, <2>2 DEF NewDir, g
<1>19. \A y \in Clusters : y # cwd /\ y # c => disk'.data[y] = disk.data[y]
  BY <1>6, <1>8
<1> QED
  BY <1>2, <1>4, <1>8, <1>18, <1>19 DEF F, G, g

\* The map gains the new directory.
LEMMA MkdirStepKeeps ==
  ASSUME TreeInv, fs_ready, NEW P, TreeAt(P), NEW n, NEW i, NEW c, MkdirStep(n, i, c),
         VolumeInv', Synced'
  PROVE  TreeInv' /\ TreeAt(WithDir(P, cwd, c, n))'
<1> DEFINE F == Shelf(root, disk.data)
           G == Shelf(disk'.root, disk'.data)
           g == Claim(fat, c)
           Q == WithDir(P, cwd, c, n)
<1>1. VolumeInv /\ Synced /\ disk.boot
  BY DEF TreeInv
<1>2. /\ Volume(fat, F, P) /\ NewDir(fat, g, F, G, P, cwd, i, c, n)
      /\ disk'.fat = g /\ c # cwd
  BY <1>1, MkdirStepNew
<1>3. DOMAIN g = Clusters
  BY <1>2 DEF NewDir, Claim
<1> HIDE DEF F, G, g
<1>4. Volume(g, G, Q)
  BY <1>2, NewDirVolume
<1>5. cwd \in DOMAIN P /\ path = P[cwd]
  BY DEF TreeAt
<1>6. cwd \in DOMAIN Q /\ path = Q[cwd]
  BY <1>2, <1>5 DEF WithDir
<1>7. /\ cwd' = cwd /\ path' = path /\ fs_ready' = fs_ready /\ disk'.boot = disk.boot
  BY DEF MkdirStep, Stores
<1> HIDE DEF Q
<1>8. Sound(disk'.fat, disk'.root, disk'.data, Q)
  BY <1>2, <1>4 DEF Sound, VolumeInv, TidyDisk, G
<1> DEFINE R == WithDir(P, cwd, c, n)'
<1>9. R = Q
  BY <1>7 DEF WithDir, Q
<1> HIDE DEF R
<1>10. /\ Sound(disk'.fat, disk'.root, disk'.data, R) /\ DOMAIN disk'.fat = Clusters
       /\ cwd' \in DOMAIN R /\ path' = R[cwd']
  BY <1>2, <1>3, <1>6, <1>7, <1>8, <1>9
<1>11. TreeAt(WithDir(P, cwd, c, n))'
  BY <1>10 DEF TreeAt, R
<1>12. (\E S : TreeAt(S))'
  BY <1>10 DEF TreeAt
<1> QED
  BY <1>1, <1>7, <1>11, <1>12 DEF TreeInv

\* What mkdir does to the tree.
LEMMA MkdirStepTree ==
  ASSUME TreeInv, fs_ready, NEW P, TreeAt(P), NEW n, NEW i, NEW c, MkdirStep(n, i, c),
         VolumeInv', Synced', NEW y
  PROVE  y \in TreeOf(disk'.fat, disk'.root, disk'.data) <=>
           \/ y \in TreeOf(fat, root, disk.data) /\ y.path # Append(path, n)
           \/ y = [path |-> Append(path, n), dir |-> TRUE, text |-> <<>>]
<1> DEFINE F == Shelf(root, disk.data)
           G == Shelf(disk'.root, disk'.data)
           g == Claim(fat, c)
           h == disk'.data
           Q == WithDir(P, cwd, c, n)
           p == Append(path, n)
           X == [path |-> p, dir |-> TRUE, text |-> <<>>]
           T == TreeOf(fat, root, disk.data)
           U == TreeOf(disk'.fat, disk'.root, disk'.data)
           x == Entry(n, TRUE, c, 0)
<1>1. VolumeInv /\ Synced /\ fat = disk.fat /\ root = disk.root
  BY DEF TreeInv, Synced
<1>2. /\ Volume(fat, F, P) /\ NewDir(fat, g, F, G, P, cwd, i, c, n)
      /\ disk'.fat = g /\ c # cwd
      /\ \A z \in Clusters : z # cwd /\ z # c => h[z] = disk.data[z]
  BY <1>1, MkdirStepNew
<1>3. Sound(fat, root, disk.data, P) /\ cwd \in DOMAIN P /\ path = P[cwd]
  BY <1>1 DEF TreeAt
<1>4. Sound(disk'.fat, disk'.root, disk'.data, Q)
  <2>1. TreeAt(WithDir(P, cwd, c, n))'
    BY MkdirStepKeeps
  <2>2. cwd' = cwd
    BY DEF MkdirStep, Stores
  <2>3. WithDir(P, cwd, c, n)' = Q
    BY <2>2 DEF WithDir
  <2> DEFINE R == WithDir(P, cwd, c, n)'
  <2>4. Sound(disk'.fat, disk'.root, disk'.data, R)
    BY <2>1 DEF TreeAt
  <2> QED
    BY <2>3, <2>4
<1>5. \A z : z \in T <=>
        z = Root \/ \E d \in DOMAIN P : \E j \in Used(F[d]) : z = Node(fat, disk.data, F, P, d, j)
  BY <1>3, TreeHas
<1>6. \A z : z \in U <=>
        z = Root \/ \E d \in DOMAIN Q : \E j \in Used(G[d]) : z = Node(g, h, G, Q, d, j)
  BY <1>2, <1>4, TreeHas
<1>7. Claim(fat, c) = g /\ c \in FreeIn(fat) /\ n \in Names
      /\ (\A z \in Clusters : z # c => g[z] = fat[z])
      /\ Used(G[c]) = {} /\ (\A j \in Used(F[cwd]) : F[cwd][j].name # n)
  BY <1>2, ClaimedChain DEF NewDir
<1> HIDE DEF F, G, T, U, g, h
<1>8. Added(F, G, P, cwd, i, x)
  BY <1>2, NewDirOthers
<1>9. DOMAIN Q = DOMAIN P \cup {c} /\ \A d \in DOMAIN P : Q[d] = P[d]
  <2>1. c \notin DOMAIN P
    BY <1>2, <1>7, DirInCluster DEF FreeIn, Clusters
  <2> QED
    BY <2>1 DEF WithDir
<1> HIDE DEF Q
<1>10. ASSUME NEW d \in DOMAIN P, NEW j \in Used(F[d])
       PROVE  /\ Node(g, h, G, Q, d, j) = Node(fat, disk.data, F, P, d, j)
              /\ Node(fat, disk.data, F, P, d, j).path # p
              /\ j \in Used(G[d])
  <2>1. <<d, j>> # <<cwd, i>>
    BY <1>8 DEF Added
  <2>2. G[d][j] = F[d][j] /\ j \in Used(G[d])
    BY <1>8, <2>1 DEF Added
  <2>3. /\ F[d][j].fst \in Places /\ F[d][j].size \in Nat
        /\ Chain(fat, F[d][j].fst) \subseteq Clusters \ FreeIn(fat)
    BY <1>2, OwnedChain DEF Volume, Slots
  <2>4. ASSUME ~F[d][j].dir
        PROVE  Load(g, h, F[d][j].fst, F[d][j].size) =
                 Load(fat, disk.data, F[d][j].fst, F[d][j].size)
    <3>1. ASSUME NEW z \in Chain(fat, F[d][j].fst)
          PROVE  g[z] = fat[z] /\ h[z] = disk.data[z]
      <4>1. z \in Clusters /\ z # c
        BY <1>7, <2>3
      <4>2. z # cwd
        <5>1. 0 \notin Clusters
          BY DEF Clusters
        <5>2. CASE cwd # 0
          BY <1>2, <1>3, <2>4, <3>1, <5>2, DirNotInFile
        <5> QED
          BY <4>1, <5>1, <5>2
      <4> QED
        BY <1>2, <1>7, <4>1, <4>2
    <3> QED
      BY <2>3, <3>1, LoadSame
  <2>5. Node(g, h, G, Q, d, j) = Node(fat, disk.data, F, P, d, j)
    BY <1>9, <2>2, <2>4 DEF Node
  <2>6. Node(fat, disk.data, F, P, d, j).path = Append(P[d], F[d][j].name)
    BY DEF Node
  <2>7. ASSUME Append(P[d], F[d][j].name) = Append(P[cwd], n) PROVE FALSE
    <3>1. d = cwd /\ F[d][j].name = n
      BY <1>2, <1>3, <1>7, <2>7, PathTells DEF Volume
    <3> QED
      BY <1>7, <3>1
  <2> QED
    BY <1>3, <2>2, <2>5, <2>6, <2>7
<1>11. Node(g, h, G, Q, cwd, i) = X /\ i \in Used(G[cwd]) /\ cwd \in DOMAIN Q
  <2>1. x.name = n /\ x.dir = TRUE
    BY DEF Entry
  <2>2. G[cwd][i] = x /\ i \in Used(G[cwd])
    BY <1>8 DEF Added
  <2>3. Q[cwd] = path
    BY <1>3, <1>9
  <2> HIDE DEF x
  <2> QED
    BY <1>3, <1>9, <2>1, <2>2, <2>3 DEF Node
<1>12. Root.path # p
  <2>1. path \in Seq(Names)
    BY <1>2, <1>3 DEF Volume, Mapped
  <2>2. p # <<>>
    BY <1>7, <2>1, AppendOnce
  <2> QED
    BY <2>2 DEF Root
<1> HIDE DEF p, X
<1>13. ASSUME y \in U PROVE (y \in T /\ y.path # p) \/ y = X
  <2>1. CASE y = Root
    BY <1>5, <1>12, <2>1
  <2>2. ASSUME NEW d \in DOMAIN Q, NEW j \in Used(G[d]), y = Node(g, h, G, Q, d, j)
        PROVE  (y \in T /\ y.path # p) \/ y = X
    <3>1. CASE <<d, j>> = <<cwd, i>>
      BY <1>11, <2>2, <3>1
    <3>2. CASE <<d, j>> # <<cwd, i>>
      <4>1. d \in DOMAIN P
        BY <1>7, <1>9
      <4>2. j \in Used(F[d])
        BY <1>8, <3>2, <4>1 DEF Added
      <4>3. y = Node(fat, disk.data, F, P, d, j) /\ y.path # p
        BY <1>10, <2>2, <4>1, <4>2
      <4> QED
        BY <1>5, <4>1, <4>2, <4>3
    <3> QED
      BY <3>1, <3>2
  <2> QED
    BY <1>6, <1>13, <2>1, <2>2
<1>14. ASSUME y \in T PROVE y \in U
  <2>1. CASE y = Root
    BY <1>6, <2>1
  <2>2. ASSUME NEW d \in DOMAIN P, NEW j \in Used(F[d]), y = Node(fat, disk.data, F, P, d, j)
        PROVE  y \in U
    <3>1. y = Node(g, h, G, Q, d, j) /\ j \in Used(G[d]) /\ d \in DOMAIN Q
      BY <1>9, <1>10, <2>2
    <3> QED
      BY <1>6, <3>1
  <2> QED
    BY <1>5, <1>14, <2>1, <2>2
<1>15. ASSUME y = X PROVE y \in U
  BY <1>6, <1>11, <1>15
<1> QED
  BY <1>13, <1>14, <1>15 DEF p, X, T, U

\* rmdir n gives back the clusters of the empty directory that slot i leads to.
RmdirStep(n, i) ==
  /\ Stores(free_chain(fat, Here[i].fst), [Here EXCEPT ![i] = Deleted], disk.data)
  /\ n \in Names /\ i \in find_entry(Here, n) /\ Here[i].dir
  /\ IsEmptyDir(disk.data[Here[i].fst].ents)

\* A directory that the scan of fs_rmdir finds empty has no used entry.
LEMMA EmptyDir ==
  ASSUME NEW s, Tidy(s, DirSlots), s[1].name = ".", s[2].name = "..", IsEmptyDir(s)
  PROVE  Used(s) = {}
<1>1. DirSlots \in Nat
  BY FsAssumption
<1>2. "." \notin Names /\ ".." \notin Names /\ END \notin Names /\ DEL \notin Names
  BY NamesAssumption
<1>3. ASSUME NEW j \in 1 .. DirSlots PROVE s[j].name \notin Names
  <2>1. CASE j = 1 \/ j = 2
    BY <1>2, <2>1
  <2>2. CASE j >= 3
    <3>1. j \in 3 .. DirSlots
      BY <1>1, <2>2
    <3>2. s[j].name = DEL \/ \E m \in 3 .. j : s[m].name = END
      BY <3>1 DEF IsEmptyDir
    <3>3. ASSUME NEW m \in 3 .. j, s[m].name = END PROVE s[j].name = END
      <4>1. m \in 1 .. DirSlots /\ (m < j \/ m = j)
        BY <1>1
      <4> QED
        BY <3>3, <4>1 DEF Tidy
    <3> QED
      BY <1>2, <3>2, <3>3
  <2> QED
    BY <1>1, <2>1, <2>2
<1> QED
  BY <1>1, <1>3, UsedTidy

\* rmdir removes an empty directory from the map.
LEMMA RmdirStepOld ==
  ASSUME VolumeInv, Synced, fs_ready, NEW P, TreeAt(P), NEW n, NEW i, RmdirStep(n, i)
  PROVE  LET F == Shelf(root, disk.data)
             G == Shelf(disk'.root, disk'.data)
             c == F[cwd][i].fst
             g == free_chain(fat, c)
         IN /\ Volume(fat, F, P) /\ OldDir(fat, g, F, G, P, cwd, i, c)
            /\ disk'.fat = g
            /\ \A y \in Clusters : y # cwd => disk'.data[y] = disk.data[y]
<1> DEFINE F == Shelf(root, disk.data)
           G == Shelf(disk'.root, disk'.data)
           c == F[cwd][i].fst
           g == free_chain(fat, c)
           u == [Here EXCEPT ![i] = Deleted]
           k == SlotsOf(cwd)
<1>1. fat = disk.fat /\ root = disk.root /\ Here = F[cwd]
  BY DEF Synced, Here
<1>2. Volume(fat, F, P) /\ cwd \in DOMAIN P
  BY <1>1 DEF TreeAt, Sound
<1>3. DOMAIN disk.data = Clusters
  BY DEF VolumeInv, TidyDisk, TidyData
<1>4. Stores(g, u, disk.data)
  BY <1>1 DEF RmdirStep
<1> HIDE DEF g, u
<1>5. /\ G[cwd] = u
      /\ \A d \in Places : d # cwd => G[d] = EntriesOf(root, disk.data, d)
      /\ \A y \in Clusters : y # cwd => disk'.data[y] = disk.data[y]
      /\ disk'.fat = g
  BY <1>3, <1>4, ShelfAfter
<1>6. \A d \in Places : F[d] = EntriesOf(root, disk.data, d)
  BY DEF Shelf
<1> HIDE DEF F, G
<1>7. Tidy(F[cwd], k) /\ k \in Nat
  BY <1>2, SlotsOfType DEF Volume, Mapped
<1>8. \A d \in DOMAIN P : d # cwd => G[d] = F[d]
  BY <1>2, <1>5, <1>6 DEF Volume, Mapped
<1> DEFINE e == F[cwd]
<1>9. i \in find_entry(e, n) /\ n \in Names /\ e[i].dir /\ Tidy(e, k)
  BY <1>1, <1>7 DEF RmdirStep
<1>10. Deleted \in Slots /\ Deleted.name = DEL
  BY DEF Deleted, Entry, Slots, Places
<1>11. i \in Used(e) /\ Tidy([e EXCEPT ![i] = Deleted], k)
  <2> HIDE DEF e, k
  <2>1. Tidy([e EXCEPT ![i] = Deleted], k)
    BY <1>7, <1>9, <1>10, FoundEntryTidy
  <2>2. e[i].name = n /\ i \in 1 .. k
    BY <1>9 DEF find_entry, Tidy
  <2>3. i \in Used(e)
    BY <1>7, <1>9, <2>2, UsedTidy
  <2> QED
    BY <2>1, <2>3
<1>12. LeadsTo(F, P, cwd, c, F[cwd][i].name)
  BY <1>2, <1>9, <1>11 DEF Volume, Hung
<1>13. c \in DOMAIN P /\ c # 0 /\ c \in Places
  BY <1>2, <1>12 DEF LeadsTo, Volume, Mapped
<1>14. Used(F[c]) = {}
  <2>1. F[c] = disk.data[c].ents
    BY <1>6, <1>13 DEF EntriesOf
  <2>2. Tidy(F[c], DirSlots) /\ F[c][1].name = "." /\ F[c][2].name = ".."
    BY <1>2, <1>13 DEF Volume, Mapped, SlotsOf
  <2>3. IsEmptyDir(F[c])
    BY <1>1, <2>1 DEF RmdirStep
  <2> QED
    BY <2>2, <2>3, EmptyDir
<1>15. G[cwd] = [F[cwd] EXCEPT ![i] = Deleted]
  BY <1>1, <1>5 DEF u
<1>16. OldDir(fat, g, F, G, P, cwd, i, c)
  BY <1>2, <1>8, <1>9, <1>11, <1>14, <1>15 DEF OldDir, g
<1> QED
  BY <1>2, <1>5, <1>16 DEF F, G, g

\* The map loses that directory, which is not the current one.
LEMMA RmdirStepKeeps ==
  ASSUME TreeInv, fs_ready, NEW P, TreeAt(P), NEW n, NEW i, RmdirStep(n, i),
         VolumeInv', Synced'
  PROVE  /\ TreeInv'
         /\ Sound(disk'.fat, disk'.root, disk'.data, WithoutDir(P, Here[i].fst))
<1> DEFINE F == Shelf(root, disk.data)
           G == Shelf(disk'.root, disk'.data)
           c == F[cwd][i].fst
           g == free_chain(fat, c)
           Q == WithoutDir(P, c)
<1>1. VolumeInv /\ Synced /\ disk.boot
  BY DEF TreeInv
<1>2. /\ Volume(fat, F, P) /\ OldDir(fat, g, F, G, P, cwd, i, c)
      /\ disk'.fat = g
  BY <1>1, RmdirStepOld
<1>3. DOMAIN g = Clusters
  BY DEF free_chain
<1>4. Here[i].fst = c
  BY DEF Here
<1> HIDE DEF F, G, g, c
<1>5. Volume(g, G, Q) /\ c # cwd
  BY <1>2, OldDirVolume
<1>6. cwd \in DOMAIN P /\ path = P[cwd]
  BY DEF TreeAt
<1>7. cwd \in DOMAIN Q /\ path = Q[cwd]
  BY <1>5, <1>6 DEF WithoutDir
<1>8. /\ cwd' = cwd /\ path' = path /\ fs_ready' = fs_ready /\ disk'.boot = disk.boot
  BY DEF RmdirStep, Stores
<1> HIDE DEF Q
<1>9. Sound(disk'.fat, disk'.root, disk'.data, Q)
  BY <1>2, <1>5 DEF Sound, VolumeInv, TidyDisk, G
<1>10. (\E S : TreeAt(S))'
  <2>1. /\ Sound(disk'.fat, disk'.root, disk'.data, Q) /\ DOMAIN disk'.fat = Clusters
        /\ cwd' \in DOMAIN Q /\ path' = Q[cwd']
    BY <1>2, <1>3, <1>7, <1>8, <1>9
  <2> QED
    BY <2>1 DEF TreeAt
<1>11. TreeInv'
  BY <1>1, <1>8, <1>10 DEF TreeInv
<1> QED
  BY <1>4, <1>9, <1>11 DEF Q

\* What rmdir does to the tree, and that it removes a directory with nothing in it.
LEMMA RmdirStepTree ==
  ASSUME TreeInv, fs_ready, NEW P, TreeAt(P), NEW n, NEW i, RmdirStep(n, i),
         VolumeInv', Synced', NEW y
  PROVE  /\ y \in TreeOf(disk'.fat, disk'.root, disk'.data) <=>
              y \in TreeOf(fat, root, disk.data) /\ y.path # Append(path, n)
         /\ y \in TreeOf(fat, root, disk.data) =>
              y.path = <<>> \/ SubSeq(y.path, 1, Len(y.path) - 1) # Append(path, n)
<1> DEFINE F == Shelf(root, disk.data)
           G == Shelf(disk'.root, disk'.data)
           c == F[cwd][i].fst
           g == free_chain(fat, c)
           h == disk'.data
           Q == WithoutDir(P, c)
           p == Append(path, n)
           T == TreeOf(fat, root, disk.data)
           U == TreeOf(disk'.fat, disk'.root, disk'.data)
<1>1. VolumeInv /\ Synced /\ fat = disk.fat /\ root = disk.root
  BY DEF TreeInv, Synced
<1>2. /\ Volume(fat, F, P) /\ OldDir(fat, g, F, G, P, cwd, i, c)
      /\ disk'.fat = g
      /\ \A z \in Clusters : z # cwd => h[z] = disk.data[z]
  BY <1>1, RmdirStepOld
<1>3. Sound(fat, root, disk.data, P) /\ cwd \in DOMAIN P /\ path = P[cwd]
  BY <1>1 DEF TreeAt
<1>4. Here = F[cwd]
  BY DEF Here
<1>5. Sound(disk'.fat, disk'.root, disk'.data, Q)
  BY <1>4, RmdirStepKeeps
<1>6. \A z : z \in T <=>
        z = Root \/ \E d \in DOMAIN P : \E j \in Used(F[d]) : z = Node(fat, disk.data, F, P, d, j)
  BY <1>3, TreeHas
<1>7. \A z : z \in U <=>
        z = Root \/ \E d \in DOMAIN Q : \E j \in Used(G[d]) : z = Node(g, h, G, Q, d, j)
  BY <1>2, <1>5, TreeHas
<1> HIDE DEF F, G, T, U, g, h, c
<1>8. /\ c # cwd /\ c # 0 /\ c \in DOMAIN P /\ P[c] = Append(P[cwd], F[cwd][i].name)
      /\ i \notin Used(G[cwd])
      /\ \A d \in DOMAIN P : \A j : <<d, j>> # <<cwd, i>> =>
           /\ j \in Used(G[d]) <=> j \in Used(F[d])
           /\ j \in Used(F[d]) =>
                /\ G[d][j] = F[d][j]
                /\ \A z \in Chain(fat, F[d][j].fst) : g[z] = fat[z]
  BY <1>2, OldDirVolume
<1>9. n \in Names /\ F[cwd][i].name = n /\ i \in Used(F[cwd]) /\ Used(F[c]) = {}
  <2>1. i \in find_entry(F[cwd], n) /\ n \in Names
    BY <1>4 DEF RmdirStep
  <2> QED
    BY <1>2, <2>1 DEF OldDir, find_entry
<1>10. DOMAIN Q = DOMAIN P \ {c} /\ \A d \in DOMAIN P : d # c => Q[d] = P[d]
  BY DEF WithoutDir
<1> HIDE DEF Q
<1>11. ASSUME NEW d \in DOMAIN P, NEW j \in Used(F[d]), <<d, j>> # <<cwd, i>>
       PROVE  /\ Node(g, h, G, Q, d, j) = Node(fat, disk.data, F, P, d, j)
              /\ Node(fat, disk.data, F, P, d, j).path # p
              /\ j \in Used(G[d]) /\ d \in DOMAIN Q
  <2>1. d \in DOMAIN Q /\ Q[d] = P[d]
    BY <1>9, <1>10
  <2>2. G[d][j] = F[d][j] /\ j \in Used(G[d])
    BY <1>8, <1>11
  <2>3. /\ F[d][j].fst \in Places /\ F[d][j].size \in Nat
        /\ Chain(fat, F[d][j].fst) \subseteq Clusters \ FreeIn(fat)
    BY <1>2, OwnedChain DEF Volume, Slots
  <2>4. ASSUME ~F[d][j].dir
        PROVE  Load(g, h, F[d][j].fst, F[d][j].size) =
                 Load(fat, disk.data, F[d][j].fst, F[d][j].size)
    <3>1. ASSUME NEW z \in Chain(fat, F[d][j].fst)
          PROVE  g[z] = fat[z] /\ h[z] = disk.data[z]
      <4>1. z \in Clusters
        BY <2>3
      <4>2. z # cwd
        <5>1. 0 \notin Clusters
          BY DEF Clusters
        <5>2. CASE cwd # 0
          BY <1>2, <1>3, <2>4, <3>1, <5>2, DirNotInFile
        <5> QED
          BY <4>1, <5>1, <5>2
      <4> QED
        BY <1>2, <1>8, <1>11, <4>1, <4>2
    <3> QED
      BY <2>3, <3>1, LoadSame
  <2>5. Node(g, h, G, Q, d, j) = Node(fat, disk.data, F, P, d, j)
    BY <2>1, <2>2, <2>4 DEF Node
  <2>6. Node(fat, disk.data, F, P, d, j).path = Append(P[d], F[d][j].name)
    BY DEF Node
  <2>7. ASSUME Append(P[d], F[d][j].name) = Append(P[cwd], n) PROVE FALSE
    <3>1. d = cwd /\ F[d][j].name = n
      BY <1>2, <1>3, <1>9, <2>7, PathTells DEF Volume
    <3>2. j = i
      <4>1. Tidy(F[cwd], SlotsOf(cwd)) /\ SlotsOf(cwd) \in Nat
        BY <1>2, <1>3, SlotsOfType DEF Volume, Mapped
      <4>2. i \in 1 .. SlotsOf(cwd) /\ j \in 1 .. SlotsOf(cwd)
        BY <1>9, <3>1, <4>1, UsedTidy
      <4> QED
        BY <1>9, <3>1, <4>1, <4>2 DEF Tidy
    <3> QED
      BY <1>11, <3>1, <3>2
  <2> QED
    BY <1>3, <2>1, <2>2, <2>5, <2>6, <2>7
<1>12. Node(fat, disk.data, F, P, cwd, i).path = p
  BY <1>3, <1>9 DEF Node
<1>13. Root.path # p
  <2>1. path \in Seq(Names)
    BY <1>2, <1>3 DEF Volume, Mapped
  <2>2. p # <<>>
    BY <1>9, <2>1, AppendOnce
  <2> QED
    BY <2>2 DEF Root
<1>14. P[c] = p
  BY <1>3, <1>8, <1>9
<1> HIDE DEF p
<1>15. ASSUME y \in U PROVE y \in T /\ y.path # p
  <2>1. CASE y = Root
    BY <1>6, <1>13, <2>1
  <2>2. ASSUME NEW d \in DOMAIN Q, NEW j \in Used(G[d]), y = Node(g, h, G, Q, d, j)
        PROVE  y \in T /\ y.path # p
    <3>1. d \in DOMAIN P /\ <<d, j>> # <<cwd, i>>
      BY <1>8, <1>10
    <3>2. j \in Used(F[d])
      BY <1>8, <3>1
    <3>3. y = Node(fat, disk.data, F, P, d, j) /\ y.path # p
      BY <1>11, <2>2, <3>1, <3>2
    <3> QED
      BY <1>6, <3>1, <3>2, <3>3
  <2> QED
    BY <1>7, <1>15, <2>1, <2>2
<1>16. ASSUME y \in T, y.path # p PROVE y \in U
  <2>1. CASE y = Root
    BY <1>7, <2>1
  <2>2. ASSUME NEW d \in DOMAIN P, NEW j \in Used(F[d]), y = Node(fat, disk.data, F, P, d, j)
        PROVE  y \in U
    <3>1. <<d, j>> # <<cwd, i>>
      <4> SUFFICES ASSUME d = cwd, j = i PROVE FALSE
        OBVIOUS
      <4> QED
        BY <1>12, <1>16, <2>2
    <3>2. y = Node(g, h, G, Q, d, j) /\ j \in Used(G[d]) /\ d \in DOMAIN Q
      BY <1>11, <2>2, <3>1
    <3> QED
      BY <1>7, <3>2
  <2> QED
    BY <1>6, <1>16, <2>1, <2>2
<1>17. ASSUME y \in T, y.path # <<>>, SubSeq(y.path, 1, Len(y.path) - 1) = p PROVE FALSE
  <2>1. y # Root
    BY <1>17 DEF Root
  <2>2. PICK d \in DOMAIN P : \E j \in Used(F[d]) : y = Node(fat, disk.data, F, P, d, j)
    BY <1>6, <1>17, <2>1
  <2>3. PICK j \in Used(F[d]) : y = Node(fat, disk.data, F, P, d, j)
    BY <2>2
  <2>4. y.path = Append(P[d], F[d][j].name)
    BY <2>3 DEF Node
  <2>5. P[d] \in Seq(Names) /\ F[d][j].name \in Names
    BY <1>2 DEF Volume, Mapped, Used
  <2> DEFINE s == P[d]
             m == F[d][j].name
             t == y.path
  <2>6. s \in Seq(Names) /\ m \in Names /\ t = Append(s, m)
    BY <2>4, <2>5
  <2> HIDE DEF s, m, t
  <2>7. SubSeq(t, 1, Len(t) - 1) = s
    BY <2>6
  <2>8. s = p
    BY <1>17, <2>7 DEF t
  <2>9. d = c
    BY <1>2, <1>8, <1>14, <2>8 DEF Volume, Mapped, s
  <2> QED
    BY <1>9, <2>9
<1> QED
  BY <1>15, <1>16, <1>17 DEF p, T, U

-----------------------------------------------------------------------------
(* Each command is such a step, or refuses *)

\* What a command reads as the current directory.
LEMMA HereIs ==
  ASSUME VolumeInv, Synced, fs_ready, NEW P, TreeAt(P)
  PROVE  /\ current_dir_entries = Here /\ Tidy(Here, SlotsOf(cwd)) /\ SlotsOf(cwd) \in Nat
         /\ SlotsOf(cwd) = CwdSlots /\ disk.fat = fat /\ disk.root = root
         /\ DOMAIN fat = Clusters /\ DOMAIN disk.data = Clusters
         /\ TidyDisk(disk) /\ cwd \in Places
<1> DEFINE F == Shelf(root, disk.data)
<1>1. disk.fat = fat /\ disk.root = root /\ cwd \in Places
  BY DEF Synced, VolumeInv
<1>2. Volume(fat, F, P) /\ cwd \in DOMAIN P /\ DOMAIN fat = Clusters
  BY <1>1 DEF TreeAt, Sound
<1>3. Here = F[cwd] /\ current_dir_entries = F[cwd]
  BY <1>1 DEF Here, current_dir_entries, Shelf
<1> HIDE DEF F
<1>4. Tidy(F[cwd], SlotsOf(cwd))
  BY <1>2 DEF Volume, Mapped
<1>5. SlotsOf(cwd) = CwdSlots /\ SlotsOf(cwd) \in Nat
  BY SlotsOfType DEF SlotsOf, CwdSlots
<1>6. DOMAIN disk.data = Clusters /\ TidyDisk(disk)
  BY DEF VolumeInv, TidyDisk, TidyData
<1> QED
  BY <1>1, <1>2, <1>3, <1>4, <1>5, <1>6

\* A slot that free_idx hands out is not in use; one that is found is.
LEMMA FreeSlot ==
  ASSUME NEW k \in Nat, NEW e, Tidy(e, k), NEW i \in free_idx(e)
  PROVE  i \in 1 .. k /\ i \notin Used(e) /\ e[i].name \notin {".", ".."}
<1>1. END \notin Names /\ DEL \notin Names /\ END \notin {".", ".."} /\ DEL \notin {".", ".."}
  BY NamesAssumption DEF END, DEL
<1>2. i \in 1 .. k /\ e[i].name \in {END, DEL}
  BY DEF free_idx, Tidy
<1> QED
  BY <1>1, <1>2 DEF Used

\* The entry a command finds is in use, and the only one of its name.
LEMMA UsedSlot ==
  ASSUME NEW k \in Nat, NEW e, Tidy(e, k), NEW n \in Names, NEW i \in find_entry(e, n)
  PROVE  /\ i \in 1 .. k /\ i \in Used(e) /\ e[i].name = n /\ n \notin {".", ".."}
         /\ \A j \in Used(e) : e[j].name = n => j = i
<1>1. "." \notin Names /\ ".." \notin Names
  BY NamesAssumption
<1>2. i \in 1 .. k /\ e[i].name = n
  BY DEF find_entry, Tidy
<1>3. Used(e) = {j \in 1 .. k : e[j].name \in Names}
  BY UsedTidy
<1> QED
  BY <1>1, <1>2, <1>3 DEF Tidy

\* A name a command does not find is in no entry.
LEMMA NotUsed ==
  ASSUME NEW k \in Nat, NEW e, Tidy(e, k), NEW n \in Names, find_entry(e, n) = {}
  PROVE  \A j \in Used(e) : e[j].name # n
<1>1. Used(e) \subseteq 1 .. k
  BY UsedTidy
<1> QED
  BY <1>1, NotFound

\* touch.
LEMMA TouchStep ==
  ASSUME VolumeInv, Synced, fs_ready, Quiet, NEW P, TreeAt(P), NEW n \in Names, fs_touch(n)
  PROVE  \/ find_entry(Here, n) # {} /\ Refuse(0)
         \/ find_entry(Here, n) = {} /\ Refuse(-1)
         \/ /\ find_entry(Here, n) = {}
            /\ \E i : FileStep(n, i, Entry(n, FALSE, 0, 0), fat, disk.data, {}, {})
<1> DEFINE e == Here
           x == Entry(n, FALSE, 0, 0)
           k == SlotsOf(cwd)
<1>1. /\ current_dir_entries = e /\ Tidy(e, k) /\ k \in Nat /\ disk.fat = fat
      /\ DOMAIN fat = Clusters /\ DOMAIN disk.data = Clusters /\ TidyDisk(disk)
  BY HereIs
<1>2. ASSUME find_entry(e, n) = {}, NEW i \in free_idx(e),
             Finish(DirFlushes(fat, [e EXCEPT ![i] = x], disk))
      PROVE  FileStep(n, i, x, fat, disk.data, {}, {})
  <2>1. Stores(fat, [e EXCEPT ![i] = x], disk.data)
    BY <1>1, <1>2, FlushFinish
  <2>2. x \in Slots /\ x.name = n /\ ~x.dir /\ x.fst = 0
    BY DEF Entry, Slots, Places
  <2> HIDE DEF e, x, k
  <2>3. Tidy([e EXCEPT ![i] = x], k)
    BY <1>1, <1>2, <2>2, NewEntryTidy
  <2>4. i \in 1 .. k /\ i \notin Used(e) /\ e[i].name \notin {".", ".."}
    BY <1>1, <1>2, FreeSlot
  <2>5. \A j \in Used(e) : e[j].name # n
    BY <1>1, <1>2, NotUsed
  <2>6. Chain(fat, x.fst) = {}
    BY <2>2, ChainHead
  <2> QED
    BY <1>1, <2>1, <2>2, <2>3, <2>4, <2>5, <2>6 DEF FileStep, e, k
<1> QED
  BY <1>1, <1>2 DEF fs_touch

\* rm.
LEMMA RemoveStep ==
  ASSUME VolumeInv, Synced, fs_ready, Quiet, "ondirs" \notin Scope,
         NEW P, TreeAt(P), NEW n \in Names, fs_remove(n)
  PROVE  \/ find_entry(Here, n) = {} /\ Refuse(-1)
         \/ \E i \in find_entry(Here, n) :
              /\ ~Here[i].dir
              /\ FileStep(n, i, Deleted, free_chain(fat, Here[i].fst), disk.data,
                          Chain(fat, Here[i].fst), {})
<1> DEFINE e == Here
           k == SlotsOf(cwd)
<1>1. /\ current_dir_entries = e /\ Tidy(e, k) /\ k \in Nat /\ disk.fat = fat
      /\ DOMAIN fat = Clusters /\ DOMAIN disk.data = Clusters /\ TidyDisk(disk)
  BY HereIs
<1>2. ASSUME NEW i \in find_entry(e, n),
             Finish(Commit(free_chain(fat, e[i].fst), [e EXCEPT ![i] = Deleted], disk))
      PROVE  ~e[i].dir /\ FileStep(n, i, Deleted, free_chain(fat, e[i].fst), disk.data,
                                   Chain(fat, e[i].fst), {})
  <2> DEFINE g == free_chain(fat, e[i].fst)
             u == [e EXCEPT ![i] = Deleted]
  <2>1. Stores(g, u, disk.data)
    <3>1. Finish(Commit(g, u, disk))
      BY <1>2
    <3> HIDE DEF g, u
    <3> QED
      BY <1>1, <3>1, CommitFinish
  <2>2. Deleted \in Slots /\ Deleted.name = DEL /\ DEL \notin Names
    BY NamesAssumption DEF Deleted, Entry, Slots, Places
  <2>3. ~e[i].dir
    BY <1>1 DEF fs_remove, Applicable
  <2> HIDE DEF e, k
  <2>4. Tidy([e EXCEPT ![i] = Deleted], k)
    BY <1>1, <2>2, FoundEntryTidy
  <2>5. /\ i \in 1 .. k /\ i \in Used(e) /\ e[i].name = n /\ n \notin {".", ".."}
        /\ \A j \in Used(e) : e[j].name = n => j = i
    BY <1>1, UsedSlot
  <2>6. e[i].fst \in Places
    BY <1>1, FoundSlot DEF Slots
  <2>7. /\ FreeIn(g) = FreeIn(fat) \cup Chain(fat, e[i].fst)
        /\ \A x \in Clusters : x \notin Chain(fat, e[i].fst) => g[x] = fat[x]
        /\ DOMAIN g = Clusters
    <3>1. DOMAIN g = Clusters
      BY DEF free_chain
    <3> QED
      BY <2>6, <3>1, FreedChain
  <2> HIDE DEF g
  <2>8. FileStep(n, i, Deleted, g, disk.data, Chain(fat, e[i].fst), {})
    BY <1>1, <2>1, <2>2, <2>3, <2>4, <2>5, <2>7 DEF FileStep, e, k
  <2> QED
    BY <2>3, <2>8 DEF g
<1> QED
  BY <1>1, <1>2 DEF fs_remove

\* Nothing needs no cluster.
LEMMA NeedNothing == Need(<<>>) = 0
<1>1. SectorBytes \in Nat \ {0} /\ Len(<<>>) = 0
  BY FsAssumption
<1>2. \A b \in Nat \ {0} : (0 + b - 1) \div b = 0
  OBVIOUS
<1> QED
  BY <1>1, <1>2 DEF Need

\* FAT g and data h, where the chain from c has taken the clusters New from the
\* free ones of FAT f, and holds t.
Holds(f, d, t, New, g, h, c) ==
  /\ c \in Places /\ Chain(g, c) = New /\ New \subseteq FreeIn(f)
  /\ FreeIn(g) = FreeIn(f) \ New
  /\ DOMAIN g = Clusters /\ DOMAIN h = Clusters
  /\ \A x \in Clusters : x \notin FreeIn(f) => g[x] = f[x] /\ h[x] = d[x]
  /\ Load(g, h, c, Len(t)) = t

\* write_cluster_chain.
LEMMA ChainOut ==
  ASSUME NEW f, NEW d, NEW S, NEW t \in Seq(S), Len(t) <= FS_MAX_FILE_SIZE,
         Need(t) <= Cardinality(FreeIn(f))
  PROVE  LET g == Linked(f, Need(t))
             h == Written(f, d, t, Need(t))
             c == IF t = <<>> THEN 0 ELSE NthFree(f, 1)
         IN Holds(f, d, t, Taken(f, Need(t)), g, h, c)
<1> DEFINE k == Need(t)
           g == Linked(f, k)
           h == Written(f, d, t, k)
           c == IF t = <<>> THEN 0 ELSE NthFree(f, 1)
<1>1. Cardinality(FreeIn(f)) \in Nat /\ k \in Nat /\ (t # <<>> => k >= 1)
  <2>1. IsText(t)
    BY SeqIsText
  <2> QED
    BY <2>1, ClustersFinite, NeedPositive DEF FreeIn
<1>2. k <= Cardinality(FreeIn(f))
  OBVIOUS
<1>3. DOMAIN g = Clusters /\ DOMAIN h = Clusters
  BY DEF Linked, Written
<1>4. \A x \in Clusters : x \notin FreeIn(f) => h[x] = d[x]
  BY DEF Written
<1>5. t = <<>> => k = 0
  BY NeedNothing
<1>6. Taken(f, k) \subseteq FreeIn(f)
  BY DEF Taken
<1>7. /\ FreeIn(g) = FreeIn(f) \ Taken(f, k)
      /\ \A x \in Clusters : x \notin FreeIn(f) => g[x] = f[x]
  <2> HIDE DEF k
  <2>1. k \in 0 .. Cardinality(FreeIn(f))
    BY <1>1, <1>2
  <2> QED
    BY <2>1, LinkedFat
<1>8. CASE t = <<>>
  <2>1. c = 0 /\ Len(t) = 0 /\ k = 0
    BY <1>5, <1>8
  <2>2. Taken(f, 0) = {}
    <3>1. ASSUME NEW x \in FreeIn(f), Rank(f, x) <= 0 PROVE FALSE
      <4>1. Rank(f, x) \in 1 .. Cardinality(FreeIn(f))
        BY RankOrder
      <4> QED
        BY <1>1, <3>1, <4>1
    <3> QED
      BY <3>1 DEF Taken
  <2>3. Taken(f, k) = {}
    BY <2>1, <2>2
  <2> HIDE DEF g, h, k
  <2>4. Chain(g, 0) = {} /\ Load(g, h, 0, 0) = <<>>
    BY ChainHead, LoadNothing
  <2>5. c \in Places /\ Chain(g, c) = Taken(f, k) /\ Load(g, h, c, Len(t)) = t
    BY <1>8, <2>1, <2>3, <2>4 DEF Places
  <2> QED
    BY <1>3, <1>4, <1>6, <1>7, <2>5 DEF Holds, g, h, k
<1>9. CASE t # <<>>
  <2>1. c = NthFree(f, 1)
    BY <1>9
  <2>2. Load(g, h, NthFree(f, 1), Len(t)) = t
    BY <1>9, LoadWritten
  <2>3. k \in 1 .. Cardinality(FreeIn(f)) /\ 1 \in 1 .. Cardinality(FreeIn(f))
    <3> HIDE DEF k
    <3> QED
      BY <1>1, <1>2, <1>9
  <2>4. Chain(g, NthFree(f, 1)) = Taken(f, k)
    <3> HIDE DEF k
    <3> QED
      BY <2>3, LinkedChain
  <2>5. NthFree(f, 1) \in Places
    BY <2>3, NthFreeIs DEF FreeIn, Places
  <2> HIDE DEF g, h, k
  <2>6. c \in Places /\ Chain(g, c) = Taken(f, k) /\ Load(g, h, c, Len(t)) = t
    BY <2>1, <2>2, <2>4, <2>5
  <2> QED
    BY <1>3, <1>4, <1>6, <1>7, <2>6 DEF Holds, g, h, k
<1> QED
  BY <1>8, <1>9

\* Slot i of the current directory is where file n goes, as x but for its clusters
\* and its size; f is the FAT once the clusters Old of n are given back.
GoesTo(n, i, x, f, Old) ==
  /\ x \in Slots /\ x.name = n /\ ~x.dir /\ Writable(Here, i, x)
  /\ i \in 1 .. SlotsOf(cwd) /\ Here[i].name \notin {".", ".."}
  /\ i \in Used(Here) => ~Here[i].dir /\ Here[i].name = n
  /\ \A j \in Used(Here) : Here[j].name = n => j = i
  /\ Old = (IF i \in Used(Here) THEN Chain(fat, Here[i].fst) ELSE {})
  /\ Old \subseteq Clusters /\ FreeIn(f) = FreeIn(fat) \cup Old
  /\ \A c \in Clusters : c \notin Old => f[c] = fat[c]

\* There, it is given the text t.
LEMMA WriteOutStep ==
  ASSUME VolumeInv, Synced, fs_ready, Quiet, NEW P, TreeAt(P), NEW n \in Names,
         NEW i, NEW x, NEW f, NEW Old, GoesTo(n, i, x, f, Old),
         NEW S, NEW t \in Seq(S), Len(t) <= FS_MAX_FILE_SIZE,
         Need(t) <= Cardinality(FreeIn(f)), Finish(WriteOut(f, Here, i, x, t))
  PROVE  \E z, g, a, New : /\ FileStep(n, i, z, g, a, Old, New) /\ z.name = n
                           /\ Load(g, disk'.data, z.fst, z.size) = t
<1> DEFINE g == Linked(f, Need(t))
           a == Written(f, disk.data, t, Need(t))
           c == IF t = <<>> THEN 0 ELSE NthFree(f, 1)
           z == [x EXCEPT !.fst = c, !.size = Len(t)]
           u == [Here EXCEPT ![i] = z]
           New == Taken(f, Need(t))
           k == SlotsOf(cwd)
<1>0. /\ x \in Slots /\ x.name = n /\ ~x.dir /\ Writable(Here, i, x)
      /\ i \in 1 .. SlotsOf(cwd) /\ Here[i].name \notin {".", ".."}
      /\ i \in Used(Here) => ~Here[i].dir /\ Here[i].name = n
      /\ \A j \in Used(Here) : Here[j].name = n => j = i
      /\ Old = (IF i \in Used(Here) THEN Chain(fat, Here[i].fst) ELSE {})
      /\ Old \subseteq Clusters /\ FreeIn(f) = FreeIn(fat) \cup Old
      /\ \A y \in Clusters : y \notin Old => f[y] = fat[y]
  BY DEF GoesTo
<1>1. /\ Tidy(Here, k) /\ k \in Nat /\ k = CwdSlots /\ TidyDisk(disk) /\ fat = disk.fat
      /\ root = disk.root /\ cwd \in Places
  BY HereIs
<1>2. Stores(g, u, a)
  <2>1. IsText(t)
    BY SeqIsText
  <2> QED
    BY <1>1, <2>1, WriteFinish
<1>3. /\ c \in Places /\ Chain(g, c) = New /\ New \subseteq FreeIn(f)
      /\ FreeIn(g) = FreeIn(f) \ New
      /\ DOMAIN g = Clusters /\ DOMAIN a = Clusters
      /\ \A y \in Clusters : y \notin FreeIn(f) => g[y] = f[y] /\ a[y] = disk.data[y]
      /\ Load(g, a, c, Len(t)) = t
  <2>1. Holds(f, disk.data, t, New, g, a, c)
    BY ChainOut
  <2> HIDE DEF g, a, c, New
  <2> QED
    BY <2>1 DEF Holds
<1> HIDE DEF g, a, c, New
<1>4. Len(t) \in Nat
  OBVIOUS
<1>5. z.name = n /\ ~z.dir /\ z.fst = c /\ z.size = Len(t)
  BY <1>0 DEF Slots
<1>6. Tidy(u, k)
  BY <1>0, <1>1, <1>3, <1>4 DEF Writable
<1> HIDE DEF z
<1>7. FileStep(n, i, z, g, a, Old, New)
  <2>1. New = IF z.name \in Names THEN Chain(g, z.fst) ELSE {}
    BY <1>0, <1>3, <1>5
  <2>2. New \subseteq FreeIn(fat) \cup Old /\ FreeIn(g) = (FreeIn(fat) \cup Old) \ New
    BY <1>0, <1>3
  <2>3. ASSUME NEW y \in Clusters, y \notin FreeIn(fat) \cup Old
        PROVE  g[y] = fat[y] /\ a[y] = disk.data[y]
    BY <1>0, <1>3, <2>3
  <2> QED
    BY <1>0, <1>2, <1>3, <1>5, <1>6, <2>1, <2>2, <2>3 DEF FileStep
<1>8. Load(g, disk'.data, z.fst, z.size) = t
  <2> DEFINE h == disk'.data
  <2>1. \A y \in Clusters : y # cwd => h[y] = a[y]
    BY <1>2, <1>3, ShelfAfter
  <2>2. Volume(fat, Shelf(root, disk.data), P) /\ cwd \in DOMAIN P
    BY <1>1 DEF TreeAt, Sound
  <2> DEFINE F == Shelf(root, disk.data)
  <2>3. Here = F[cwd]
    BY DEF Here
  <2> HIDE DEF F, h
  <2>4. cwd \notin FreeIn(f)
    <3>1. CASE cwd = 0
      <4>1. 0 \notin Clusters /\ FreeIn(f) \subseteq Clusters
        BY DEF Clusters, FreeIn
      <4> QED
        BY <3>1, <4>1
    <3>2. CASE cwd # 0
      <4>1. Volume(fat, F, P)
        BY <2>2 DEF F
      <4>2. cwd \notin FreeIn(fat)
        BY <2>2, <3>2, <4>1, DirInCluster
      <4>3. cwd \notin Old
        <5>1. CASE i \in Used(F[cwd])
          BY <1>0, <2>2, <2>3, <3>2, <4>1, <5>1, DirNotInFile
        <5>2. CASE i \notin Used(F[cwd])
          BY <1>0, <2>3, <5>2
        <5> QED
          BY <5>1, <5>2
      <4> QED
        BY <1>0, <4>2, <4>3
    <3> QED
      BY <3>1, <3>2
  <2>5. \A y \in Chain(g, c) : g[y] = g[y] /\ h[y] = a[y]
    BY <1>3, <2>1, <2>4 DEF FreeIn
  <2>6. Load(g, h, c, Len(t)) = Load(g, a, c, Len(t))
    BY <1>3, <1>4, <2>5, LoadSame
  <2> QED
    BY <1>3, <1>5, <2>6 DEF h
<1> QED
  BY <1>5, <1>7, <1>8

\* The text t ends up in file n.
Writes(n, t) ==
  \E i, z, g, a, Old, New :
    /\ FileStep(n, i, z, g, a, Old, New) /\ z.name = n
    /\ Load(g, disk'.data, z.fst, z.size) = t

\* The reasons for refusing to write t to n.
NoPlace(n, t) == find_entry(Here, n) = {} \/ Len(t) > FS_MAX_FILE_SIZE

\* fs_write_raw.
LEMMA WriteRawStep ==
  ASSUME VolumeInv, Synced, fs_ready, Quiet, "ondirs" \notin Scope, NEW P, TreeAt(P),
         NEW n \in Names, NEW S, NEW t \in Seq(S), Applicable(n), fs_write_raw(n, t)
  PROVE  (Refuse(-1) /\ NoPlace(n, t)) \/ Writes(n, t)
<1> DEFINE e == Here
           k == SlotsOf(cwd)
<1>1. /\ current_dir_entries = e /\ Tidy(e, k) /\ k \in Nat /\ k = CwdSlots /\ cwd \in Places
  BY HereIs
<1>2. /\ Room(e, n, t)
      /\ (Refuse(-1) /\ NoPlace(n, t)) \/ (Len(t) <= FS_MAX_FILE_SIZE /\ Rewrite(e, n, t))
  BY <1>1 DEF fs_write_raw, Quiet, NoPlace
<1>3. \A i \in find_entry(e, n) : ~e[i].dir
  BY <1>1 DEF Applicable
<1>4. ASSUME Len(t) <= FS_MAX_FILE_SIZE, NEW i \in find_entry(e, n),
             Finish(WriteOut(free_chain(fat, e[i].fst), e, i, e[i], t))
      PROVE  Writes(n, t)
  <2> DEFINE c == e[i].fst
             f == free_chain(fat, c)
             Old == Chain(fat, c)
  <2> HIDE DEF e, k
  <2>1. e[i] \in Slots /\ find_entry(e, n) = {i} /\ e[i].name = n
    BY <1>1, FoundSlot
  <2>2. c \in Places
    BY <2>1 DEF Slots
  <2>3. /\ i \in 1 .. k /\ i \in Used(e) /\ n \notin {".", ".."}
        /\ \A j \in Used(e) : e[j].name = n => j = i
    BY <1>1, UsedSlot
  <2>4. Writable(e, i, e[i])
    <3>1. Tidy(e, CwdSlots) /\ CwdSlots \in Nat
      BY <1>1
    <3> QED
      BY <3>1, FoundWritable
  <2> HIDE DEF c
  <2>5. /\ FreeIn(f) = FreeIn(fat) \cup Old /\ Old \subseteq Clusters
        /\ \A x \in Clusters : x \notin Old => f[x] = fat[x]
    BY <2>2, FreedChain, ChainType
  <2>6. Need(t) <= Cardinality(FreeIn(f))
    <3>1. UNION {Chain(fat, e[j].fst) : j \in find_entry(e, n)} = Old
      BY <2>1 DEF c
    <3> HIDE DEF f, Old
    <3> QED
      BY <1>2, <2>5, <3>1 DEF Room
  <2>7. Finish(WriteOut(f, e, i, e[i], t))
    BY <1>4 DEF c
  <2>8. Old = IF i \in Used(e) THEN Chain(fat, e[i].fst) ELSE {}
    BY <2>3 DEF c
  <2>9. ~e[i].dir /\ e[i].name \notin {".", ".."}
    BY <1>3, <2>1, <2>3
  <2> HIDE DEF f, Old
  <2> DEFINE x == e[i]
  <2>10. /\ x \in Slots /\ x.name = n /\ ~x.dir /\ Writable(e, i, x)
         /\ Finish(WriteOut(f, e, i, x, t))
    BY <2>1, <2>4, <2>7, <2>9
  <2> HIDE DEF x
  <2>11. \E z, g, a, New : /\ FileStep(n, i, z, g, a, Old, New) /\ z.name = n
                           /\ Load(g, disk'.data, z.fst, z.size) = t
    <3>1. GoesTo(n, i, x, f, Old)
      BY <2>1, <2>3, <2>5, <2>8, <2>9, <2>10 DEF GoesTo, e, k
    <3> QED
      BY <1>4, <2>6, <2>10, <3>1, WriteOutStep DEF e
  <2> QED
    BY <2>11 DEF Writes
<1>5. ASSUME Len(t) <= FS_MAX_FILE_SIZE, find_entry(e, n) = {}, NEW i \in free_idx(e),
             Finish(WriteOut(fat, e, i, Entry(n, FALSE, 0, 0), t))
      PROVE  Writes(n, t)
  <2> DEFINE x == Entry(n, FALSE, 0, 0)
  <2>1. x \in Slots /\ x.name = n /\ ~x.dir
    BY DEF Entry, Slots, Places
  <2> HIDE DEF e, k
  <2>2. i \in 1 .. k /\ i \notin Used(e) /\ e[i].name \notin {".", ".."}
    BY <1>1, FreeSlot
  <2>3. \A j \in Used(e) : e[j].name # n
    BY <1>1, <1>5, NotUsed
  <2>4. Writable(e, i, x)
    <3>1. Tidy(e, CwdSlots) /\ CwdSlots \in Nat
      BY <1>1
    <3> QED
      BY <1>5, <3>1, NewWritable
  <2>5. Need(t) <= Cardinality(FreeIn(fat))
    <3>1. FreeIn(fat) \cup UNION {Chain(fat, e[j].fst) : j \in find_entry(e, n)} = FreeIn(fat)
      BY <1>5
    <3> QED
      BY <1>2, <3>1 DEF Room
  <2> DEFINE Old == {}
             f == fat
  <2>6. /\ Old = (IF i \in Used(e) THEN Chain(fat, e[i].fst) ELSE {}) /\ Old \subseteq Clusters
        /\ FreeIn(f) = FreeIn(fat) \cup Old /\ Need(t) <= Cardinality(FreeIn(f))
        /\ \A c \in Clusters : c \notin Old => f[c] = fat[c]
        /\ Finish(WriteOut(f, e, i, x, t))
    BY <1>5, <2>2, <2>5
  <2> HIDE DEF x, Old, f
  <2>7. \E z, g, a, New : /\ FileStep(n, i, z, g, a, Old, New) /\ z.name = n
                          /\ Load(g, disk'.data, z.fst, z.size) = t
    <3>1. GoesTo(n, i, x, f, Old)
      BY <2>1, <2>2, <2>3, <2>4, <2>6 DEF GoesTo, e, k
    <3>2. /\ Len(t) <= FS_MAX_FILE_SIZE /\ Need(t) <= Cardinality(FreeIn(f))
          /\ Finish(WriteOut(f, Here, i, x, t))
      BY <1>5, <2>6 DEF e
    <3> QED
      BY <3>1, <3>2, WriteOutStep
  <2> QED
    BY <2>7 DEF Writes
<1> QED
  BY <1>2, <1>4, <1>5 DEF Rewrite

\* append, without an error of the disk: what is written is the old text with the
\* new one after it.
OldText(n, old) ==
  \/ find_entry(Here, n) = {} /\ old = <<>>
  \/ \E j \in find_entry(Here, n) : old = Load(fat, disk.data, Here[j].fst, Here[j].size)

\* append writes the old text of the file and the new one.
LEMMA AppendStep ==
  ASSUME VolumeInv, Synced, fs_ready, Quiet, "ondirs" \notin Scope, NEW P, TreeAt(P),
         NEW n \in Names, NEW t \in Texts, fs_append(n, t)
  PROVE  \E old : /\ OldText(n, old)
                  /\ (Refuse(-1) /\ NoPlace(n, old \o t)) \/ Writes(n, old \o t)
<1> DEFINE e == Here
           k == SlotsOf(cwd)
           Old == {Load(fat, disk.data, e[i].fst, e[i].size) : i \in find_entry(e, n)}
<1>1. current_dir_entries = e /\ Tidy(e, k) /\ k \in Nat
  BY HereIs
<1>2. "read" \notin Scope
  BY DEF Quiet
<1>3. Applicable(n) /\ \E old \in Old \cup {<<>> : i \in {i \in {0} : Old = {}}} :
        fs_write_raw(n, old \o t)
  BY <1>1, <1>2 DEF fs_append
<1>4. PICK old : (old \in Old \/ (Old = {} /\ old = <<>>)) /\ fs_write_raw(n, old \o t)
  BY <1>3
<1>5. OldText(n, old)
  BY <1>4 DEF OldText
<1>6. \E S : old \in Seq(S)
  <2>1. ASSUME NEW i \in find_entry(e, n), old = Load(fat, disk.data, e[i].fst, e[i].size)
        PROVE  \E S : old \in Seq(S)
    <3> HIDE DEF e, k
    <3>1. e[i].fst \in Places /\ e[i].size \in Nat
      BY <1>1, FoundSlot DEF Slots
    <3> QED
      BY <2>1, <3>1, LoadIsSeq
  <2>2. CASE old = <<>>
    <3>1. old \in Seq({})
      BY <2>2
    <3> QED
      BY <3>1
  <2> QED
    BY <1>4, <2>1, <2>2
<1>7. PICK S : old \in Seq(S)
  BY <1>6
<1> DEFINE R == {t[i] : i \in 1 .. Len(t)}
           U == S \cup R
<1>8. t \in Seq(R)
  BY NamesAssumption
<1> HIDE DEF R
<1>9. old \in Seq(U) /\ t \in Seq(U)
  BY <1>7, <1>8
<1> HIDE DEF U
<1>10. old \o t \in Seq(U)
  BY <1>9
<1> DEFINE w == old \o t
<1>11. w \in Seq(U) /\ fs_write_raw(n, w)
  BY <1>4, <1>10
<1> HIDE DEF w
<1>12. (Refuse(-1) /\ NoPlace(n, w)) \/ Writes(n, w)
  BY <1>3, <1>11, WriteRawStep
<1> QED
  BY <1>5, <1>12 DEF w

\* mkdir.
LEMMA MkdirIsStep ==
  ASSUME VolumeInv, Synced, fs_ready, Quiet, NEW P, TreeAt(P), NEW n \in Names, fs_mkdir(n)
  PROVE  Refuse(-1) \/ \E i, c : MkdirStep(n, i, c)
<1> DEFINE e == Here
           c == NthFree(fat, 1)
           made == [disk EXCEPT !.data[c] = DirSector(Dots(c))]
           f == Claim(fat, c)
           u(i) == [e EXCEPT ![i] = Entry(n, TRUE, c, 0)]
           O(i) == {Outcome("data", -1, fat, e, disk)} \cup
                   {Outcome("read", -1, f, e, made) : x \in {cwd} \ {0}} \cup
                   Commit(f, u(i), made)
<1>1. current_dir_entries = e /\ TidyDisk(disk) /\ cwd \in Places
  BY HereIs
<1>2. \/ Refuse(-1)
      \/ /\ find_entry(e, n) = {} /\ FreeIn(fat) # {}
         /\ \E i \in free_idx(e) : Finish(O(i))
  BY <1>1 DEF fs_mkdir, Dots
<1>3. ASSUME find_entry(e, n) = {}, FreeIn(fat) # {}, NEW i \in free_idx(e), Finish(O(i))
      PROVE  MkdirStep(n, i, c)
  <2>1. c \in FreeIn(fat) /\ c \in Clusters
    BY <1>3, FirstFree
  <2>2. made = [boot |-> disk.boot, fat |-> disk.fat, root |-> disk.root,
                data |-> [disk.data EXCEPT ![c] = DirSector(Dots(c))]]
    <3> HIDE DEF c
    <3> QED
      BY <1>1, DiskWith
  <2>3. TidyDisk(made)
    <3> HIDE DEF c
    <3>1. Tidy(Dots(c), DirSlots)
      BY <1>1, <2>1, DotsAre
    <3> QED
      BY <1>1, <2>1, <3>1, DiskWithDir
  <2> DEFINE a == [disk.data EXCEPT ![c] = DirSector(Dots(c))]
             v == u(i)
             W == O(i)
  <2> HIDE DEF c, made, f, e, a, u, v
  <2>4. made.boot = disk.boot /\ made.root = disk.root /\ made.data = a
    BY <2>2 DEF a
  <2>5. \A o \in W : o.why \in {"data", "read"} \/ o \in Commit(f, v, made)
    <3>1. Outcome("data", -1, fat, e, disk).why = "data"
      BY OutcomeParts
    <3>2. Outcome("read", -1, f, e, made).why = "read"
      BY OutcomeParts
    <3> QED
      BY <3>1, <3>2 DEF v
  <2>6. Finish(W)
    BY <1>3
  <2> HIDE DEF W
  <2>7. \A o \in W : o.why \in {"", "data", "read", "fat", "dir"}
    BY <2>5, CommitWhy
  <2>8. PICK o \in W : Return(o) /\ Faultless(o)
    BY <2>6, <2>7, QuietFinish
  <2>9. o \in Commit(f, v, made)
    BY <2>5, <2>8 DEF Faultless
  <2>10. Stores(f, v, made.data)
    BY <2>3, <2>4, <2>8, <2>9, CommitStores
  <2>11. Stores(f, v, a)
    BY <2>4, <2>10
  <2> QED
    BY <1>3, <2>1, <2>11 DEF MkdirStep, f, v, u, a, e
<1> QED
  BY <1>2, <1>3

\* The reasons for refusing to remove directory n.
NotRemovable(n) ==
  \/ find_entry(Here, n) = {}
  \/ \E i \in find_entry(Here, n) :
       ~Here[i].dir \/ ~IsEmptyDir(disk.data[Here[i].fst].ents)

\* rmdir.
LEMMA RmdirIsStep ==
  ASSUME VolumeInv, Synced, fs_ready, Quiet, NEW P, TreeAt(P), NEW n \in Names, fs_rmdir(n)
  PROVE  (Refuse(-1) /\ NotRemovable(n)) \/ \E i : RmdirStep(n, i)
<1> DEFINE e == Here
<1>1. current_dir_entries = e /\ TidyDisk(disk)
  BY HereIs
<1>2. \/ Refuse(-1) /\ NotRemovable(n)
      \/ \E i \in find_entry(e, n) :
           /\ e[i].dir /\ IsEmptyDir(disk.data[e[i].fst].ents)
           /\ Finish(Commit(free_chain(fat, e[i].fst), [e EXCEPT ![i] = Deleted], disk))
  BY <1>1 DEF fs_rmdir, NotRemovable
<1>3. ASSUME NEW i \in find_entry(e, n), e[i].dir, IsEmptyDir(disk.data[e[i].fst].ents),
             Finish(Commit(free_chain(fat, e[i].fst), [e EXCEPT ![i] = Deleted], disk))
      PROVE  RmdirStep(n, i)
  <2> DEFINE g == free_chain(fat, e[i].fst)
             u == [e EXCEPT ![i] = Deleted]
  <2>1. Finish(Commit(g, u, disk))
    BY <1>3
  <2> HIDE DEF g, u
  <2>2. Stores(g, u, disk.data)
    BY <1>1, <2>1, CommitFinish
  <2> QED
    BY <1>3, <2>2 DEF RmdirStep, g, u
<1> QED
  BY <1>2, <1>3

\* cd goes to a directory of the map, under its path.
LEMMA ChdirStep ==
  ASSUME VolumeInv, Synced, fs_ready, NEW P, TreeAt(P), NEW absolute \in BOOLEAN, NEW comp,
         fs_chdir(absolute, comp)
  PROVE  /\ UNCHANGED <<disk, fat, root, fs_ready>>
         /\ cwd' \in DOMAIN P /\ path' = P[cwd']
         /\ \/ ret' = 0 /\ path' = FT!Target(absolute, comp)
            \/ /\ ret' = -1 /\ comp \in Names /\ path' = FT!Base(absolute)
               /\ \A i \in find_entry(Shelf(root, disk.data)[cwd'], comp) :
                    ~Shelf(root, disk.data)[cwd'][i].dir
<1> DEFINE F == Shelf(root, disk.data)
           d == IF absolute THEN 0 ELSE cwd
           p == IF absolute THEN <<>> ELSE path
           e == EntriesOf(root, disk.data, d)
<1>1. root = disk.root /\ fat = disk.fat
  BY DEF Synced
<1>2. Volume(fat, F, P) /\ cwd \in DOMAIN P /\ path = P[cwd]
  BY <1>1 DEF TreeAt, Sound
<1>3. 0 \in DOMAIN P /\ P[0] = <<>> /\ (\A q \in DOMAIN P : q \in Places /\ P[q] \in Seq(Names))
  BY <1>2 DEF Volume, Mapped
<1>4. d \in DOMAIN P /\ p = P[d]
  BY <1>2, <1>3
<1>5. e = F[d]
  BY <1>3, <1>4 DEF Shelf
<1>6. UNCHANGED <<disk, fat, root, fs_ready>>
  BY DEF fs_chdir
<1>7. \/ comp = "" /\ absolute /\ cwd' = 0 /\ path' = <<>> /\ ret' = 0
      \/ comp = ".." /\ d = 0 /\ cwd' = d /\ path' = p /\ ret' = 0
      \/ comp = ".." /\ d # 0 /\ cwd' = e[2].fst /\ path' = Parent(p) /\ ret' = 0
      \/ /\ find_entry(e, comp) = {} \/ \E i \in find_entry(e, comp) : ~e[i].dir
         /\ comp \in Names /\ cwd' = d /\ path' = p /\ ret' = -1
      \/ \E i \in find_entry(e, comp) : /\ comp \in Names /\ e[i].dir
                                        /\ cwd' = e[i].fst /\ path' = Append(p, comp) /\ ret' = 0
  BY DEF fs_chdir
<1>8. CASE comp = "" /\ absolute /\ cwd' = 0 /\ path' = <<>> /\ ret' = 0
  <2>1. FT!Target(absolute, comp) = <<>>
    BY <1>8 DEF FT!Target, FT!Base
  <2> QED
    BY <1>3, <1>6, <1>8, <2>1
<1>9. CASE comp = ".." /\ d = 0 /\ cwd' = d /\ path' = p /\ ret' = 0
  <2>1. p = <<>>
    BY <1>3, <1>4, <1>9
  <2>2. FT!Target(absolute, comp) = p
    BY <1>9, <2>1 DEF FT!Target, FT!Base
  <2> QED
    BY <1>4, <1>6, <1>9, <2>2
<1>10. CASE comp = ".." /\ d # 0 /\ cwd' = e[2].fst /\ path' = Parent(p) /\ ret' = 0
  <2>1. d = cwd /\ p = path /\ ~absolute
    BY <1>10
  <2> HIDE DEF F
  <2>2. PICK q \in DOMAIN P : \E j \in Used(F[q]) : F[q][j].dir /\ F[q][j].fst = cwd
    BY <1>2, <1>10, <2>1 DEF Volume, Hung
  <2>3. PICK j \in Used(F[q]) : F[q][j].dir /\ F[q][j].fst = cwd
    BY <2>2
  <2>4. LeadsTo(F, P, q, cwd, F[q][j].name)
    BY <1>2, <2>3 DEF Volume, Hung
  <2>5. P[cwd] = Append(P[q], F[q][j].name) /\ F[cwd][2].fst = q
    BY <2>4 DEF LeadsTo
  <2>6. P[q] \in Seq(Names) /\ F[q][j].name \in Names
    BY <1>3 DEF Used
  <2> DEFINE s == P[q]
             m == F[q][j].name
  <2>7. s \in Seq(Names) /\ m \in Names /\ path = Append(s, m)
    BY <1>2, <2>5, <2>6
  <2> HIDE DEF s, m
  <2>8. Append(s, m) # <<>> /\ SubSeq(Append(s, m), 1, Len(Append(s, m)) - 1) = s
    BY <2>7
  <2>9. path # <<>> /\ SubSeq(path, 1, Len(path) - 1) = s
    BY <2>7, <2>8
  <2>10. path' = s /\ cwd' = q
    BY <1>5, <1>10, <2>1, <2>5, <2>9 DEF Parent
  <2>11. path' = FT!Target(absolute, comp)
    BY <1>10, <2>1, <2>9, <2>10 DEF FT!Target, FT!Base
  <2> QED
    BY <1>6, <1>10, <2>10, <2>11 DEF s
<1> DEFINE k == SlotsOf(d)
<1>11. Tidy(e, k) /\ k \in Nat
  BY <1>2, <1>4, <1>5, SlotsOfType DEF Volume, Mapped
<1>12. ASSUME comp \in Names
       PROVE  FT!Base(absolute) = p /\ FT!Target(absolute, comp) = Append(p, comp)
  <2>1. comp # "" /\ comp # ".."
    BY <1>12, NamesAssumption
  <2> QED
    BY <2>1 DEF FT!Target, FT!Base
<1>13. ASSUME find_entry(e, comp) = {} \/ \E i \in find_entry(e, comp) : ~e[i].dir,
              comp \in Names, cwd' = d, path' = p, ret' = -1
       PROVE  \A i \in find_entry(F[cwd'], comp) : ~F[cwd'][i].dir
  <2>1. \A i \in find_entry(e, comp) : ~e[i].dir
    <3> HIDE DEF e, k
    <3>1. \A i \in find_entry(e, comp) : find_entry(e, comp) = {i}
      BY <1>11, <1>13, FoundSlot
    <3> QED
      BY <1>13, <3>1
  <2> QED
    BY <1>5, <1>13, <2>1
<1>14. ASSUME NEW i \in find_entry(e, comp), comp \in Names, e[i].dir,
              cwd' = e[i].fst, path' = Append(p, comp), ret' = 0
       PROVE  cwd' \in DOMAIN P /\ path' = P[cwd']
  <2> HIDE DEF e, F, d, k
  <2>1. i \in Used(F[d]) /\ F[d][i].name = comp
    BY <1>5, <1>11, <1>14, UsedSlot
  <2>2. LeadsTo(F, P, d, F[d][i].fst, comp)
    BY <1>2, <1>4, <1>5, <1>14, <2>1 DEF Volume, Hung
  <2>3. cwd' \in DOMAIN P /\ P[cwd'] = Append(P[d], comp)
    BY <1>5, <1>14, <2>2 DEF LeadsTo
  <2> QED
    BY <1>4, <1>14, <2>3
<1> HIDE DEF e, F, d, p, k
<1>15. CASE \E i \in find_entry(e, comp) : /\ comp \in Names /\ e[i].dir
                                          /\ cwd' = e[i].fst /\ path' = Append(p, comp) /\ ret' = 0
  BY <1>6, <1>12, <1>14, <1>15
<1>16. CASE /\ find_entry(e, comp) = {} \/ \E i \in find_entry(e, comp) : ~e[i].dir
            /\ comp \in Names /\ cwd' = d /\ path' = p /\ ret' = -1
  BY <1>4, <1>6, <1>12, <1>13, <1>16 DEF F
<1> QED
  BY <1>7, <1>8, <1>9, <1>10, <1>15, <1>16

\* An empty volume.
JustRoot == [d \in {0} |-> <<>>]

\* It is mapped by the root alone.
LEMMA BlankVolume ==
  ASSUME NEW data, TidyData(data)
  PROVE  Sound([c \in Clusters |-> FREE], Blank(FS_MAX_FILES), data, JustRoot)
<1> DEFINE f == [c \in Clusters |-> FREE]
           r == Blank(FS_MAX_FILES)
           F == Shelf(r, data)
           P == JustRoot
<1>1. DOMAIN P = {0} /\ P[0] = <<>> /\ 0 \in Places
  BY DEF JustRoot, Places
<1>2. F[0] = r
  BY <1>1 DEF Shelf, EntriesOf
<1>3. FS_MAX_FILES \in Nat
  BY FsAssumption
<1>4. Tidy(r, FS_MAX_FILES)
  BY <1>3, BlankTidy
<1>5. Used(F[0]) = {}
  <2>1. \A j \in 1 .. FS_MAX_FILES : r[j].name = END
    BY DEF Blank, Empty, Entry
  <2>2. END \notin Names
    BY NamesAssumption
  <2> HIDE DEF r, F
  <2>3. Used(r) = {}
    BY <1>3, <1>4, <2>1, <2>2, UsedTidy
  <2> QED
    BY <1>2, <2>3
<1>6. FreeIn(f) = Clusters
  BY DEF FreeIn
<1> HIDE DEF F, P, f, r
<1>7. Mapped(F, P)
  <2>1. <<>> \in Seq(Names)
    OBVIOUS
  <2> QED
    BY <1>1, <1>2, <1>4, <2>1 DEF Mapped, SlotsOf
<1>8. Hung(F, P)
  BY <1>1, <1>5 DEF Hung
<1>9. Owned(f, F, P)
  BY <1>1, <1>5, <1>6 DEF Owned
<1>10. Sound(f, r, data, P)
  BY <1>4, <1>7, <1>8, <1>9 DEF Sound, Volume, F
<1> QED
  BY <1>10 DEF f, r, P

\* The commands that change the volume, and those that leave it.
Changes(n) ==
  \/ \E i, x, g, a, Old, New : FileStep(n, i, x, g, a, Old, New)
  \/ \E i, c : MkdirStep(n, i, c)
  \/ \E i : RmdirStep(n, i)

Calm == Scope \cap {"ondirs", "full", "crash", "read", "data", "fat", "dir"} = {}

\* Every command refuses, or is one of the three steps.
LEMMA CommandStep ==
  ASSUME VolumeInv, Synced, Calm, NEW P, TreeAt(P), NEW n \in Names, VfsCommand(n)
  PROVE  fs_ready /\ (Refuse(0) \/ Refuse(-1) \/ Changes(n))
<1>1. Quiet /\ "ondirs" \notin Scope
  BY DEF Calm, Quiet
<1>2. CASE fs_touch(n)
  <2>1. fs_ready
    BY <1>2 DEF fs_touch
  <2> QED
    BY <1>1, <1>2, <2>1, TouchStep DEF Changes
<1>3. CASE fs_remove(n)
  <2>1. fs_ready
    BY <1>3 DEF fs_remove
  <2> QED
    BY <1>1, <1>3, <2>1, RemoveStep DEF Changes
<1>4. CASE fs_mkdir(n)
  <2>1. fs_ready
    BY <1>4 DEF fs_mkdir
  <2> QED
    BY <1>1, <1>4, <2>1, MkdirIsStep DEF Changes
<1>5. CASE fs_rmdir(n)
  <2>1. fs_ready
    BY <1>5 DEF fs_rmdir
  <2> QED
    BY <1>1, <1>5, <2>1, RmdirIsStep DEF Changes
<1>6. ASSUME NEW t \in Texts, fs_write(n, t)
      PROVE  fs_ready /\ (Refuse(-1) \/ Changes(n))
  <2>1. fs_ready /\ Applicable(n) /\ fs_write_raw(n, t)
    BY <1>6 DEF fs_write
  <2>2. t \in Seq({t[i] : i \in 1 .. Len(t)})
    BY NamesAssumption
  <2>3. (Refuse(-1) /\ NoPlace(n, t)) \/ Writes(n, t)
    BY <1>1, <2>1, <2>2, WriteRawStep
  <2> QED
    BY <2>1, <2>3 DEF Writes, Changes
<1>7. ASSUME NEW t \in Texts, fs_append(n, t)
      PROVE  fs_ready /\ (Refuse(-1) \/ Changes(n))
  <2>1. fs_ready
    BY <1>7 DEF fs_append
  <2>2. \E old : /\ OldText(n, old)
                 /\ (Refuse(-1) /\ NoPlace(n, old \o t)) \/ Writes(n, old \o t)
    BY <1>1, <1>7, <2>1, AppendStep
  <2> QED
    BY <2>1, <2>2 DEF Writes, Changes
<1> QED
  BY <1>2, <1>3, <1>4, <1>5, <1>6, <1>7 DEF VfsCommand

-----------------------------------------------------------------------------
(* The invariant is kept *)

\* An image that has just been built is an empty volume.
LEMMA TreeStart == ASSUME Init PROVE TreeInv
<1> DEFINE f == [c \in Clusters |-> FREE]
           r == Blank(FS_MAX_FILES)
<1>1. VolumeInv /\ Synced
  BY VolumeStart
<1>2. disk.fat = f /\ disk.root = r /\ cwd = 0 /\ path = <<>> /\ ~fs_ready /\ root = r
  BY DEF Init
<1>3. TidyData(disk.data)
  BY <1>1 DEF VolumeInv, TidyDisk
<1>4. Sound(f, r, disk.data, JustRoot)
  BY <1>3, BlankVolume
<1>5. DOMAIN f = Clusters
  OBVIOUS
<1>6. 0 \in DOMAIN JustRoot /\ JustRoot[0] = <<>>
  BY DEF JustRoot
<1> HIDE DEF f, r
<1>7. TreeAt(JustRoot)
  BY <1>2, <1>4, <1>5, <1>6 DEF TreeAt
<1> QED
  BY <1>1, <1>2, <1>7 DEF TreeInv, f, r

\* Starting the machine, and restarting it.
LEMMA InitTree ==
  ASSUME TreeInv, fs_init, VolumeInv', Synced'
  PROVE  TreeInv'
<1> DEFINE f == [c \in Clusters |-> FREE]
           r == Blank(FS_MAX_FILES)
<1>1. VolumeInv /\ ~fs_ready /\ cwd = 0 /\ path = <<>>
  BY DEF TreeInv, fs_init
<1>2. fs_ready' /\ cwd' = 0 /\ path' = <<>>
  BY <1>1 DEF fs_init
<1>3. PICK P : TreeAt(P)
  BY DEF TreeInv
<1>4. (disk' = disk /\ disk.boot) \/ disk' = Format
  BY DEF fs_init, valid_boot
<1>5. CASE disk' = disk /\ disk.boot
  <2>1. TreeAt(P)'
    BY <1>1, <1>2, <1>3, <1>5 DEF TreeAt
  <2> QED
    BY <1>2, <1>5, <2>1 DEF TreeInv
<1>6. CASE disk' = Format
  <2>1. disk'.boot /\ disk'.fat = f /\ disk'.root = r /\ disk'.data = disk.data
    BY <1>6 DEF Format
  <2>2. TidyData(disk.data)
    BY <1>1 DEF VolumeInv, TidyDisk
  <2>3. Sound(f, r, disk.data, JustRoot)
    BY <2>2, BlankVolume
  <2>4. DOMAIN f = Clusters
    OBVIOUS
  <2>5. 0 \in DOMAIN JustRoot /\ JustRoot[0] = <<>>
    BY DEF JustRoot
  <2> HIDE DEF f, r
  <2>6. TreeAt(JustRoot)'
    BY <1>2, <2>1, <2>3, <2>4, <2>5 DEF TreeAt, JustRoot
  <2> QED
    BY <1>2, <2>1, <2>6 DEF TreeInv
<1> QED
  BY <1>4, <1>5, <1>6

\* A restart leaves the disk, and the user at the root.
LEMMA RebootTree ==
  ASSUME TreeInv, reboot, VolumeInv', Synced'
  PROVE  TreeInv'
<1>1. /\ disk' = disk /\ ~fs_ready' /\ cwd' = 0 /\ path' = <<>>
      /\ root' = Blank(FS_MAX_FILES) /\ fs_ready
  BY DEF reboot, PowerOff
<1>2. PICK P : TreeAt(P)
  BY DEF TreeInv
<1>3. 0 \in DOMAIN P /\ P[0] = <<>>
  BY <1>2 DEF TreeAt, Sound, Volume, Mapped
<1>4. TreeAt(P)'
  BY <1>1, <1>2, <1>3 DEF TreeAt
<1>5. disk.boot
  BY <1>1 DEF TreeInv
<1> QED
  BY <1>1, <1>4, <1>5 DEF TreeInv

\* A step that leaves all but the value returned.
LEMMA SameTree ==
  ASSUME TreeInv, UNCHANGED <<disk, fat, root, cwd, path, fs_ready>>
  PROVE  TreeInv'
<1>1. VolumeInv' /\ Synced'
  BY DEF TreeInv, VolumeInv, Synced
<1>2. PICK P : TreeAt(P)
  BY DEF TreeInv
<1>3. TreeAt(P)'
  BY <1>2 DEF TreeAt
<1> QED
  BY <1>1, <1>3 DEF TreeInv

\* cd goes to a directory of the map.
LEMMA ChdirTree ==
  ASSUME TreeInv, NEW absolute \in BOOLEAN, NEW comp, fs_chdir(absolute, comp),
         VolumeInv', Synced'
  PROVE  TreeInv'
<1>1. PICK P : TreeAt(P)
  BY DEF TreeInv
<1>2. VolumeInv /\ Synced /\ fs_ready
  BY DEF TreeInv, fs_chdir
<1>3. UNCHANGED <<disk, fat, root, fs_ready>> /\ cwd' \in DOMAIN P /\ path' = P[cwd']
  BY <1>1, <1>2, ChdirStep
<1>4. TreeAt(P)'
  BY <1>1, <1>3 DEF TreeAt
<1> QED
  BY <1>2, <1>3, <1>4 DEF TreeInv

\* The commands keep the volume in order.
LEMMA CommandTree ==
  ASSUME TreeInv, Calm, NEW n \in Names, VfsCommand(n), VolumeInv', Synced'
  PROVE  TreeInv'
<1>1. PICK P : TreeAt(P)
  BY DEF TreeInv
<1>2. VolumeInv /\ Synced
  BY DEF TreeInv
<1>3. fs_ready /\ (Refuse(0) \/ Refuse(-1) \/ Changes(n))
  BY <1>1, <1>2, CommandStep
<1>4. CASE Refuse(0) \/ Refuse(-1)
  BY <1>4, SameTree DEF Refuse
<1>5. ASSUME NEW i, NEW x, NEW g, NEW a, NEW Old, NEW New,
             FileStep(n, i, x, g, a, Old, New)
      PROVE  TreeInv'
  BY <1>1, <1>3, <1>5, FileStepKeeps
<1>6. ASSUME NEW i, NEW c, MkdirStep(n, i, c) PROVE TreeInv'
  BY <1>1, <1>3, <1>6, MkdirStepKeeps
<1>7. ASSUME NEW i, RmdirStep(n, i) PROVE TreeInv'
  BY <1>1, <1>3, <1>7, RmdirStepKeeps
<1> QED
  BY <1>3, <1>4, <1>5, <1>6, <1>7 DEF Changes

\* So does every step.
LEMMA TreeStepKeeps ==
  ASSUME TreeInv, Calm, [Next]_vars
  PROVE  TreeInv'
<1>1. Quiet /\ "crash" \notin Scope /\ "dir" \notin Scope
  BY DEF Calm, Quiet
<1>2. VolumeInv /\ Synced
  BY DEF TreeInv
<1>3. VolumeInv' /\ Synced'
  BY <1>1, <1>2, StepKeeps DEF Keeps
<1>4. CASE fs_init
  BY <1>3, <1>4, InitTree
<1>5. CASE reboot
  BY <1>3, <1>5, RebootTree
<1>6. CASE Rejected
  BY <1>6, SameTree DEF Rejected, Refuse
<1>7. ASSUME NEW n \in Names, VfsCommand(n) PROVE TreeInv'
  BY <1>3, <1>7, CommandTree
<1>8. ASSUME NEW absolute \in BOOLEAN, NEW comp, fs_chdir(absolute, comp) PROVE TreeInv'
  BY <1>3, <1>8, ChdirTree
<1>9. CASE UNCHANGED vars
  BY <1>9, SameTree DEF vars
<1> QED
  BY <1>4, <1>5, <1>6, <1>7, <1>8, <1>9 DEF Next

\* A volume in order owns its clusters once.
LEMMA TreeOwned == ASSUME TreeInv PROVE ClustersOwnedOnce
<1> SUFFICES ASSUME fs_ready PROVE OwnedOnce(fat, root, disk.data)
  BY DEF ClustersOwnedOnce
<1>1. PICK P : TreeAt(P)
  BY DEF TreeInv
<1>2. fat = disk.fat /\ root = disk.root
  BY DEF TreeInv, Synced
<1> QED
  BY <1>1, <1>2, VolumeOwned DEF TreeAt

\* current_path holds all the names, unless one found no room.
PathInv == ~cut => current_path = path

\* Commands leave it, and where they are cut off the user starts at the root.
LEMMA CommandPath ==
  ASSUME PathInv, NEW n \in Names, VfsCommand(n)
  PROVE  PathInv'
<1>1. \A rc : Refuse(rc) => PathInv'
  BY DEF Refuse, PathInv, shown
<1>2. ASSUME NEW o, Return(o) PROVE PathInv'
  <2>1. path' = path /\ current_path' = current_path /\ cut' = cut
    BY <1>2 DEF Return, shown
  <2> QED
    BY <2>1 DEF PathInv
<1>3. \A d : PowerOff(d) => PathInv'
  BY DEF PowerOff, PathInv
<1>4. \A O : Finish(O) => PathInv'
  BY <1>2, <1>3 DEF Finish
<1>5. \A e, t : Rewrite(e, n, t) => PathInv'
  BY <1>4 DEF Rewrite
<1>6. \A t : fs_write_raw(n, t) => PathInv'
  BY <1>1, <1>5 DEF fs_write_raw
<1>7. CASE fs_touch(n)
  BY <1>1, <1>4, <1>7 DEF fs_touch
<1>8. CASE fs_remove(n)
  BY <1>1, <1>4, <1>8 DEF fs_remove
<1>9. CASE fs_mkdir(n)
  BY <1>1, <1>4, <1>9 DEF fs_mkdir
<1>10. CASE fs_rmdir(n)
  BY <1>1, <1>4, <1>10 DEF fs_rmdir
<1>11. \A t : fs_write(n, t) \/ fs_append(n, t) => PathInv'
  BY <1>6 DEF fs_write, fs_append
<1> QED
  BY <1>7, <1>8, <1>9, <1>10, <1>11 DEF VfsCommand

\* cd keeps it: the name is put at the end of both, taken from both, or missing
\* in current_path for good.
LEMMA ChdirPath ==
  ASSUME PathInv, NEW absolute \in BOOLEAN, NEW comp, fs_chdir(absolute, comp)
  PROVE  PathInv'
<1> DEFINE p == IF absolute THEN <<>> ELSE path
           s == IF absolute THEN <<>> ELSE current_path
           short == ~absolute /\ cut
<1>1. \/ path' = <<>> /\ current_path' = <<>>
      \/ path' = p /\ current_path' = s /\ cut' = short
      \/ path' = Parent(p) /\ current_path' = Parent(s) /\ cut' = short
      \/ /\ path' = Append(p, comp) /\ current_path' \in Extended(s, comp)
         /\ cut' = (short \/ ~Fits(s, comp))
  BY DEF fs_chdir
<1>2. ~short => s = p
  BY DEF PathInv
<1>3. Fits(s, comp) => Extended(s, comp) = {Append(s, comp)}
  BY DEF Extended
<1> HIDE DEF p, s, short
<1>4. CASE /\ path' = Append(p, comp) /\ current_path' \in Extended(s, comp)
           /\ cut' = (short \/ ~Fits(s, comp))
  <2>1. CASE short \/ ~Fits(s, comp)
    <3>1. cut'
      BY <1>4, <2>1
    <3> QED
      BY <3>1 DEF PathInv
  <2>2. CASE ~short /\ Fits(s, comp)
    BY <1>2, <1>3, <1>4, <2>2 DEF PathInv
  <2> QED
    BY <2>1, <2>2
<1>5. CASE path' = <<>> /\ current_path' = <<>>
  BY <1>5 DEF PathInv
<1>6. CASE path' = p /\ current_path' = s /\ cut' = short
  BY <1>2, <1>6 DEF PathInv
<1>7. CASE path' = Parent(p) /\ current_path' = Parent(s) /\ cut' = short
  BY <1>2, <1>7 DEF PathInv
<1> QED
  BY <1>1, <1>4, <1>5, <1>6, <1>7

\* So does every step.
LEMMA PathStep == ASSUME PathInv, [Next]_vars PROVE PathInv'
<1>1. CASE fs_init
  BY <1>1 DEF fs_init, PathInv, shown
<1>2. CASE reboot
  BY <1>2 DEF reboot, PowerOff, PathInv
<1>3. CASE Rejected
  BY <1>3 DEF Rejected, Refuse, PathInv, shown
<1>4. ASSUME NEW n \in Names, VfsCommand(n) PROVE PathInv'
  BY <1>4, CommandPath
<1>5. ASSUME NEW absolute \in BOOLEAN, NEW comp, fs_chdir(absolute, comp) PROVE PathInv'
  BY <1>5, ChdirPath
<1>6. CASE UNCHANGED vars
  BY <1>6 DEF vars, PathInv, shown
<1> QED
  BY <1>1, <1>2, <1>3, <1>4, <1>5, <1>6 DEF Next

\* The map says where the user is.
LEMMA TreeAgrees == ASSUME TreeInv, PathInv PROVE CwdPathAgrees
<1>1. PICK P : TreeAt(P)
  BY DEF TreeInv
<1>2. <<path, cwd>> \in Dirs(root, disk.data)
  <2>1. CASE fs_ready
    <3>1. root = disk.root
      BY <2>1 DEF TreeInv, Synced
    <3>2. Dirs(root, disk.data) = {<<P[d], d>> : d \in DOMAIN P}
      BY <1>1, <3>1, DirsMapped DEF TreeAt, Sound, Volume
    <3> QED
      BY <1>1, <3>2 DEF TreeAt
  <2>2. CASE ~fs_ready
    <3>1. root = Blank(FS_MAX_FILES) /\ cwd = 0 /\ path = <<>> /\ TidyData(disk.data)
      BY <2>2 DEF TreeInv, VolumeInv, TidyDisk
    <3> DEFINE f == [c \in Clusters |-> FREE]
    <3>2. Sound(f, root, disk.data, JustRoot)
      BY <3>1, BlankVolume
    <3> HIDE DEF f
    <3>3. Dirs(root, disk.data) = {<<JustRoot[d], d>> : d \in DOMAIN JustRoot}
      BY <3>2, DirsMapped DEF Sound, Volume
    <3> QED
      BY <3>1, <3>3 DEF JustRoot
  <2> QED
    BY <2>1, <2>2
<1> DEFINE x == <<path, cwd>>
<1>3. x[2] = cwd /\ x[1] = path
  OBVIOUS
<1> HIDE DEF x
<1>4. x[2] = cwd /\ (~cut => x[1] = current_path)
  BY <1>3 DEF PathInv
<1>5. x \in Dirs(root, disk.data)
  BY <1>2 DEF x
<1> QED
  BY <1>4, <1>5 DEF CwdPathAgrees

-----------------------------------------------------------------------------
(* The volume implements the tree *)

\* The buffers of a volume in order describe the tree on the disk.
LEMMA TreeOnDisk ==
  ASSUME Synced, Synced'
  PROVE  /\ Tree = TreeOf(disk.fat, disk.root, disk.data)
         /\ Tree' = TreeOf(disk'.fat, disk'.root, disk'.data)
<1>1. Tree = TreeOf(disk.fat, disk.root, disk.data)
  BY DEF Synced, Tree, DiskTree
<1>2. Tree' = IF fs_ready' THEN TreeOf(fat', root', disk'.data)
              ELSE TreeOf(disk'.fat, disk'.root, disk'.data)
  BY DEF Tree, DiskTree
<1>3. fs_ready' => fat' = disk'.fat /\ root' = disk'.root
  BY DEF Synced
<1> QED
  BY <1>1, <1>2, <1>3

\* What is left once the nodes at p are removed.
LEMMA CutIs ==
  ASSUME NEW T, NEW U, NEW p, \A y : y \in U <=> y \in T /\ y.path # p
  PROVE  U = T \ FT!At(T, p)
<1>1. \A y : y \in T \ FT!At(T, p) <=> y \in T /\ y.path # p
  BY DEF FT!At
<1> QED
  BY <1>1

\* The path of a child of the working directory.
Child(n) == Append(path, n)

\* What the tree holds at the name n of the working directory: what the entry
\* says that the command finds, and nothing if it finds none.
LEMMA AtEntry ==
  ASSUME TreeInv, fs_ready, NEW P, TreeAt(P), NEW n \in Names
  PROVE  LET T == TreeOf(disk.fat, disk.root, disk.data)
             t(j) == IF Here[j].dir THEN <<>>
                     ELSE Load(fat, disk.data, Here[j].fst, Here[j].size)
         IN /\ find_entry(Here, n) = {} => FT!At(T, Child(n)) = {}
            /\ \A j \in find_entry(Here, n) :
                 FT!At(T, Child(n)) =
                   {[path |-> Child(n), dir |-> Here[j].dir, text |-> t(j)]}
<1> DEFINE T == TreeOf(disk.fat, disk.root, disk.data)
           F == Shelf(root, disk.data)
           t(j) == IF Here[j].dir THEN <<>>
                   ELSE Load(fat, disk.data, Here[j].fst, Here[j].size)
           node(j) == [path |-> Child(n), dir |-> Here[j].dir, text |-> t(j)]
<1>1. VolumeInv /\ Synced
  BY DEF TreeInv
<1>2. fat = disk.fat /\ root = disk.root /\ F[cwd] = Here
  BY <1>1 DEF Synced, Here
<1>3. Sound(disk.fat, disk.root, disk.data, P) /\ cwd \in DOMAIN P /\ path = P[cwd]
  BY DEF TreeAt
<1>4. Mapped(F, P) /\ (\A d \in DOMAIN P : P[d] \in Seq(Names))
  BY <1>2, <1>3 DEF Sound, Volume, Mapped
<1>5. Tidy(Here, SlotsOf(cwd)) /\ SlotsOf(cwd) \in Nat
  BY <1>1, HereIs
<1>6. F = Shelf(disk.root, disk.data)
  BY <1>2
<1>7. ASSUME NEW j \in Used(F[cwd]), F[cwd][j].name = n
      PROVE  Node(disk.fat, disk.data, F, P, cwd, j) = node(j)
  BY <1>2, <1>3, <1>7 DEF Node, Child
<1> HIDE DEF F
<1>8. \A y : y \in T <=>
        y = Root \/ \E d \in DOMAIN P : \E j \in Used(F[d]) :
                      y = Node(disk.fat, disk.data, F, P, d, j)
  BY <1>3, <1>6, TreeHas
<1> HIDE DEF T
<1>9. ASSUME NEW y \in T, y.path = Child(n)
      PROVE  \E j \in Used(Here) : Here[j].name = n /\ y = node(j)
  <2>1. y # Root
    <3>1. Append(P[cwd], n) # <<>>
      BY <1>3, <1>4, AppendOnce
    <3> QED
      BY <1>3, <1>9, <3>1 DEF Root, Child
  <2>2. PICK d \in DOMAIN P : \E j \in Used(F[d]) :
               y = Node(disk.fat, disk.data, F, P, d, j)
    BY <1>8, <1>9, <2>1
  <2>3. PICK j \in Used(F[d]) : y = Node(disk.fat, disk.data, F, P, d, j)
    BY <2>2
  <2>4. Append(P[d], F[d][j].name) = Append(P[cwd], n)
    BY <1>3, <1>9, <2>3 DEF Node, Child
  <2>5. d = cwd /\ F[d][j].name = n
    BY <1>3, <1>4, <2>4, PathTells
  <2> QED
    BY <1>2, <1>7, <2>3, <2>5
<1>10. ASSUME NEW j \in Used(Here), Here[j].name = n
       PROVE  node(j) \in T /\ node(j).path = Child(n)
  <2>1. node(j) = Node(disk.fat, disk.data, F, P, cwd, j)
    BY <1>2, <1>7, <1>10
  <2>2. node(j) \in T
    BY <1>2, <1>3, <1>8, <2>1
  <2> QED
    BY <2>2
<1> HIDE DEF node
<1>11. ASSUME find_entry(Here, n) = {} PROVE FT!At(T, Child(n)) = {}
  <2>1. \A j \in Used(Here) : Here[j].name # n
    BY <1>5, <1>11, NotUsed
  <2> QED
    BY <1>9, <2>1 DEF FT!At
<1>12. ASSUME NEW j \in find_entry(Here, n) PROVE FT!At(T, Child(n)) = {node(j)}
  <2>1. j \in Used(Here) /\ Here[j].name = n /\ (\A k \in Used(Here) : Here[k].name = n => k = j)
    BY <1>5, UsedSlot
  <2>2. \A y : y \in T /\ y.path = Child(n) <=> y = node(j)
    BY <1>9, <1>10, <2>1
  <2> QED
    BY <2>2 DEF FT!At
<1> QED
  BY <1>11, <1>12 DEF T, node

\* A directory of the map is one of the tree.
LEMMA MappedIsDir ==
  ASSUME NEW f, NEW r, NEW data, NEW P, Sound(f, r, data, P), NEW d \in DOMAIN P
  PROVE  FT!IsDir(TreeOf(f, r, data), P[d])
<1> DEFINE F == Shelf(r, data)
           T == TreeOf(f, r, data)
<1>1. Mapped(F, P) /\ Hung(F, P) /\ Owned(f, F, P)
  BY DEF Sound, Volume
<1>2. \A y : y \in T <=>
        y = Root \/ \E q \in DOMAIN P : \E j \in Used(F[q]) : y = Node(f, data, F, P, q, j)
  BY TreeHas
<1> HIDE DEF F, T
<1>3. CASE d = 0
  <2>1. P[d] = <<>>
    BY <1>1, <1>3 DEF Mapped
  <2>2. FT!Dir(P[d]) = Root
    BY <2>1 DEF FT!Dir, Root
  <2> QED
    BY <1>2, <2>2 DEF FT!IsDir, T
<1>4. CASE d # 0
  <2>1. PICK q \in DOMAIN P : \E j \in Used(F[q]) : F[q][j].dir /\ F[q][j].fst = d
    BY <1>1, <1>4 DEF Hung
  <2>2. PICK j \in Used(F[q]) : F[q][j].dir /\ F[q][j].fst = d
    BY <2>1
  <2>3. LeadsTo(F, P, q, d, F[q][j].name)
    BY <1>1, <2>2 DEF Hung
  <2>4. P[d] = Append(P[q], F[q][j].name)
    BY <2>3 DEF LeadsTo
  <2>5. F[q][j] \in Slots
    BY <1>1, OwnedChain
  <2>6. F[q][j].dir = TRUE
    BY <2>2, <2>5 DEF Slots
  <2>7. Node(f, data, F, P, q, j) = FT!Dir(P[d])
    BY <2>4, <2>6 DEF Node, FT!Dir
  <2>8. FT!Dir(P[d]) \in T
    BY <1>2, <2>7
  <2> QED
    BY <2>8 DEF FT!IsDir, T
<1> QED
  BY <1>3, <1>4

\* The tree of an empty volume.
LEMMA BlankTree ==
  ASSUME NEW data, TidyData(data)
  PROVE  TreeOf([c \in Clusters |-> FREE], Blank(FS_MAX_FILES), data) = {Root}
<1> DEFINE f == [c \in Clusters |-> FREE]
           r == Blank(FS_MAX_FILES)
           F == Shelf(r, data)
           T == TreeOf(f, r, data)
<1>1. Sound(f, r, data, JustRoot)
  BY BlankVolume
<1>2. DOMAIN JustRoot = {0}
  BY DEF JustRoot
<1>3. F[0] = r
  BY DEF Shelf, EntriesOf, Places
<1>4. \A j \in DOMAIN r : r[j].name \notin Names
  BY NamesAssumption DEF Blank, Empty, Entry
<1>5. Used(F[0]) = {}
  BY <1>3, <1>4 DEF Used
<1> HIDE DEF f, r, F
<1>6. \A y : y \in TreeOf(f, r, data) <=>
        y = Root \/ \E d \in DOMAIN JustRoot : \E j \in Used(F[d]) :
                      y = Node(f, data, F, JustRoot, d, j)
  BY <1>1, TreeHas DEF F
<1> HIDE DEF T
<1>7. \A y : y \in TreeOf(f, r, data) <=> y = Root
  BY <1>2, <1>5, <1>6
<1> QED
  BY <1>7 DEF f, r

\* The trees on the disk before and after a step.
Before == TreeOf(disk.fat, disk.root, disk.data)
After == TreeOf(disk'.fat, disk'.root, disk'.data)

\* A command on a file leaves the file it says, or none.
LEMMA FilePut ==
  ASSUME TreeInv, fs_ready, NEW P, TreeAt(P), NEW n \in Names, NEW i, NEW x, NEW g, NEW a,
         NEW Old, NEW New, FileStep(n, i, x, g, a, Old, New), VolumeInv', Synced',
         NEW t, x.name = n, Load(g, disk'.data, x.fst, x.size) = t
  PROVE  After = FT!Put(Before, FT!File(Child(n), t))
<1> DEFINE z == FT!File(Child(n), t)
<1>1. fat = disk.fat /\ root = disk.root
  BY DEF TreeInv, Synced
<1>2. z = [path |-> Append(path, n), dir |-> FALSE, text |-> Load(g, disk'.data, x.fst, x.size)]
  BY DEF FT!File, Child
<1>3. z.path = Append(path, n)
  BY <1>2
<1> HIDE DEF z
<1>4. ASSUME NEW y
      PROVE  y \in TreeOf(disk'.fat, disk'.root, disk'.data) <=>
               \/ y \in TreeOf(fat, root, disk.data) /\ y.path # Append(path, n)
               \/ y = z
  <2>1. y \in TreeOf(disk'.fat, disk'.root, disk'.data) <=>
           \/ y \in TreeOf(fat, root, disk.data) /\ y.path # Append(path, n)
           \/ /\ x.name \in Names
              /\ y = [path |-> Append(path, n), dir |-> FALSE,
                      text |-> Load(g, disk'.data, x.fst, x.size)]
    BY FileStepTree
  <2> QED
    BY <1>2, <2>1
<1>5. \A y : y \in After <=> (y \in Before /\ y.path # z.path) \/ y = z
  BY <1>1, <1>3, <1>4 DEF Before, After
<1>6. After = FT!Put(Before, z)
  BY <1>5 DEF FT!Put, FT!At
<1> QED
  BY <1>6 DEF z

\* Removing a file leaves nothing at its path.
LEMMA FileCut ==
  ASSUME TreeInv, fs_ready, NEW P, TreeAt(P), NEW n \in Names, NEW i, NEW g, NEW a,
         NEW Old, NEW New, FileStep(n, i, Deleted, g, a, Old, New), VolumeInv', Synced'
  PROVE  After = Before \ FT!At(Before, Child(n))
<1>1. fat = disk.fat /\ root = disk.root
  BY DEF TreeInv, Synced
<1>2. Deleted.name \notin Names
  BY NamesAssumption DEF Deleted, Entry
<1> DEFINE x == Deleted
<1>3. FileStep(n, i, x, g, a, Old, New) /\ x.name \notin Names
  BY <1>2
<1> HIDE DEF x
<1>4. ASSUME NEW y
      PROVE  y \in TreeOf(disk'.fat, disk'.root, disk'.data) <=>
               y \in TreeOf(fat, root, disk.data) /\ y.path # Append(path, n)
  <2>1. y \in TreeOf(disk'.fat, disk'.root, disk'.data) <=>
           \/ y \in TreeOf(fat, root, disk.data) /\ y.path # Append(path, n)
           \/ /\ x.name \in Names
              /\ y = [path |-> Append(path, n), dir |-> FALSE,
                      text |-> Load(g, disk'.data, x.fst, x.size)]
    BY <1>3, FileStepTree
  <2> QED
    BY <1>3, <2>1
<1>5. \A y : y \in After <=> y \in Before /\ y.path # Child(n)
  BY <1>1, <1>4 DEF Before, After, Child
<1> QED
  BY <1>5, CutIs

\* What is there before a command on a file is a file.
LEMMA NoDirThere ==
  ASSUME TreeInv, fs_ready, NEW P, TreeAt(P), NEW n \in Names, NEW i, NEW x, NEW g, NEW a,
         NEW Old, NEW New, FileStep(n, i, x, g, a, Old, New)
  PROVE  ~FT!IsDir(Before, Child(n))
<1>1. FT!IsDir(Before, Child(n)) => FT!Dir(Child(n)) \in FT!At(Before, Child(n))
  BY DEF FT!IsDir, FT!At, FT!Dir
<1>2. CASE find_entry(Here, n) = {}
  <2>1. FT!At(Before, Child(n)) = {}
    BY <1>2, AtEntry DEF Before
  <2> QED
    BY <1>1, <2>1
<1>3. ASSUME NEW j \in find_entry(Here, n) PROVE ~FT!IsDir(Before, Child(n))
  <2> DEFINE t == IF Here[j].dir THEN <<>>
                  ELSE Load(fat, disk.data, Here[j].fst, Here[j].size)
  <2>1. FT!At(Before, Child(n)) = {[path |-> Child(n), dir |-> Here[j].dir, text |-> t]}
    BY AtEntry DEF Before
  <2>2. Tidy(Here, SlotsOf(cwd)) /\ SlotsOf(cwd) \in Nat
    BY HereIs DEF TreeInv
  <2>3. j \in Used(Here) /\ Here[j].name = n
    BY <2>2, UsedSlot
  <2>4. ~Here[j].dir
    BY <2>3 DEF FileStep
  <2> HIDE DEF t
  <2> QED
    BY <1>1, <2>1, <2>4 DEF FT!Dir
<1> QED
  BY <1>2, <1>3

\* The commands leave the trees that they promise.
LEMMA WritesTree ==
  ASSUME TreeInv, fs_ready, NEW P, TreeAt(P), NEW n \in Names, NEW t, Writes(n, t),
         VolumeInv', Synced'
  PROVE  After \in FT!Write(Before, Child(n), t) /\ ret' = 0 /\ path' = path
<1>1. PICK i, z, g, a, Old, New :
        /\ FileStep(n, i, z, g, a, Old, New) /\ z.name = n
        /\ Load(g, disk'.data, z.fst, z.size) = t
  BY DEF Writes
<1>2. After = FT!Put(Before, FT!File(Child(n), t))
  BY <1>1, FilePut
<1>3. ~FT!IsDir(Before, Child(n))
  BY <1>1, NoDirThere
<1>4. ret' = 0 /\ path' = path
  BY <1>1 DEF FileStep, Stores
<1> QED
  BY <1>2, <1>3, <1>4 DEF FT!Write

\* append finds the text that the tree has at the name.
LEMMA AppendTree ==
  ASSUME TreeInv, fs_ready, NEW P, TreeAt(P), NEW n \in Names, NEW old,
         NEW S, NEW t \in Seq(S), OldText(n, old), Writes(n, old \o t), VolumeInv', Synced'
  PROVE  After \in FT!AppendText(Before, Child(n), t) /\ ret' = 0 /\ path' = path
<1>1. After \in FT!Write(Before, Child(n), old \o t) /\ ret' = 0 /\ path' = path
  BY WritesTree
<1>2. CASE find_entry(Here, n) = {} /\ old = <<>>
  <2>1. FT!At(Before, Child(n)) = {}
    BY <1>2, AtEntry DEF Before
  <2>2. ~FT!IsFile(Before, Child(n))
    BY <2>1 DEF FT!IsFile
  <2>3. old \o t = t
    BY <1>2
  <2> QED
    BY <1>1, <2>2, <2>3 DEF FT!AppendText, FT!Longer
<1>3. ASSUME NEW j \in find_entry(Here, n),
             old = Load(fat, disk.data, Here[j].fst, Here[j].size)
      PROVE  After \in FT!AppendText(Before, Child(n), t)
  <2>1. PICK i, z, g, a, Old, New : FileStep(n, i, z, g, a, Old, New)
    BY DEF Writes
  <2>2. Tidy(Here, SlotsOf(cwd)) /\ SlotsOf(cwd) \in Nat
    BY HereIs DEF TreeInv
  <2>3. j \in Used(Here) /\ Here[j].name = n
    BY <2>2, UsedSlot
  <2>4. ~Here[j].dir
    BY <2>1, <2>3 DEF FileStep
  <2> DEFINE y == [path |-> Child(n), dir |-> Here[j].dir, text |-> old]
  <2>5. FT!At(Before, Child(n)) = {y}
    BY <1>3, <2>4, AtEntry DEF Before
  <2>6. ~y.dir /\ y.text = old
    BY <2>4
  <2> HIDE DEF y
  <2>7. FT!IsFile(Before, Child(n)) /\ FT!TextOf(Before, Child(n)) = old
    BY <2>5, <2>6 DEF FT!IsFile, FT!TextOf
  <2> QED
    BY <1>1, <2>7 DEF FT!AppendText, FT!Longer
<1> QED
  BY <1>1, <1>2, <1>3 DEF OldText

\* touch makes an empty file where there was nothing.
LEMMA TouchTree ==
  ASSUME TreeInv, fs_ready, NEW P, TreeAt(P), NEW n \in Names, NEW i,
         find_entry(Here, n) = {}, VolumeInv', Synced',
         FileStep(n, i, Entry(n, FALSE, 0, 0), fat, disk.data, {}, {})
  PROVE  After \in FT!Touch(Before, Child(n)) /\ ret' = 0 /\ path' = path
<1> DEFINE x == Entry(n, FALSE, 0, 0)
<1>1. x.name = n /\ x.fst = 0 /\ x.size = 0
  BY DEF Entry
<1>2. FileStep(n, i, x, fat, disk.data, {}, {})
  OBVIOUS
<1> HIDE DEF x
<1>3. Load(fat, disk'.data, x.fst, x.size) = <<>>
  BY <1>1, LoadNothing
<1>4. After = FT!Put(Before, FT!File(Child(n), <<>>))
  BY <1>1, <1>2, <1>3, FilePut
<1>5. FT!At(Before, Child(n)) = {}
  BY AtEntry DEF Before
<1>6. ret' = 0 /\ path' = path
  BY <1>2 DEF FileStep, Stores
<1> QED
  BY <1>4, <1>5, <1>6 DEF FT!Touch

\* rm takes away a file.
LEMMA RemoveTree ==
  ASSUME TreeInv, fs_ready, NEW P, TreeAt(P), NEW n \in Names,
         NEW i \in find_entry(Here, n), ~Here[i].dir, VolumeInv', Synced',
         FileStep(n, i, Deleted, free_chain(fat, Here[i].fst), disk.data,
                  Chain(fat, Here[i].fst), {})
  PROVE  After \in FT!Remove(Before, Child(n)) /\ ret' = 0 /\ path' = path
<1>1. After = Before \ FT!At(Before, Child(n))
  BY FileCut
<1> DEFINE t == IF Here[i].dir THEN <<>>
                ELSE Load(fat, disk.data, Here[i].fst, Here[i].size)
<1>2. FT!At(Before, Child(n)) = {[path |-> Child(n), dir |-> Here[i].dir, text |-> t]}
  BY AtEntry DEF Before
<1> HIDE DEF t
<1>3. FT!IsFile(Before, Child(n))
  BY <1>2 DEF FT!IsFile
<1>4. ret' = 0 /\ path' = path
  BY DEF FileStep, Stores
<1> QED
  BY <1>1, <1>3, <1>4 DEF FT!Remove

\* mkdir makes a directory where there was nothing.
LEMMA MkdirTree ==
  ASSUME TreeInv, fs_ready, NEW P, TreeAt(P), NEW n \in Names, NEW i, NEW c,
         MkdirStep(n, i, c), VolumeInv', Synced'
  PROVE  After \in FT!Mkdir(Before, Child(n)) /\ ret' = 0 /\ path' = path
<1> DEFINE z == FT!Dir(Child(n))
<1>1. fat = disk.fat /\ root = disk.root
  BY DEF TreeInv, Synced
<1>2. z = [path |-> Append(path, n), dir |-> TRUE, text |-> <<>>] /\ z.path = Child(n)
  BY DEF FT!Dir, Child
<1> HIDE DEF z
<1>3. ASSUME NEW y
      PROVE  y \in TreeOf(disk'.fat, disk'.root, disk'.data) <=>
               \/ y \in TreeOf(fat, root, disk.data) /\ y.path # Append(path, n)
               \/ y = z
  BY <1>2, MkdirStepTree
<1>4. \A y : y \in After <=> (y \in Before /\ y.path # z.path) \/ y = z
  BY <1>1, <1>2, <1>3 DEF Before, After, Child
<1>5. After = FT!Put(Before, z)
  BY <1>4 DEF FT!Put, FT!At
<1>6. find_entry(Here, n) = {} /\ ret' = 0 /\ path' = path
  BY DEF MkdirStep, Stores
<1>7. FT!At(Before, Child(n)) = {}
  BY <1>6, AtEntry DEF Before
<1> QED
  BY <1>5, <1>6, <1>7 DEF FT!Mkdir, z

\* rmdir takes away a directory with nothing inside.
LEMMA RmdirTree ==
  ASSUME TreeInv, fs_ready, NEW P, TreeAt(P), NEW n \in Names, NEW i, RmdirStep(n, i),
         VolumeInv', Synced'
  PROVE  After \in FT!Rmdir(Before, Child(n)) /\ ret' = 0 /\ path' = path
<1>1. fat = disk.fat /\ root = disk.root
  BY DEF TreeInv, Synced
<1>2. ASSUME NEW y
      PROVE  /\ y \in TreeOf(disk'.fat, disk'.root, disk'.data) <=>
                  y \in TreeOf(fat, root, disk.data) /\ y.path # Append(path, n)
             /\ y \in TreeOf(fat, root, disk.data) =>
                  y.path = <<>> \/ SubSeq(y.path, 1, Len(y.path) - 1) # Append(path, n)
  BY RmdirStepTree
<1>3. /\ \A y : y \in After <=> y \in Before /\ y.path # Child(n)
      /\ \A y \in Before : y.path = <<>> \/ SubSeq(y.path, 1, Len(y.path) - 1) # Child(n)
  BY <1>1, <1>2 DEF Before, After, Child
<1>4. After = Before \ FT!At(Before, Child(n))
  BY <1>3, CutIs
<1>5. FT!Inside(Before, Child(n)) = {}
  BY <1>3 DEF FT!Inside
<1>6. i \in find_entry(Here, n) /\ Here[i].dir /\ ret' = 0 /\ path' = path
  BY DEF RmdirStep, Stores
<1>7. Here[i] \in Slots
  <2>1. Tidy(Here, SlotsOf(cwd)) /\ SlotsOf(cwd) \in Nat
    BY HereIs DEF TreeInv
  <2>2. i \in 1 .. SlotsOf(cwd)
    BY <1>6, <2>1, UsedSlot
  <2> QED
    BY <2>1, <2>2 DEF Tidy
<1>8. Here[i].dir = TRUE
  BY <1>6, <1>7 DEF Slots
<1> DEFINE t == IF Here[i].dir THEN <<>>
                ELSE Load(fat, disk.data, Here[i].fst, Here[i].size)
<1>9. FT!At(Before, Child(n)) = {[path |-> Child(n), dir |-> Here[i].dir, text |-> t]}
  BY <1>6, AtEntry DEF Before
<1>10. t = <<>>
  BY <1>8
<1> HIDE DEF t
<1>11. FT!At(Before, Child(n)) = {FT!Dir(Child(n))}
  BY <1>8, <1>9, <1>10 DEF FT!Dir
<1>12. FT!IsDir(Before, Child(n))
  BY <1>11 DEF FT!At, FT!IsDir
<1> QED
  BY <1>4, <1>5, <1>6, <1>12 DEF FT!Rmdir

\* No directory is at the name n of directory d, if no entry there says so.
LEMMA NoDirAt ==
  ASSUME NEW f, NEW r, NEW data, NEW P, Sound(f, r, data, P), NEW d \in DOMAIN P,
         NEW n \in Names, NEW F, F = Shelf(r, data),
         \A j \in find_entry(F[d], n) : ~F[d][j].dir
  PROVE  ~FT!IsDir(TreeOf(f, r, data), Append(P[d], n))
<1> DEFINE p == Append(P[d], n)
<1> SUFFICES ASSUME FT!Dir(p) \in TreeOf(f, r, data) PROVE FALSE
  BY DEF FT!IsDir
<1>1. Mapped(F, P) /\ P[d] \in Seq(Names) /\ Tidy(F[d], SlotsOf(d)) /\ SlotsOf(d) \in Nat
  BY SlotsOfType DEF Sound, Volume, Mapped
<1>2. FT!Dir(p).path = p /\ FT!Dir(p).dir
  BY DEF FT!Dir
<1>3. p # <<>>
  BY <1>1, AppendOnce
<1>4. FT!Dir(p) # Root
  BY <1>2, <1>3 DEF Root
<1>5. PICK q \in DOMAIN P : \E j \in Used(F[q]) : FT!Dir(p) = Node(f, data, F, P, q, j)
  BY <1>4, TreeHas
<1>6. PICK j \in Used(F[q]) : FT!Dir(p) = Node(f, data, F, P, q, j)
  BY <1>5
<1>7. Append(P[q], F[q][j].name) = p /\ F[q][j].dir
  BY <1>2, <1>6 DEF Node
<1>8. q = d /\ F[q][j].name = n
  BY <1>1, <1>7, PathTells
<1>9. find_entry(F[d], n) # {}
  BY <1>1, <1>6, <1>8, NotUsed
<1>10. PICK i \in find_entry(F[d], n) : TRUE
  BY <1>9
<1>11. j = i
  BY <1>1, <1>6, <1>8, <1>10, UsedSlot
<1> QED
  BY <1>7, <1>8, <1>10, <1>11

\* A directory that the scan of fs_rmdir does not find empty has something inside.
LEMMA InsideOf ==
  ASSUME TreeInv, fs_ready, NEW P, TreeAt(P), NEW n \in Names,
         NEW i \in find_entry(Here, n), Here[i].dir,
         ~IsEmptyDir(disk.data[Here[i].fst].ents)
  PROVE  FT!Inside(Before, Child(n)) # {}
<1> DEFINE F == Shelf(root, disk.data)
           c == Here[i].fst
           s == disk.data[c].ents
<1>1. VolumeInv /\ Synced /\ fat = disk.fat /\ root = disk.root
  BY DEF TreeInv, Synced
<1>2. F[cwd] = Here
  BY DEF Here
<1>3. Sound(disk.fat, disk.root, disk.data, P) /\ cwd \in DOMAIN P /\ path = P[cwd]
  BY DEF TreeAt
<1>4. Mapped(F, P) /\ Hung(F, P)
  BY <1>1, <1>3 DEF Sound, Volume
<1>5. i \in Used(F[cwd]) /\ F[cwd][i].name = n
  <2>1. Tidy(Here, SlotsOf(cwd)) /\ SlotsOf(cwd) \in Nat
    BY <1>1, HereIs
  <2> QED
    BY <1>2, <2>1, UsedSlot
<1>6. c \in DOMAIN P /\ c # 0 /\ P[c] = Append(path, n)
  <2> HIDE DEF F
  <2> QED
    BY <1>2, <1>3, <1>4, <1>5 DEF Hung, LeadsTo
<1>7. F[c] = s
  BY <1>4, <1>6 DEF Shelf, EntriesOf, Mapped
<1>8. /\ Tidy(s, DirSlots) /\ s[1].name = "." /\ s[2].name = ".."
      /\ P[c] \in Seq(Names)
  <2> HIDE DEF F, c, s
  <2> QED
    BY <1>4, <1>6, <1>7 DEF Mapped, SlotsOf
<1>9. ~IsEmptyDir(s)
  OBVIOUS
<1>10. DirSlots \in Nat
  BY FsAssumption
<1>11. \A y : y \in Before <=>
        y = Root \/ \E d \in DOMAIN P : \E j \in Used(F[d]) :
                      y = Node(disk.fat, disk.data, F, P, d, j)
  BY <1>1, <1>3, TreeHas DEF Before
<1> HIDE DEF F, c, s
<1>12. PICK j \in 3 .. DirSlots : s[j].name # DEL /\ \A m \in 3 .. j : s[m].name # END
  BY <1>9 DEF IsEmptyDir
<1>13. j \in 1 .. DirSlots /\ j \in 3 .. j
  BY <1>10
<1>14. s[j].name \in Names
  <2>1. s[j] \in Slots /\ s[j].name \notin {".", ".."} /\ s[j].name # END
    BY <1>8, <1>12, <1>13 DEF Tidy
  <2> QED
    BY <1>12, <2>1 DEF Slots
<1>15. j \in Used(F[c])
  BY <1>7, <1>8, <1>10, <1>13, <1>14, UsedTidy
<1> DEFINE y == Node(disk.fat, disk.data, F, P, c, j)
           q == P[c]
           m == s[j].name
<1>16. y \in Before
  BY <1>6, <1>11, <1>15
<1>17. y.path = Append(q, m)
  BY <1>7 DEF Node
<1>18. q \in Seq(Names) /\ m \in Names
  BY <1>8, <1>14
<1>19. q = Child(n)
  BY <1>6 DEF Child
<1> HIDE DEF y, q, m
<1>20. Append(q, m) # <<>> /\ SubSeq(Append(q, m), 1, Len(Append(q, m)) - 1) = q
  BY <1>18
<1>21. y.path # <<>> /\ SubSeq(y.path, 1, Len(y.path) - 1) = Child(n)
  BY <1>17, <1>19, <1>20
<1> QED
  BY <1>16, <1>21 DEF FT!Inside

\* A command ends in one of the trees it promises, or fails where it may and
\* leaves the tree.
Ends(trees, mayFail) ==
  /\ path' = path
  /\ \/ ret' = 0 /\ After \in trees
     \/ ret' = -1 /\ mayFail /\ After = Before

\* What a refused command leaves.
LEMMA RefusedTree ==
  ASSUME NEW rc, Refuse(rc)
  PROVE  After = Before /\ ret' = rc /\ path' = path
BY DEF Refuse, After, Before

\* touch fails only for want of a slot.
LEMMA TouchEnds ==
  ASSUME TreeInv, Calm, NEW n \in Names, fs_touch(n), VolumeInv', Synced'
  PROVE  Ends(FT!Touch(Before, Child(n)), FT!At(Before, Child(n)) = {})
<1>1. PICK P : TreeAt(P)
  BY DEF TreeInv
<1>2. VolumeInv /\ Synced /\ Quiet /\ fs_ready
  BY DEF TreeInv, Calm, Quiet, fs_touch
<1>3. CASE find_entry(Here, n) = {} /\ Refuse(-1)
  <2>1. After = Before /\ ret' = -1 /\ path' = path
    BY <1>3, RefusedTree
  <2>2. FT!At(Before, Child(n)) = {}
    BY <1>1, <1>2, <1>3, AtEntry DEF Before
  <2> QED
    BY <2>1, <2>2 DEF Ends
<1>4. CASE find_entry(Here, n) # {} /\ Refuse(0)
  <2>1. After = Before /\ ret' = 0 /\ path' = path
    BY <1>4, RefusedTree
  <2>2. PICK j \in find_entry(Here, n) : TRUE
    BY <1>4
  <2>3. FT!At(Before, Child(n)) # {}
    BY <1>1, <1>2, <2>2, AtEntry DEF Before
  <2>4. After \in FT!Touch(Before, Child(n))
    BY <2>1, <2>3 DEF FT!Touch
  <2> QED
    BY <2>1, <2>4 DEF Ends
<1>5. ASSUME find_entry(Here, n) = {}, NEW i,
             FileStep(n, i, Entry(n, FALSE, 0, 0), fat, disk.data, {}, {})
      PROVE  After \in FT!Touch(Before, Child(n)) /\ ret' = 0 /\ path' = path
  BY <1>1, <1>2, <1>5, TouchTree
<1> QED
  BY <1>1, <1>2, <1>3, <1>4, <1>5, TouchStep DEF Ends

\* rm fails only where there is no file.
LEMMA RemoveEnds ==
  ASSUME TreeInv, Calm, NEW n \in Names, fs_remove(n), VolumeInv', Synced'
  PROVE  Ends(FT!Remove(Before, Child(n)), ~FT!IsFile(Before, Child(n)))
<1>1. PICK P : TreeAt(P)
  BY DEF TreeInv
<1>2. VolumeInv /\ Synced /\ Quiet /\ "ondirs" \notin Scope /\ fs_ready
  BY DEF TreeInv, Calm, Quiet, fs_remove
<1>3. CASE find_entry(Here, n) = {} /\ Refuse(-1)
  <2>1. After = Before /\ ret' = -1 /\ path' = path
    BY <1>3, RefusedTree
  <2>2. FT!At(Before, Child(n)) = {}
    BY <1>1, <1>2, <1>3, AtEntry DEF Before
  <2>3. ~FT!IsFile(Before, Child(n))
    BY <2>2 DEF FT!IsFile
  <2> QED
    BY <2>1, <2>3 DEF Ends
<1>4. ASSUME NEW i \in find_entry(Here, n), ~Here[i].dir,
             FileStep(n, i, Deleted, free_chain(fat, Here[i].fst), disk.data,
                      Chain(fat, Here[i].fst), {})
      PROVE  After \in FT!Remove(Before, Child(n)) /\ ret' = 0 /\ path' = path
  BY <1>1, <1>2, <1>4, RemoveTree
<1> QED
  BY <1>1, <1>2, <1>3, <1>4, RemoveStep DEF Ends

\* mkdir may find no room.
LEMMA MkdirEnds ==
  ASSUME TreeInv, Calm, NEW n \in Names, fs_mkdir(n), VolumeInv', Synced'
  PROVE  Ends(FT!Mkdir(Before, Child(n)), TRUE)
<1>1. PICK P : TreeAt(P)
  BY DEF TreeInv
<1>2. VolumeInv /\ Synced /\ Quiet /\ fs_ready
  BY DEF TreeInv, Calm, Quiet, fs_mkdir
<1>3. Refuse(-1) => After = Before /\ ret' = -1 /\ path' = path
  BY RefusedTree
<1>4. ASSUME NEW i, NEW c, MkdirStep(n, i, c)
      PROVE  After \in FT!Mkdir(Before, Child(n)) /\ ret' = 0 /\ path' = path
  BY <1>1, <1>2, <1>4, MkdirTree
<1> QED
  BY <1>1, <1>2, <1>3, <1>4, MkdirIsStep DEF Ends

\* rmdir fails only where there is no directory, or something in it.
LEMMA RmdirEnds ==
  ASSUME TreeInv, Calm, NEW n \in Names, fs_rmdir(n), VolumeInv', Synced'
  PROVE  Ends(FT!Rmdir(Before, Child(n)), FT!Rmdir(Before, Child(n)) = {})
<1>1. PICK P : TreeAt(P)
  BY DEF TreeInv
<1>2. VolumeInv /\ Synced /\ Quiet /\ fs_ready /\ fat = disk.fat /\ root = disk.root
  BY DEF TreeInv, Calm, Quiet, fs_rmdir, Synced
<1>3. ASSUME NotRemovable(n)
      PROVE  ~FT!IsDir(Before, Child(n)) \/ FT!Inside(Before, Child(n)) # {}
  <2>1. Sound(disk.fat, disk.root, disk.data, P) /\ cwd \in DOMAIN P /\ path = P[cwd]
    BY <1>1 DEF TreeAt
  <2> DEFINE F == Shelf(disk.root, disk.data)
  <2>2. F[cwd] = Here
    BY <1>2 DEF Here
  <2>3. Tidy(Here, SlotsOf(cwd)) /\ SlotsOf(cwd) \in Nat
    BY <1>1, <1>2, HereIs
  <2> HIDE DEF F
  <2>4. ASSUME \A j \in find_entry(Here, n) : ~Here[j].dir
        PROVE  ~FT!IsDir(Before, Child(n))
    BY <2>1, <2>2, <2>4, NoDirAt DEF Before, Child, F
  <2>5. ASSUME NEW i \in find_entry(Here, n), ~Here[i].dir
        PROVE  \A j \in find_entry(Here, n) : ~Here[j].dir
    <3>1. find_entry(Here, n) = {i}
      BY <2>3, FoundSlot
    <3> QED
      BY <2>5, <3>1
  <2>6. ASSUME NEW i \in find_entry(Here, n), Here[i].dir,
               ~IsEmptyDir(disk.data[Here[i].fst].ents)
        PROVE  FT!Inside(Before, Child(n)) # {}
    BY <1>1, <1>2, <2>6, InsideOf
  <2> QED
    BY <1>3, <2>4, <2>5, <2>6 DEF NotRemovable
<1>4. ASSUME Refuse(-1), NotRemovable(n)
      PROVE  /\ After = Before /\ ret' = -1 /\ path' = path
             /\ FT!Rmdir(Before, Child(n)) = {}
  <2>1. After = Before /\ ret' = -1 /\ path' = path
    BY <1>4, RefusedTree
  <2>2. FT!Rmdir(Before, Child(n)) = {}
    BY <1>3, <1>4 DEF FT!Rmdir
  <2> QED
    BY <2>1, <2>2
<1>5. ASSUME NEW i, RmdirStep(n, i)
      PROVE  After \in FT!Rmdir(Before, Child(n)) /\ ret' = 0 /\ path' = path
  BY <1>1, <1>2, <1>5, RmdirTree
<1> QED
  BY <1>1, <1>2, <1>4, <1>5, RmdirIsStep DEF Ends

\* write fails only for want of a slot, or because the text is too long.
LEMMA WriteEnds ==
  ASSUME TreeInv, Calm, NEW n \in Names, NEW t \in Texts, fs_write(n, t), VolumeInv', Synced'
  PROVE  Ends(FT!Write(Before, Child(n), t), FT!NoRoom(Before, Child(n), t))
<1>1. PICK P : TreeAt(P)
  BY DEF TreeInv
<1>2. VolumeInv /\ Synced /\ Quiet /\ "ondirs" \notin Scope /\ fs_ready
  BY DEF TreeInv, Calm, Quiet, fs_write
<1>3. Applicable(n) /\ fs_write_raw(n, t)
  BY DEF fs_write
<1>4. t \in Seq({t[i] : i \in 1 .. Len(t)})
  BY NamesAssumption
<1>5. (Refuse(-1) /\ NoPlace(n, t)) \/ Writes(n, t)
  BY <1>1, <1>2, <1>3, <1>4, WriteRawStep
<1>6. Writes(n, t) => After \in FT!Write(Before, Child(n), t) /\ ret' = 0 /\ path' = path
  BY <1>1, <1>2, WritesTree
<1>7. Refuse(-1) => After = Before /\ ret' = -1 /\ path' = path
  BY RefusedTree
<1>8. ASSUME find_entry(Here, n) = {} PROVE ~FT!IsFile(Before, Child(n))
  <2>1. FT!At(Before, Child(n)) = {}
    BY <1>1, <1>2, <1>8, AtEntry DEF Before
  <2> QED
    BY <2>1 DEF FT!IsFile
<1>9. NoPlace(n, t) => FT!NoRoom(Before, Child(n), t)
  BY <1>8 DEF NoPlace, FT!NoRoom
<1> QED
  BY <1>5, <1>6, <1>7, <1>9 DEF Ends

\* append likewise.
LEMMA AppendEnds ==
  ASSUME TreeInv, Calm, NEW n \in Names, NEW t \in Texts, fs_append(n, t), VolumeInv', Synced'
  PROVE  Ends(FT!AppendText(Before, Child(n), t),
              FT!NoRoom(Before, Child(n), FT!Longer(Before, Child(n), t)))
<1>1. PICK P : TreeAt(P)
  BY DEF TreeInv
<1>2. VolumeInv /\ Synced /\ Quiet /\ "ondirs" \notin Scope /\ fs_ready /\ Applicable(n)
  BY DEF TreeInv, Calm, Quiet, fs_append
<1>3. t \in Seq({t[i] : i \in 1 .. Len(t)})
  BY NamesAssumption
<1>4. PICK old : /\ OldText(n, old)
                 /\ (Refuse(-1) /\ NoPlace(n, old \o t)) \/ Writes(n, old \o t)
  BY <1>1, <1>2, AppendStep
<1>5. CASE Writes(n, old \o t)
  <2>1. After \in FT!AppendText(Before, Child(n), t) /\ ret' = 0 /\ path' = path
    BY <1>1, <1>2, <1>3, <1>4, <1>5, AppendTree
  <2> QED
    BY <2>1 DEF Ends
<1>6. CASE Refuse(-1) /\ NoPlace(n, old \o t)
  <2>1. After = Before /\ ret' = -1 /\ path' = path
    BY <1>6, RefusedTree
  <2>2. CASE find_entry(Here, n) = {}
    <3>1. FT!At(Before, Child(n)) = {}
      BY <1>1, <1>2, <2>2, AtEntry DEF Before
    <3>2. ~FT!IsFile(Before, Child(n))
      BY <3>1 DEF FT!IsFile
    <3>3. FT!NoRoom(Before, Child(n), FT!Longer(Before, Child(n), t))
      BY <3>2 DEF FT!NoRoom
    <3> QED
      BY <2>1, <3>3 DEF Ends
  <2>3. ASSUME NEW j \in find_entry(Here, n),
               old = Load(fat, disk.data, Here[j].fst, Here[j].size)
        PROVE  Ends(FT!AppendText(Before, Child(n), t),
                    FT!NoRoom(Before, Child(n), FT!Longer(Before, Child(n), t)))
    <3>1. current_dir_entries = Here
      BY <1>1, <1>2, HereIs
    <3>2. ~Here[j].dir
      BY <1>2, <3>1 DEF Applicable
    <3> DEFINE y == [path |-> Child(n), dir |-> Here[j].dir, text |-> old]
    <3>3. FT!At(Before, Child(n)) = {y}
      BY <1>1, <1>2, <2>3, <3>2, AtEntry DEF Before
    <3>4. ~y.dir /\ y.text = old
      BY <3>2
    <3> HIDE DEF y
    <3>5. FT!IsFile(Before, Child(n)) /\ FT!TextOf(Before, Child(n)) = old
      BY <3>3, <3>4 DEF FT!IsFile, FT!TextOf
    <3>6. FT!Longer(Before, Child(n), t) = old \o t
      BY <3>5 DEF FT!Longer
    <3>7. Len(old \o t) > FS_MAX_FILE_SIZE
      BY <1>6, <2>3 DEF NoPlace
    <3>8. FT!NoRoom(Before, Child(n), FT!Longer(Before, Child(n), t))
      BY <3>6, <3>7 DEF FT!NoRoom
    <3> QED
      BY <2>1, <3>8 DEF Ends
  <2> QED
    BY <1>4, <2>2, <2>3 DEF OldText
<1> QED
  BY <1>4, <1>5, <1>6

\* A value returned says whether the command succeeded.
LEMMA Succeeds ==
  \A rc : /\ (rc = 0) => ((rc = 0) = TRUE)
          /\ (rc = -1) => ((rc = 0) = FALSE)
OBVIOUS

\* A command on a name does what the tree says of it.
LEMMA CommandPromised ==
  ASSUME TreeInv, Calm, NEW n \in Names, VfsCommand(n), VolumeInv', Synced',
         Tree = Before, Tree' = After
  PROVE  FT!On(Tree, n)
<1> DEFINE p == Child(n)
<1>1. p = Append(path, n)
  BY DEF Child
<1>2. /\ (ret' = 0) => ((ret' = 0) = TRUE)
      /\ (ret' = -1) => ((ret' = 0) = FALSE)
  BY Succeeds
<1>3. CASE fs_touch(n) /\ Gave("touch", n, <<>>)
  <2>1. Ends(FT!Touch(Tree, p), FT!At(Tree, p) = {})
    BY <1>3, TouchEnds
  <2> HIDE DEF p
  <2>2. FT!Command(Tree, "touch", n, <<>>, FT!Touch(Tree, p), FT!At(Tree, p) = {})
    BY <1>2, <1>3, <2>1 DEF FT!Command, Ends, Gave
  <2> QED
    BY <1>1, <2>2 DEF FT!On
<1>4. CASE fs_remove(n) /\ Gave("rm", n, <<>>)
  <2>1. Ends(FT!Remove(Tree, p), ~FT!IsFile(Tree, p))
    BY <1>4, RemoveEnds
  <2> HIDE DEF p
  <2>2. FT!Command(Tree, "rm", n, <<>>, FT!Remove(Tree, p), ~FT!IsFile(Tree, p))
    BY <1>2, <1>4, <2>1 DEF FT!Command, Ends, Gave
  <2> QED
    BY <1>1, <2>2 DEF FT!On
<1>5. CASE fs_mkdir(n) /\ Gave("mkdir", n, <<>>)
  <2>1. Ends(FT!Mkdir(Tree, p), TRUE)
    BY <1>5, MkdirEnds
  <2> HIDE DEF p
  <2>2. FT!Command(Tree, "mkdir", n, <<>>, FT!Mkdir(Tree, p), TRUE)
    BY <1>2, <1>5, <2>1 DEF FT!Command, Ends, Gave
  <2> QED
    BY <1>1, <2>2 DEF FT!On
<1>6. CASE fs_rmdir(n) /\ Gave("rmdir", n, <<>>)
  <2>1. Ends(FT!Rmdir(Tree, p), FT!Rmdir(Tree, p) = {})
    BY <1>6, RmdirEnds
  <2> HIDE DEF p
  <2>2. FT!Command(Tree, "rmdir", n, <<>>, FT!Rmdir(Tree, p), FT!Rmdir(Tree, p) = {})
    BY <1>2, <1>6, <2>1 DEF FT!Command, Ends, Gave
  <2> QED
    BY <1>1, <2>2 DEF FT!On
<1>7. ASSUME NEW t \in Texts, fs_write(n, t), Gave("write", n, t) PROVE FT!On(Tree, n)
  <2>1. Ends(FT!Write(Tree, p, t), FT!NoRoom(Tree, p, t))
    BY <1>7, WriteEnds
  <2> HIDE DEF p
  <2>2. FT!Command(Tree, "write", n, t, FT!Write(Tree, p, t), FT!NoRoom(Tree, p, t))
    BY <1>2, <1>7, <2>1 DEF FT!Command, Ends, Gave
  <2> QED
    BY <1>1, <2>2 DEF FT!On
<1>8. ASSUME NEW t \in Texts, fs_append(n, t), Gave("append", n, t) PROVE FT!On(Tree, n)
  <2>1. Ends(FT!AppendText(Tree, p, t), FT!NoRoom(Tree, p, FT!Longer(Tree, p, t)))
    BY <1>8, AppendEnds
  <2> HIDE DEF p
  <2>2. FT!Command(Tree, "append", n, t, FT!AppendText(Tree, p, t),
                   FT!NoRoom(Tree, p, FT!Longer(Tree, p, t)))
    BY <1>2, <1>8, <2>1 DEF FT!Command, Ends, Gave
  <2> QED
    BY <1>1, <2>2 DEF FT!On
<1> QED
  BY <1>3, <1>4, <1>5, <1>6, <1>7, <1>8 DEF VfsCommand

\* cd goes where the tree says, and fails only where there is no directory.
LEMMA ChdirPromised ==
  ASSUME TreeInv, VolumeInv', Synced', NEW absolute \in BOOLEAN,
         NEW comp \in Names \cup {"", ".."}, fs_chdir(absolute, comp),
         cmd' = [op |-> "cd", absolute |-> absolute, name |-> comp, text |-> <<>>],
         Tree = Before, Tree' = After
  PROVE  FT!Chdir(Tree, absolute, comp)
<1>1. PICK P : TreeAt(P)
  BY DEF TreeInv
<1>2. VolumeInv /\ Synced /\ fs_ready /\ root = disk.root /\ fat = disk.fat
  BY DEF TreeInv, fs_chdir, Synced
<1> DEFINE F == Shelf(root, disk.data)
           p == FT!Target(absolute, comp)
<1>3. /\ UNCHANGED <<disk, fat, root, fs_ready>>
      /\ cwd' \in DOMAIN P /\ path' = P[cwd']
      /\ \/ ret' = 0 /\ path' = p
         \/ /\ ret' = -1 /\ comp \in Names /\ path' = FT!Base(absolute)
            /\ \A i \in find_entry(F[cwd'], comp) : ~F[cwd'][i].dir
  BY <1>1, <1>2, ChdirStep
<1>4. Tree' = Tree
  BY <1>3 DEF Before, After
<1>5. Sound(disk.fat, disk.root, disk.data, P)
  BY <1>1 DEF TreeAt
<1>6. /\ (ret' = 0) => ((ret' = 0) = TRUE)
      /\ (ret' = -1) => ((ret' = 0) = FALSE)
  BY Succeeds
<1>7. CASE ret' = 0 /\ path' = p
  <2>1. FT!IsDir(Tree, p)
    BY <1>3, <1>5, <1>7, MappedIsDir DEF Before
  <2> HIDE DEF p
  <2> QED
    BY <1>4, <1>6, <1>7, <2>1 DEF FT!Chdir, p
<1>8. CASE /\ ret' = -1 /\ comp \in Names /\ path' = FT!Base(absolute)
           /\ \A i \in find_entry(F[cwd'], comp) : ~F[cwd'][i].dir
  <2>1. F = Shelf(disk.root, disk.data)
    BY <1>2
  <2> HIDE DEF F
  <2>2. ~FT!IsDir(Before, Append(P[cwd'], comp))
    BY <1>3, <1>5, <1>8, <2>1, NoDirAt DEF Before
  <2>3. p = Append(FT!Base(absolute), comp)
    <3>1. comp # "" /\ comp # ".."
      BY <1>8, NamesAssumption
    <3> QED
      BY <3>1 DEF FT!Target
  <2>4. ~FT!IsDir(Tree, p)
    BY <1>3, <1>8, <2>2, <2>3
  <2> HIDE DEF p
  <2> QED
    BY <1>4, <1>6, <1>8, <2>4 DEF FT!Chdir, p
<1> QED
  BY <1>3, <1>7, <1>8

\* Every step of the volume is one of the tree, or none.
LEMMA RefinesStep ==
  ASSUME TreeInv, Calm, "bootread" \notin Scope, [Next]_vars
  PROVE  [FT!TNext]_(FT!tvars)
<1>1. TreeInv' /\ VolumeInv' /\ Synced' /\ VolumeInv /\ Synced
  BY TreeStepKeeps DEF TreeInv
<1>2. Tree = Before /\ Tree' = After
  BY <1>1, TreeOnDisk DEF Before, After
<1>3. /\ (ret' = 0) => ((ret' = 0) = TRUE)
      /\ (ret' = -1) => ((ret' = 0) = FALSE)
  BY Succeeds
<1>4. CASE Rejected /\ Gave("rejected", "", <<>>)
  <2>1. Tree' = Tree /\ path' = path /\ ret' = -1
    BY <1>2, <1>4, RefusedTree DEF Rejected
  <2>2. FT!Reject(Tree)
    BY <1>3, <1>4, <2>1 DEF FT!Reject, Gave
  <2> QED
    BY <2>2 DEF FT!TNext
<1>5. CASE fs_init
  <2>1. path' = path /\ ret' = ret /\ cmd' = cmd /\ ~fs_ready
    BY <1>5 DEF fs_init
  <2>2. After = Before
    <3>1. CASE disk.boot
      <4>1. disk' = disk
        BY <1>5, <3>1 DEF fs_init, valid_boot
      <4> QED
        BY <4>1 DEF Before, After
    <3>2. CASE ~disk.boot
      <4>1. disk' = Format
        BY <1>5, <3>2 DEF fs_init, valid_boot
      <4>2. disk.fat = [c \in Clusters |-> FREE] /\ disk.root = Blank(FS_MAX_FILES)
        BY <3>2 DEF TreeInv
      <4>3. disk'.fat = disk.fat /\ disk'.root = disk.root /\ disk'.data = disk.data
        BY <4>1, <4>2 DEF Format
      <4> QED
        BY <4>3 DEF Before, After
    <3> QED
      BY <3>1, <3>2
  <2> QED
    BY <1>2, <2>1, <2>2 DEF FT!tvars
<1>6. CASE reboot /\ Gave("start", "", <<>>)
  <2>1. disk' = disk /\ path' = <<>> /\ ret' = 0
    BY <1>6 DEF reboot, PowerOff
  <2>2. Tree' = Tree
    BY <1>2, <2>1 DEF Before, After
  <2>3. FT!Restart(Tree)
    BY <1>3, <1>6, <2>1, <2>2 DEF FT!Restart, Gave
  <2> QED
    BY <2>3 DEF FT!TNext
<1>7. ASSUME NEW n \in Names, VfsCommand(n) PROVE FT!TNext
  <2>1. FT!On(Tree, n)
    BY <1>1, <1>2, <1>7, CommandPromised
  <2> QED
    BY <2>1 DEF FT!TNext
<1>8. ASSUME NEW absolute \in BOOLEAN, NEW comp \in Names \cup {"", ".."},
             fs_chdir(absolute, comp),
             cmd' = [op |-> "cd", absolute |-> absolute, name |-> comp, text |-> <<>>]
      PROVE  FT!TNext
  <2>1. FT!Chdir(Tree, absolute, comp)
    BY <1>1, <1>2, <1>8, ChdirPromised
  <2> QED
    BY <2>1 DEF FT!TNext
<1>9. CASE UNCHANGED vars
  <2>1. UNCHANGED <<disk, path, ret, cmd>>
    BY <1>9 DEF vars
  <2>2. Tree' = Tree
    BY <1>2, <2>1 DEF Before, After
  <2> QED
    BY <2>1, <2>2 DEF FT!tvars
<1> QED
  BY <1>4, <1>5, <1>6, <1>7, <1>8, <1>9 DEF Next

-----------------------------------------------------------------------------
(* Theorems *)

\* A name appears once in every directory of the volume (find_entry_in_current and
\* the slots it hands out to fs_touch, fs_write_raw and fs_mkdir), for any number
\* of files, clusters and names, also when the disk is full, or cannot be read, or
\* fails while data or the FAT is written.  A directory that is written in part is
\* left out: there a name can be in two slots.
THEOREM NamesAlwaysUnique ==
  ASSUME "crash" \notin Scope, "dir" \notin Scope
  PROVE  Spec => []NamesUnique
<1>1. Init => VolumeInv
  BY VolumeStart
<1>2. VolumeInv /\ [Next]_vars => VolumeInv'
  BY StepKeeps DEF Keeps
<1>3. VolumeInv => NamesUnique
  BY TidyNamesUnique
<1> QED
  BY <1>1, <1>2, <1>3, PTL DEF Spec

\* Every command is durable when it returns (flush_fat and flush_current_dir at
\* the end of each): a restart would find the tree the buffers describe, for any
\* number of files, clusters, names and texts, with and without directories,
\* also after rm and write on a directory, a restart, and a format that an
\* unreadable boot sector led to.
THEOREM AlwaysDurable ==
  ASSUME Scope \cap {"full", "crash", "read", "data", "fat", "dir"} = {}
  PROVE  Spec => []Durable
<1>1. Quiet /\ "crash" \notin Scope /\ "dir" \notin Scope
  BY DEF Quiet
<1>2. Init => VolumeInv /\ Synced
  BY VolumeStart
<1>3. VolumeInv /\ Synced /\ [Next]_vars => (VolumeInv /\ Synced)'
  BY <1>1, StepKeeps DEF Keeps
<1>4. Synced => Durable
  BY DEF Synced, Durable, DiskTree
<1> QED
  BY <1>2, <1>3, <1>4, PTL DEF Spec

\* The allocation invariant of fs.c, for any number of files, clusters, names
\* and texts: free_chain, alloc_cluster and write_cluster_chain never let two
\* entries share a cluster, never leave an entry on a free one and never lose
\* one, over any sequence of the commands, with directories, restarts and a
\* format that an unreadable boot sector led to.
THEOREM ClustersAlwaysOwnedOnce ==
  ASSUME Scope \cap {"ondirs", "full", "crash", "read", "data", "fat", "dir"} = {}
  PROVE  Spec => []ClustersOwnedOnce
<1>1. Calm
  BY DEF Calm
<1>2. Init => TreeInv
  BY TreeStart
<1>3. TreeInv /\ [Next]_vars => TreeInv'
  BY <1>1, TreeStepKeeps
<1>4. TreeInv => ClustersOwnedOnce
  BY TreeOwned
<1> QED
  BY <1>2, <1>3, <1>4, PTL DEF Spec

\* current_path and current_dir_cluster name the same directory until a name finds
\* no room in FS_MAX_PATH bytes, and again after the next absolute path: fs_chdir
\* updates them separately, ".." goes by the entry on the disk, and no rmdir
\* removes the directory the user is in.
THEOREM CwdAlwaysAgrees ==
  ASSUME Scope \cap {"ondirs", "full", "crash", "read", "data", "fat", "dir"} = {}
  PROVE  Spec => []CwdPathAgrees
<1>1. Calm
  BY DEF Calm
<1>2. Init => TreeInv /\ PathInv
  BY TreeStart DEF Init, PathInv
<1>3. TreeInv /\ PathInv /\ [Next]_vars => (TreeInv /\ PathInv)'
  BY <1>1, TreeStepKeeps, PathStep
<1>4. TreeInv /\ PathInv => CwdPathAgrees
  BY TreeAgrees
<1> QED
  BY <1>2, <1>3, <1>4, PTL DEF Spec

\* fs.c implements what the shell's file commands promise (FileTree), results
\* included: a command that returns 0 has made the change that command makes to
\* the tree, one that fails has made none, and touch, rm, rmdir, cd and a write to
\* an existing file fail only when they have to, over any sequence of commands and
\* restarts and for any number of files, clusters, names and texts.
THEOREM VolumeImplementsTree ==
  ASSUME Scope \cap {"ondirs", "full", "crash", "bootread", "read", "data", "fat", "dir"} = {}
  PROVE  Spec => ImplementsTree
<1>1. Calm /\ "bootread" \notin Scope
  BY DEF Calm
<1>2. Init => TreeInv
  BY TreeStart
<1>3. TreeInv /\ [Next]_vars => TreeInv'
  BY <1>1, TreeStepKeeps
<1>4. Init => FT!TInit
  <2> SUFFICES ASSUME Init PROVE FT!TInit
    OBVIOUS
  <2>1. TidyData(disk.data)
    BY VolumeStart DEF VolumeInv, TidyDisk
  <2>2. TreeOf([c \in Clusters |-> FREE], Blank(FS_MAX_FILES), disk.data) = {Root}
    BY <2>1, BlankTree
  <2>3. disk.fat = [c \in Clusters |-> FREE] /\ disk.root = Blank(FS_MAX_FILES) /\ ~fs_ready
    BY DEF Init
  <2>4. Tree = {Root}
    BY <2>2, <2>3 DEF Tree, DiskTree
  <2> QED
    BY <2>4 DEF Init, FT!TInit, FT!Dir, Root
<1>5. TreeInv /\ [Next]_vars => [FT!TNext]_(FT!tvars)
  BY <1>1, RefinesStep
<1> QED
  BY <1>2, <1>3, <1>4, <1>5, PTL DEF Spec, ImplementsTree, FT!TSpec
=============================================================================
