----------------------------------- MODULE Fat ---------------------------------
(***************************************************************************)
(* The FAT16 volume of src/cbea_install.c: the allocation table, the       *)
(* directories with their long and short names, and the operations on      *)
(* files.  Every operation takes a volume and gives the volume it leaves,  *)
(* also when it fails half way.                                            *)
(*                                                                         *)
(* A file is a sequence of cells, ClusterCells of them to a cluster.  What *)
(* a free cluster still holds is left out: fat_alloc clears it.  A name    *)
(* stands for its bytes, without regard to case; Spelling says what        *)
(* make_short_name sees in it.                                             *)
(***************************************************************************)
EXTENDS Integers, Sequences, FiniteSets
LOCAL INSTANCE SequencesExt
LOCAL INSTANCE FiniteSetsExt

CONSTANTS
    ClusterCount,  \* cluster_count
    ClusterCells,  \* cells in a cluster
    DirSlots,      \* directory entries in a cluster
    RootSlots,     \* root_entries
    Spelling       \* of each name: its 8.3 base, whether that is the name
                   \* itself ("exact"), up to case ("folded") or not at all
                   \* ("lossy"), and the slots of its long form

FileNames == DOMAIN Spelling

\* "1u" in fat_write_file: a new entry set takes at most one more cluster.
ASSUME FatAssumption ==
    /\ {ClusterCount, ClusterCells, DirSlots, RootSlots} \subseteq Nat \ {0}
    /\ Spelling \in [FileNames -> [base : STRING, style : {"exact", "folded", "lossy"},
                                   slots : Nat \ {0}]]
    /\ \A n \in FileNames : Spelling[n].slots + 1 <= DirSlots

Clusters == 2..ClusterCount + 1
EndOfChain == ClusterCount + 2
Blank == [kind |-> "end"]
Zeroed == [i \in 1..DirSlots |-> Blank]
NoFile == [ok |-> FALSE, data |-> <<>>]

\* fat_locate leaves the search for a free cluster at the first one.
Located(v) == [v EXCEPT !.hint = 2]
EmptyVolume == [fat |-> [c \in Clusters |-> 0], hint |-> 2,
                root |-> [i \in 1..RootSlots |-> Blank], mem |-> [c \in Clusters |-> <<>>]]

--------------------------------------------------------------------------------
FreeClusters(v) == {c \in Clusters : v.fat[c] = 0}

\* 0 when the disk is full
Took(v, c) == [c |-> c, v |-> [v EXCEPT !.fat[c] = EndOfChain, !.mem[c] = Zeroed,
                                        !.hint = c + 1]]
FatAlloc(v) ==
    LET ahead == {c \in FreeClusters(v) : c >= v.hint}
    IN IF FreeClusters(v) = {} THEN [c |-> 0, v |-> v]
       ELSE Took(v, IF ahead # {} THEN Min(ahead) ELSE Min(FreeClusters(v)))

FatChain(v, first) ==
    LET f[n \in 1..ClusterCount] ==
            IF n = 1 THEN IF first \in Clusters THEN <<first>> ELSE <<>>
            ELSE LET p == f[n - 1]
                 IN IF p # <<>> /\ v.fat[Last(p)] \in Clusters
                    THEN Append(p, v.fat[Last(p)]) ELSE p
    IN f[ClusterCount]

Freed(v, cs) == [v EXCEPT !.fat = [c \in Clusters |-> IF c \in cs THEN 0 ELSE @[c]],
                          !.mem = [c \in Clusters |-> IF c \in cs THEN <<>> ELSE @[c]]]
FatFreeChain_LeavesTail(v, first) == Freed(v, {first} \cap Clusters)
FatFreeChain(v, first) ==
    LET cs == ToSet(FatChain(v, first))
    IN [Freed(v, cs) EXCEPT !.hint = Min(cs \cup {@})]

--------------------------------------------------------------------------------
(* Directories.  0 is the root.                                            *)

Slots(v, dir) ==
    IF dir = 0 THEN v.root
    ELSE LET ch == FatChain(v, dir) IN FlattenSeq([i \in DOMAIN ch |-> v.mem[ch[i]]])
InUse(s) == 1..Min({i \in DOMAIN s : s[i].kind = "end"} \cup {Len(s) + 1}) - 1
Entries(s) == {i \in InUse(s) : s[i].kind = "entry"}

SetSlot(v, dir, i, slot) ==
    IF dir = 0 THEN [v EXCEPT !.root[i] = slot]
    ELSE [v EXCEPT !.mem[FatChain(v, dir)[(i - 1) \div DirSlots + 1]]
                        [((i - 1) % DirSlots) + 1] = slot]

LongSlot(name, ord, short) == [kind |-> "long", name |-> name, ord |-> ord, short |-> short]
HasLong(s, i, name) ==
    /\ i > Spelling[name].slots
    /\ \A k \in 1..Spelling[name].slots : s[i - k] = LongSlot(name, k, s[i].short)
HasShort(s, i, name) ==
    Spelling[name].style # "lossy" /\ s[i].short = <<Spelling[name].base, 0>>
Called(s, i, name) == HasLong(s, i, name) \/ HasShort(s, i, name)

\* the slot of the 8.3 entry, or 0
MinOr0(S) == IF S = {} THEN 0 ELSE Min(S)
FoundIn(s, name) == MinOr0({i \in Entries(s) : Called(s, i, name)})
DirFind(v, dir, name) == FoundIn(Slots(v, dir), name)

MakeShortName(s, name) ==
    LET taken == {s[i].short : i \in Entries(s)}
        base == Spelling[name].base
    IN IF Spelling[name].style # "lossy" /\ <<base, 0>> \notin taken
       THEN [short |-> <<base, 0>>, long |-> Spelling[name].style = "folded"]
       ELSE [short |-> <<base, Min({n \in 1..Len(s) + 1 : <<base, n>> \notin taken})>>,
             long |-> TRUE]

\* dir_slot with extend: clusters are linked to a subdirectory up to slot n.
Linked(r, dir, a) ==
    IF a.c = 0 THEN [r EXCEPT !.ok = FALSE]
    ELSE [r EXCEPT !.v = [a.v EXCEPT !.fat[Last(FatChain(r.v, dir))] = a.c]]
Grown(v, dir, more) ==
    LET Grow(r, x) == IF r.ok THEN Linked(r, dir, FatAlloc(r.v)) ELSE r
    IN FoldLeft(Grow, [ok |-> TRUE, v |-> v], [i \in 1..more |-> i])
Extended(v, dir, n) ==
    IF n <= Len(Slots(v, dir)) THEN [ok |-> TRUE, v |-> v]
    ELSE IF dir \notin Clusters THEN [ok |-> FALSE, v |-> v]
    ELSE Grown(v, dir, (n - Len(Slots(v, dir)) + DirSlots - 1) \div DirSlots)

\* The first run of free slots that is long enough.
RunStart(s, need) ==
    Min({i \in 1..Len(s) + 1 :
            \A j \in i..i + need - 1 : j \in DOMAIN s => s[j].kind \in {"end", "deleted"}})

\* The set's last slot, the 8.3 entry, goes to at.
WithEntry(v, dir, at, sn, name, isdir) ==
    LET Put(w, k) == SetSlot(w, dir, at - k, LongSlot(name, k, sn.short))
        longs == IF sn.long THEN [k \in 1..Spelling[name].slots |-> k] ELSE <<>>
    IN SetSlot(FoldLeft(Put, v, longs), dir, at,
               [kind |-> "entry", short |-> sn.short, isdir |-> isdir, first |-> 0, size |-> 0])
CreatedAt(g, dir, at, sn, name, isdir) ==
    IF ~g.ok THEN [ok |-> FALSE, v |-> g.v, at |-> 0]
    ELSE [ok |-> TRUE, at |-> at, v |-> WithEntry(g.v, dir, at, sn, name, isdir)]
CreatedAs(v, dir, sn, name, isdir) ==
    LET n == IF sn.long THEN Spelling[name].slots ELSE 0
        at == RunStart(Slots(v, dir), n + 1) + n
    IN CreatedAt(Extended(v, dir, at), dir, at, sn, name, isdir)
DirCreate(v, dir, name, isdir) ==
    CreatedAs(v, dir, MakeShortName(Slots(v, dir), name), name, isdir)

\* "." and ".."
Dots == <<[kind |-> "dot"], [kind |-> "dot"]>>
Opened(d, dir, c) ==
    IF ~d.ok THEN [ok |-> FALSE, v |-> Freed(d.v, {c}), dir |-> 0]
    ELSE [ok |-> TRUE, dir |-> c,
          v |-> SetSlot([d.v EXCEPT !.mem[c] = Dots \o SubSeq(@, 3, DirSlots)],
                        dir, d.at, [Slots(d.v, dir)[d.at] EXCEPT !.first = c])]
NewDirectory(a, dir, name) ==
    IF a.c = 0 THEN [ok |-> FALSE, v |-> a.v, dir |-> 0]
    ELSE Opened(DirCreate(a.v, dir, name, TRUE), dir, a.c)

\* Every component of the path but the last
Entered(r, name, i) ==
    IF i = 0 THEN NewDirectory(FatAlloc(r.v), r.dir, name)
    ELSE [r EXCEPT !.ok = Slots(r.v, r.dir)[i].isdir, !.dir = Slots(r.v, r.dir)[i].first]
FatMkdirs(v, path) ==
    LET Walk(r, name) == IF r.ok THEN Entered(r, name, DirFind(r.v, r.dir, name)) ELSE r
    IN FoldLeft(Walk, [ok |-> TRUE, v |-> v, dir |-> 0], Front(path))

--------------------------------------------------------------------------------
(* Files                                                                   *)

ClustersOf(size) == (size + ClusterCells - 1) \div ClusterCells
ClustersFor(data) == ClustersOf(Len(data))
Chunk(data, i) == SubSeq(data, (i - 1) * ClusterCells + 1,
                         IF i * ClusterCells < Len(data) THEN i * ClusterCells ELSE Len(data))

\* The loop of fat_write_file: cluster after cluster, each linked to the last
StoredIn(r, a, cells) ==
    LET w == [a.v EXCEPT !.mem[a.c] = cells]
    IN IF a.c = 0 THEN [r EXCEPT !.ok = FALSE]
       ELSE IF r.prev = 0 THEN [ok |-> TRUE, v |-> w, first |-> a.c, prev |-> a.c]
       ELSE [r EXCEPT !.v = [w EXCEPT !.fat[r.prev] = a.c], !.prev = a.c]
Stored(v, data) ==
    LET Store(r, i) == IF r.ok THEN StoredIn(r, FatAlloc(r.v), Chunk(data, i)) ELSE r
    IN FoldLeft(Store, [ok |-> TRUE, v |-> v, first |-> 0, prev |-> 0],
                [i \in 1..ClustersFor(data) |-> i])

\* The space needed, with one more cluster for a directory that must grow
HasRoom(v, data) == Cardinality(FreeClusters(v)) >= ClustersFor(data) + 1

Failed(v) == [ok |-> FALSE, v |-> v]
\* The entry has the file when all of it is stored.
Completed(w, dir, at, size) ==
    IF ~w.ok THEN Failed(w.v)
    ELSE [ok |-> TRUE, v |-> SetSlot(w.v, dir, at, [Slots(w.v, dir)[at] EXCEPT
                                                    !.first = w.first, !.size = size])]
StoredAs(d, dir, data) ==
    IF ~d.ok THEN Failed(d.v) ELSE Completed(Stored(d.v, data), dir, d.at, Len(data))
\* The entry of an old file is emptied, and its chain freed, before anything else.
Emptied(v, dir, i) ==
    SetSlot(FatFreeChain(v, Slots(v, dir)[i].first), dir, i,
            [Slots(v, dir)[i] EXCEPT !.first = 0, !.size = 0])
Overwritten(v, dir, i, data) ==
    IF HasRoom(v, data) THEN StoredAs([ok |-> TRUE, v |-> v, at |-> i], dir, data) ELSE Failed(v)
WrittenTo(v, dir, name, i, data) ==
    IF i = 0
    THEN IF HasRoom(v, data) THEN StoredAs(DirCreate(v, dir, name, FALSE), dir, data) ELSE Failed(v)
    ELSE IF Slots(v, dir)[i].isdir THEN Failed(v)
    ELSE Overwritten(Emptied(v, dir, i), dir, i, data)
WrittenIn(m, name, data) ==
    IF m.ok THEN WrittenTo(m.v, m.dir, name, DirFind(m.v, m.dir, name), data) ELSE Failed(m.v)
FatWriteFile(v, path, data) == WrittenIn(FatMkdirs(v, path), Last(path), data)

\* The bytes of an entry; a chain that ends early gives none.
ChainData(v, ch, n) ==
    IF Len(ch) < n THEN NoFile
    ELSE [ok |-> TRUE, data |-> FlattenSeq([k \in 1..n |-> v.mem[ch[k]]])]
Contents(v, e) == ChainData(v, FatChain(v, e.first), ClustersOf(e.size))

ReadFrom(v, s, i) == IF i = 0 THEN NoFile ELSE IF s[i].isdir THEN NoFile ELSE Contents(v, s[i])
ReadIn(v, d, name) ==
    IF d.ok THEN ReadFrom(v, Slots(v, d.dir), DirFind(v, d.dir, name)) ELSE NoFile
FatRead(v, path) ==
    LET Step(r, s, i) == IF i = 0 THEN [r EXCEPT !.ok = FALSE]
                         ELSE [ok |-> s[i].isdir, dir |-> s[i].first]
        Walk(r, name) == IF r.ok THEN Step(r, Slots(v, r.dir), DirFind(v, r.dir, name)) ELSE r
    IN ReadIn(v, FoldLeft(Walk, [ok |-> TRUE, dir |-> 0], Front(path)), Last(path))

\* The guest's own file system deletes a file: its entry set and its chain.
Deleted(v, dir, s, i, name) ==
    LET n == IF HasLong(s, i, name) THEN Spelling[name].slots ELSE 0
        Mark(w, k) == SetSlot(w, dir, i - k, [kind |-> "deleted"])
    IN Located(Freed(FoldLeft(Mark, v, [k \in 1..n + 1 |-> k - 1]),
                     ToSet(FatChain(v, s[i].first))))
DeletedIn(v, dir, name) == Deleted(v, dir, Slots(v, dir), DirFind(v, dir, name), name)
FatDelete(v, path) == DeletedIn(v, FatMkdirs(v, path).dir, Last(path))

--------------------------------------------------------------------------------
(* What a volume means: its files, and whether it is sound.                *)

Subdirs(d, s) == {<<Append(d[1], n), s[i].first>> :
                    <<i, n>> \in {x \in Entries(s) \X FileNames :
                                    s[x[1]].isdir /\ Called(s, x[1], x[2])}}
Directories(v) ==
    LET f[depth \in 0..3] ==
            IF depth = 0 THEN {<< <<>>, 0 >>}
            ELSE UNION {Subdirs(d, Slots(v, d[2])) : d \in f[depth - 1]}
    IN UNION {f[depth] : depth \in 0..3}

Owned(v) == UNION {{<<d[2], i>> : i \in Entries(Slots(v, d[2]))} : d \in Directories(v)}
EntryAt(v, o) == Slots(v, o[1])[o[2]]

\* The files as a function from paths to what they hold
FilesOf(d, s) == {Append(d[1], n) : n \in {x \in FileNames :
                     \E i \in Entries(s) : ~s[i].isdir /\ Called(s, i, x)}}
VolumeFiles(v) ==
    [p \in UNION {FilesOf(d, Slots(v, d[2])) : d \in Directories(v)} |-> FatRead(v, p)]

EntryIsSound(v, e, ch) ==
    /\ e.isdir => e.first \in Clusters
    /\ ~e.isdir => Len(ch) = ClustersOf(e.size)
    /\ ch # <<>> => v.fat[Last(ch)] = EndOfChain
NamesSound(s) ==
    /\ \A i \in Entries(s) : Cardinality({n \in FileNames : Called(s, i, n)}) = 1
    /\ \A n \in FileNames : Cardinality({i \in Entries(s) : Called(s, i, n)}) <= 1
\* used: every entry with each cluster of its chain
ChainsApart(v, used) ==
    /\ \A x, y \in used : x[2] = y[2] => x[1] = y[1]
    /\ {x[2] : x \in used} = Clusters \ FreeClusters(v)
Sound(v) ==
    /\ \A o \in Owned(v) :
          EntryIsSound(v, EntryAt(v, o), FatChain(v, EntryAt(v, o).first))
    /\ \A d \in Directories(v) : NamesSound(Slots(v, d[2]))
    /\ ChainsApart(v, UNION {{o} \X ToSet(FatChain(v, EntryAt(v, o).first)) : o \in Owned(v)})
================================================================================
