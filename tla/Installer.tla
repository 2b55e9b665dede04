-------------------------------- MODULE Installer ------------------------------
(***************************************************************************)
(* be300-install: src/be300_install_main.c runs the packages it is given   *)
(* through cbea_install (src/cbea_install.c) on an image in memory and     *)
(* writes the image when all are in.  A package copies files to the volume *)
(* of module Fat and adds values to the registry snapshot in               *)
(* \Backup\System.reg.  The browser's card builder (web/main_web.c) writes *)
(* files to a volume of its own.  Between runs the guest changes the       *)
(* image.                                                                  *)
(***************************************************************************)
EXTENDS Fat
LOCAL INSTANCE SequencesExt

CONSTANTS
    Packages,      \* the packages there are
    Sets,          \* the sequences of packages a run is given
    FactoryVolume, \* the image as it comes
    Picks,         \* <<path, data>>: the files that may be put on a card
    MaxGuest       \* changes the guest makes
ASSUME InstallerAssumption == MaxGuest \in Nat

VARIABLES
    nand,   \* the image file
    mem,    \* the image in memory, while be300-install runs
    todo,   \* the packages still to install
    given,  \* all the packages of this run; <<>> between runs
    card,   \* the card being built
    blank,  \* its boot sector
    guest   \* changes the guest has made

installVars == <<nand, mem, todo, given, card, blank, guest>>

SystemReg  == <<"backup", "system.reg">>
SystemCopy == <<"backup", "system.$$$">>

--------------------------------------------------------------------------------
(* The registry snapshot: records in order, a key before its values.       *)

Magic == [t |-> "magic"]
Key(a) == [t |-> "key", root |-> a.root, key |-> a.key]
Value(a) == [t |-> "value", name |-> a.name, val |-> a.val]
SameKey(a, b) == Key(a) = Key(b)
SameValue(a, b) == SameKey(a, b) /\ a.name = b.name

\* Later lines for the same value win.
RegEmitPending_All(adds, done, k) ==
    [i \in DOMAIN SelectSeq(adds, LAMBDA a : Key(a) = k) |->
        Value(SelectSeq(adds, LAMBDA a : Key(a) = k)[i])]
LastOfName(adds, i) == \A j \in i + 1..Len(adds) : ~SameValue(adds[i], adds[j])
RegEmitPending(adds, done, k) ==
    LET emits(i) == i \notin done /\ Key(adds[i]) = k /\ LastOfName(adds, i)
        is == SelectSeq([i \in DOMAIN adds |-> i], emits)
    IN [n \in DOMAIN is |-> Value(adds[is[n]])]

Emit(r, adds, k) ==
    [r EXCEPT !.out = @ \o RegEmitPending(adds, r.done, k),
              !.done = @ \cup {i \in DOMAIN adds : Key(adds[i]) = k}]
RegKeyPending(adds, k) == \E i \in DOMAIN adds : Key(adds[i]) = k
RegValueOverridden(adds, k, name) ==
    \E i \in DOMAIN adds : Key(adds[i]) = k /\ adds[i].name = name

\* cur: the key whose values pass by, if values are to be added to it
OutOf == [t |-> "none"]
Flushed(r, adds) == IF r.cur = OutOf THEN r ELSE Emit(r, adds, r.cur)
AtKey(r, adds, key) ==
    [r EXCEPT !.out = Append(@, key), !.cur = IF RegKeyPending(adds, key) THEN key ELSE OutOf]
Merged(r, adds, rec) ==
    IF rec.t = "key" THEN AtKey(Flushed(r, adds), adds, rec)
    ELSE IF r.cur # OutOf /\ RegValueOverridden(adds, r.cur, rec.name)
    THEN r ELSE [r EXCEPT !.out = Append(@, rec)]

WithNewKeys(passed, adds) ==
    LET New(r, i) == IF i \in r.done THEN r
                     ELSE Emit([r EXCEPT !.out = Append(@, Key(adds[i]))], adds, Key(adds[i]))
    IN FoldLeft(New, passed, [i \in DOMAIN adds |-> i])
RegMerge(old, adds) ==
    LET start == [out |-> <<Magic>>, cur |-> OutOf, done |-> {}]
        passed == FoldLeft(LAMBDA r, rec : Merged(r, adds, rec), start,
                           IF old.ok THEN Tail(old.data) ELSE <<>>)
    IN [ok |-> old.ok => old.data # <<>> /\ Head(old.data) = Magic,
        data |-> WithNewKeys(Flushed(passed, adds), adds).out]

--------------------------------------------------------------------------------
(* Install.inf.  A line is a copy line, a registry line or one too short   *)
(* for its section; a root or a type the program does not know, or data    *)
(* that is not of the type, is "bad".                                      *)

\* Where a destination lies on the volume, if anywhere.  The object store
\* \Windows is volatile: a file for it goes where the guest shadows it from.
ResolveDest(pkg, dest) ==
    LET at == IF dest.at = "install" THEN pkg.dir.at ELSE dest.at
        path == IF dest.at = "install" THEN pkg.dir.path \o dest.path ELSE dest.path
    IN CASE at = "disk" -> [ok |-> path # <<>>, path |-> path]
         [] at = "windows" -> [ok |-> Len(path) = 1,
                               path |-> <<"program files", "patch">> \o path]
         [] OTHER -> [ok |-> FALSE, path |-> <<>>]

Backslash == 92
\* DWORD digits are hexadecimal; two trailing backslashes stand for one.
HexValue(digits) == FoldLeft(LAMBDA n, d : 16 * n + d, 0, digits)
RegData(line) ==
    IF line.type = "dword" THEN <<HexValue(line.val)>>
    ELSE IF line.type = "sz" /\ Len(line.val) >= 2
            /\ SubSeq(line.val, Len(line.val) - 1, Len(line.val)) = <<Backslash, Backslash>>
    THEN Front(line.val) ELSE line.val
RegParseLine(line) ==
    [ok |-> "bad" \notin {line.root, line.type} /\ line.key # <<>>,
     add |-> [root |-> line.root, key |-> line.key,
              name |-> IF line.name = "" THEN "Default" ELSE line.name,
              val |-> RegData(line)]]

\* The launcher's entry, named after the package
RegMenuEntry(pkg) ==
    LET Entry(k, n, v) == [root |-> "hklm", key |-> k, name |-> n, val |-> v]
        menu == <<"menu", pkg.program>>
    IN IF ~pkg.exe THEN <<>>
       ELSE <<Entry(menu, "APATH", <<pkg.program>>),
              Entry(Append(menu, "version"), "MAJOR", <<pkg.version>>)>>

Became(r, w) == [r EXCEPT !.v = w.v, !.ok = w.ok]
Kept(m, name) == m.ok /\ DirFind(m.v, m.dir, name) # 0
\* COPYFLG_NOOVERWRITE: the directories of a file that is kept are made, too.
KeepOrCopy(r, look, path, data) ==
    IF Kept(look, Last(path)) THEN [r EXCEPT !.v = look.v]
    ELSE Became(r, FatWriteFile(look.v, path, data))
CopyLine(pkg, r, line, to) ==
    IF line.src \notin DOMAIN pkg.files \/ ~to.ok THEN [r EXCEPT !.ok = FALSE]
    ELSE IF line.keep THEN KeepOrCopy(r, FatMkdirs(r.v, to.path), to.path, pkg.files[line.src])
    ELSE Became(r, FatWriteFile(r.v, to.path, pkg.files[line.src]))
RegLine(r, reg) ==
    [r EXCEPT !.ok = reg.ok, !.adds = IF reg.ok THEN Append(@, reg.add) ELSE @]
InstallLine(pkg, r, line) ==
    CASE ~r.ok -> r
      [] r.ok /\ line.sec = "short" -> [r EXCEPT !.ok = FALSE]
      [] r.ok /\ line.sec = "reg" -> RegLine(r, RegParseLine(line))
      [] r.ok /\ line.sec = "copy" -> CopyLine(pkg, r, line, ResolveDest(pkg, line.dest))

\* System.reg, and then its copy
WriteOther(r, one, data) ==
    IF one.ok THEN Became(r, FatWriteFile(one.v, SystemCopy, data)) ELSE Became(r, one)
WriteRegistry(r, m) ==
    IF m.ok THEN WriteOther(r, FatWriteFile(r.v, SystemReg, m.data), m.data)
    ELSE [r EXCEPT !.ok = FALSE]
RegistryStep(r) ==
    IF ~r.ok \/ r.adds = <<>> THEN r
    ELSE WriteRegistry(r, RegMerge(FatRead(r.v, SystemReg), r.adds))

InstallInto(v, pkg) ==
    LET start == [v |-> v, ok |-> pkg.inf /\ ~pkg.storage_only, adds |-> <<>>]
        lines == FoldLeft(LAMBDA r, l : InstallLine(pkg, r, l), start, pkg.lines)
    IN RegistryStep([lines EXCEPT !.adds = @ \o RegMenuEntry(pkg)])

\* The work is done on a copy.
Result(v, r) == IF r.ok THEN [ok |-> TRUE, v |-> Located(r.v)] ELSE [ok |-> FALSE, v |-> v]
CbeaInstall(v, pkg) ==
    IF pkg.whole THEN Result(v, InstallInto(Located(v), pkg)) ELSE [ok |-> FALSE, v |-> v]

--------------------------------------------------------------------------------
(* The geometry of a card made by the browser: the formatter, and the       *)
(* parser that every later operation on the card goes through.  Sizes are   *)
(* in sectors.                                                              *)

MbSectors == 2048
FatEntries == 256    \* of a sector
RootSectors == 32
LeastClusters == 4085
MostClusters == 65524

NoBpb == [spc |-> 0, reserved |-> 0, nfats |-> 0, root |-> 0, total |-> 0, fat |-> 0]

\* For each cluster size the sectors of a FAT and the clusters; the smallest
\* size that leaves no more clusters than FAT16 has is taken.
FatSectors(total, spc) ==
    LET avail == total - 1 - RootSectors
    IN (avail + 256 * spc + 1) \div (256 * spc + 2)
DataClusters(total, spc) ==
    (total - 1 - RootSectors - 2 * FatSectors(total, spc)) \div spc
ClusterSizes(total) == {n \in {2, 4, 8, 16, 32, 64} : n >= IF total >= 16 * MbSectors THEN 4 ELSE 2}

CbeaFatFormat(total) ==
    LET fits == {n \in ClusterSizes(total) : DataClusters(total, n) <= MostClusters}
        spc == CHOOSE n \in fits : \A m \in fits : n <= m
    IN IF \/ total \notin 8 * MbSectors..1024 * MbSectors
          \/ fits = {}
       THEN [ok |-> FALSE, bpb |-> NoBpb]
       ELSE [ok |-> DataClusters(total, spc) >= LeastClusters,
             bpb |-> [spc |-> spc, reserved |-> 1, nfats |-> 2, root |-> RootSectors,
                      total |-> total, fat |-> FatSectors(total, spc)]]

\* The volume in a file of size sectors, if there is one.  A FAT too small for
\* the clusters there is space for is taken as it is.
FatParseBpb(b, size) ==
    LET data == b.reserved + b.nfats * b.fat + b.root
        space == (b.total - data) \div b.spc
        entries == b.fat * FatEntries
    IN IF \/ b.spc \notin {2 ^ i : i \in 0..7}
          \/ 0 \in {b.reserved, b.nfats, b.fat}
          \/ b.total > size
          \/ data >= b.total
       THEN [ok |-> FALSE, clusters |-> 0]
       ELSE LET n == IF entries < space + 2 THEN entries - 2 ELSE space
            IN [ok |-> n > 0, clusters |-> n]

--------------------------------------------------------------------------------
InstallInit ==
    /\ nand = FactoryVolume /\ mem = EmptyVolume /\ todo = <<>> /\ given = <<>>
    /\ card = EmptyVolume /\ blank = NoBpb /\ guest = 0

Begin ==
    /\ given = <<>>
    /\ given' \in Sets
    /\ todo' = given' /\ mem' = nand
    /\ UNCHANGED <<nand, card, blank, guest>>

Quit == mem' = EmptyVolume /\ todo' = <<>> /\ given' = <<>>
Proceeds(r) == IF r.ok THEN mem' = r.v /\ todo' = Tail(todo) /\ UNCHANGED given ELSE Quit
InstallNext ==
    /\ todo # <<>>
    /\ Proceeds(CbeaInstall(mem, Packages[Head(todo)]))
    /\ UNCHANGED <<nand, card, blank, guest>>

WriteAll ==
    /\ given # <<>> /\ todo = <<>>
    /\ nand' = mem
    /\ Quit
    /\ UNCHANGED <<card, blank, guest>>

Killed == given # <<>> /\ Quit /\ UNCHANGED <<nand, card, blank, guest>>

GuestDeletes ==
    /\ given = <<>> /\ guest < MaxGuest
    /\ \E p \in DOMAIN VolumeFiles(nand) : nand' = FatDelete(nand, p)
    /\ guest' = guest + 1
    /\ UNCHANGED <<mem, todo, given, card, blank>>
InstallerNext == Begin \/ InstallNext \/ WriteAll \/ Killed \/ GuestDeletes

\* be300_web_cf_create, which gives up the card before
CardCreate(mb) ==
    /\ LET f == CbeaFatFormat(mb * MbSectors)
       IN blank' = IF f.ok THEN f.bpb ELSE NoBpb
    /\ card' = EmptyVolume
    /\ UNCHANGED <<nand, mem, todo, given, guest>>

\* be300_web_cf_add_file; a file that fails to be written is skipped.
CardAdd ==
    /\ blank # NoBpb
    /\ \E f \in Picks : card' = Located(FatWriteFile(card, f[1], f[2]).v)
    /\ UNCHANGED <<nand, mem, todo, given, guest, blank>>

\* be300_web_cf_commit gives the card to the machine.
CardCommit == /\ blank # NoBpb
              /\ blank' = NoBpb /\ card' = EmptyVolume
              /\ UNCHANGED <<nand, mem, todo, given, guest>>

--------------------------------------------------------------------------------
(* What the installer promises, over files and registry values.            *)

Put(files, path, data) ==
    [p \in DOMAIN files \cup {path} |->
        IF p = path THEN [ok |-> TRUE, data |-> data] ELSE files[p]]
CopyEffect(pkg, files, line) ==
    LET path == ResolveDest(pkg, line.dest).path
    IN IF line.sec # "copy" \/ (line.keep /\ path \in DOMAIN files) THEN files
       ELSE Put(files, path, pkg.files[line.src])
FilesAfter(files, pkg) ==
    FoldLeft(LAMBDA f, l : CopyEffect(pkg, f, l), files, pkg.lines)

\* A snapshot as a function from <<key, value name>> to data; a key without
\* values is in it as well.
KeyAt(recs, i) == recs[CHOOSE j \in 1..i : /\ recs[j].t = "key"
                                           /\ \A k \in j + 1..i : recs[k].t # "key"]
RegistryOf(recs) ==
    {<<KeyAt(recs, i), recs[i]>> : i \in {x \in DOMAIN recs : recs[x].t = "value"}}
KeysOf(recs) == {recs[i] : i \in {x \in DOMAIN recs : recs[x].t = "key"}}
AddsOf(pkg) ==
    LET regs == SelectSeq(pkg.lines, LAMBDA l : l.sec = "reg")
    IN [i \in DOMAIN regs |-> RegParseLine(regs[i]).add] \o RegMenuEntry(pkg)
RegistryAfter(reg, adds) ==
    {x \in reg : ~\E i \in DOMAIN adds : x[1] = Key(adds[i]) /\ x[2].name = adds[i].name}
      \cup {<<Key(adds[i]), Value(adds[i])>> : i \in {x \in DOMAIN adds :
               \A j \in x + 1..Len(adds) : ~SameValue(adds[x], adds[j])}}

Plain(files) == [p \in DOMAIN files \ {SystemReg, SystemCopy} |-> files[p]]
Snapshot(files, path) == IF path \in DOMAIN files THEN files[path].data ELSE <<Magic>>

RegistryHas(is, was, adds) ==
    /\ RegistryOf(is) = RegistryAfter(RegistryOf(was), adds)
    /\ KeysOf(is) = KeysOf(was) \cup {Key(adds[i]) : i \in DOMAIN adds}
    /\ Cardinality(KeysOf(is)) + Cardinality(RegistryOf(is)) + 1 = Len(is)
\* The volume after is the volume before with the package in it.
Effected(before, after, pkg) ==
    /\ Plain(after) = Plain(FilesAfter(before, pkg))
    /\ RegistryHas(Snapshot(after, SystemReg), Snapshot(before, SystemReg), AddsOf(pkg))
    /\ AddsOf(pkg) # <<>> => Snapshot(after, SystemCopy) = Snapshot(after, SystemReg)

(***************************************************************************)
(* Every install is all or nothing, whatever the guest has left on the     *)
(* disk and wherever it runs full: an install that goes through changes    *)
(* exactly the files and the registry values its package names, and gives  *)
(* both copies of the registry the same records, each key and value once;  *)
(* the image file changes only to one with all the packages of a run in it *)
(* (cbea_install's scratch copy, main's single write).                     *)
(***************************************************************************)
InstallAtomic ==
    [][ /\ todo # <<>> /\ mem' # mem /\ given' # <<>>
             => Effected(VolumeFiles(mem), VolumeFiles(mem'), Packages[Head(todo)])
        /\ nand' # nand /\ given # <<>> => nand' = mem /\ todo = <<>> ]_installVars

(***************************************************************************)
(* No operation on a volume, completed or failed half way, leaves a        *)
(* cluster that is lost, free but in a chain, or in two chains, a file     *)
(* whose chain does not fit its size, or a name twice; and a card of any   *)
(* size offered is one the parser accepts with all its clusters, of a      *)
(* number that means FAT16 (cbea_fat_format against fat_parse_bpb).        *)
(***************************************************************************)
CardAccepted(b) ==
    LET v == FatParseBpb(b, b.total)
    IN /\ v.ok
       /\ v.clusters \in LeastClusters..MostClusters
       /\ v.clusters = DataClusters(b.total, b.spc)
VolumesSound ==
    /\ Sound(FactoryVolume)
    /\ [][ /\ \A v \in {nand', mem', card'} \ {nand, mem, card} : Sound(v)
           /\ blank' \notin {blank, NoBpb} => CardAccepted(blank') ]_installVars
================================================================================
