---------------------------------- MODULE MCHost --------------------------------
(***************************************************************************)
(* The host's side of the emulator: the serial bridge over each way of     *)
(* reaching the peer, the application installer and the card builder on a  *)
(* small volume, and the launcher's virtual machines.  A behaviour is of   *)
(* one part.                                                               *)
(***************************************************************************)
EXTENDS SerialBridge, Installer, Bundles, TLC

CONSTANT CardSizes  \* sizes of a card, in MB; the least one is built on

VARIABLE part
hostVars == <<vars, installVars, bundleVars, part>>

Parts == {"bridge", "install", "card", "format", "bundles"}
SmallSize == CHOOSE n \in CardSizes : \A m \in CardSizes : n <= m

HostInit ==
    /\ part \in Parts
    /\ Init /\ InstallInit /\ BundlesInit
    /\ part # "bridge" => mode = CHOOSE m \in Modes : TRUE
BridgePart == Next /\ UNCHANGED <<installVars, bundleVars, part>>
InstallPart == InstallerNext /\ UNCHANGED <<vars, bundleVars, part>>
CardPart == /\ CardCreate(SmallSize) \/ CardAdd \/ CardCommit
            /\ UNCHANGED <<vars, bundleVars, part>>
FormatPart == /\ CardCommit \/ \E mb \in CardSizes : CardCreate(mb)
              /\ UNCHANGED <<vars, bundleVars, part>>
BundlesPart == BundlesNext /\ UNCHANGED <<vars, installVars, part>>
HostNext == \/ part = "bridge" /\ BridgePart
            \/ part = "install" /\ InstallPart
            \/ part = "card" /\ CardPart
            \/ part = "format" /\ FormatPart
            \/ part = "bundles" /\ BundlesPart

HostSpec == HostInit /\ [][HostNext]_hostVars

--------------------------------------------------------------------------------
(* The bridge and a plain serial port, paced and not                       *)

Mode(k, w, p, f) == [kind |-> k, wince |-> w, paced |-> p, flows |-> f]
SomeModes ==
    {Mode("tcp_listen", TRUE, TRUE, {"in"}), Mode("pty", TRUE, FALSE, {"in"}),
     Mode("tcp_connect", FALSE, TRUE, {"in"}),
     Mode("tcp_connect", TRUE, FALSE, {"out"}), Mode("pty", FALSE, TRUE, {"out"})}

--------------------------------------------------------------------------------
(* Packages that fill, overwrite, shadow, fail and overflow the volume     *)

Spell(b, style, n) == [base |-> b, style |-> style, slots |-> n]
Names == ("backup" :> Spell("BACKUP", "folded", 1)) @@
         ("system.reg" :> Spell("SYSTEM.REG", "folded", 1)) @@
         ("system.$$$" :> Spell("SYSTEM.$$$", "folded", 1)) @@
         ("program files" :> Spell("PROGRA", "lossy", 1)) @@
         ("patch" :> Spell("PATCH", "folded", 1)) @@
         ("APP.EXE" :> Spell("APP.EXE", "exact", 1)) @@
         ("a long name" :> Spell("ALONGN", "lossy", 2)) @@
         ("a longer name" :> Spell("ALONGN", "lossy", 2))

Cells(n, k) == [i \in 1..k |-> [t |-> "data", n |-> n]]
Line(sec) == [sec |-> sec, dest |-> [at |-> "", path |-> <<>>], src |-> "", keep |-> FALSE,
              root |-> "hklm", key |-> <<"k">>, name |-> "", type |-> "sz", val |-> <<>>]
Copy(where, path, src, keep) ==
    [Line("copy") EXCEPT !.dest = [at |-> where, path |-> path], !.src = src, !.keep = keep]
Reg(name, type, val) == [Line("reg") EXCEPT !.name = name, !.type = type, !.val = val]
Package(exe, version, files, lines) ==
    [whole |-> TRUE, inf |-> TRUE, storage_only |-> FALSE, program |-> "app", exe |-> exe,
     dir |-> [at |-> "disk", path |-> <<"program files">>], version |-> version,
     files |-> files, lines |-> lines]

AllSizes == 8..1024

Long == <<"a long name">>
Longer == <<"a longer name">>
SomePackages ==
    [app |-> Package(TRUE, 1, [exe |-> Cells(1, 3), txt |-> Cells(2, 1)],
               <<Copy("install", <<"APP.EXE">>, "exe", FALSE),
                 Copy("install", Long, "txt", TRUE), Reg("", "dword", <<1, 2>>)>>),
     newer |-> Package(TRUE, 2, [exe |-> Cells(3, 5), txt |-> <<>>],
               <<Copy("install", <<"APP.EXE">>, "exe", FALSE),
                 Copy("install", Long, "txt", TRUE), Copy("install", Longer, "txt", FALSE),
                 Reg("v", "sz", <<1, 92, 92>>), Reg("w", "sz", <<2>>), Reg("v", "sz", <<3>>)>>),
     shadow |-> Package(FALSE, 1, [dll |-> Cells(5, 2)],
               <<Copy("windows", Longer, "dll", FALSE), Copy("windows", Long, "dll", FALSE)>>),
     big |-> Package(FALSE, 1, [a |-> Cells(6, 4), b |-> Cells(7, 12)],
               <<Copy("disk", Long, "a", FALSE), Copy("disk", Longer, "b", FALSE),
                 Reg("w", "sz", <<1>>)>>),
     short |-> Package(FALSE, 1, [a |-> Cells(8, 1)],
               <<Copy("disk", Long, "a", FALSE), Line("short")>>),
     torn |-> [Package(FALSE, 1, [a |-> Cells(8, 1)], <<Copy("disk", Long, "a", FALSE)>>)
                 EXCEPT !.whole = FALSE]]
SomeSets == {<<p>> : p \in DOMAIN SomePackages} \cup {<<"app", "newer">>, <<"shadow", "short">>}

OldValue == [t |-> "value", name |-> "v", val |-> <<0>>]
SomeRegistry == <<[t |-> "magic"], [t |-> "key", root |-> "hklm", key |-> <<"k">>], OldValue,
                  [t |-> "key", root |-> "hklm", key |-> <<"o">>], OldValue>>
Factory == FatWriteFile(EmptyVolume, SystemReg, SomeRegistry).v
SomePicks == {<<Long, Cells(9, 4)>>, << <<"program files">> \o Longer, Cells(9, 2)>>,
              << <<"APP.EXE">>, Cells(9, 8)>>, << <<"APP.EXE">>, Cells(8, 3)>>}
================================================================================
