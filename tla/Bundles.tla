--------------------------------- MODULE Bundles -------------------------------
(***************************************************************************)
(* The launcher's virtual machines (src/launcher): one directory each,     *)
(* <name>.be300vm, with a config.json and the images imported into it.     *)
(* The configuration names its images by absolute paths, here <<bundle,    *)
(* image>>.  The manager shows the list of the last refresh; the settings  *)
(* work on a copy of one entry of it until Save or Cancel.                 *)
(*                                                                         *)
(* Any write may fail, and the launcher may be ended at any time.  Of an   *)
(* image it matters whether it is "whole" or "broken": empty or cut short. *)
(***************************************************************************)
EXTENDS Naturals, FiniteSets

CONSTANTS
    VmNames,    \* names of virtual machines
    Images,     \* "nand" and those of the CF slots "cf0" and "cf1" that are told apart
    OwnSource,  \* an image may be chosen from the bundle it is imported into
    MaxFailures \* user actions in which an operation of the host fails
ASSUME BundlesAssumption ==
    /\ "nand" \in Images /\ Images \subseteq {"nand", "cf0", "cf1"}
    /\ "none" \notin VmNames
    /\ OwnSource \in BOOLEAN /\ MaxFailures \in Nat

VARIABLES
    disk,     \* the bundles there are: config.json and the images of each
    list,     \* launcher_state_t.vms, by name: the configuration of each
    selected, \* the entry of list that is selected, or "none"
    edit,     \* s_vm of the settings; its name is "none" while they are closed
    orphaned, \* (observer) bundles renamed when their configuration could not be saved
    failures

bundleVars == <<disk, list, selected, edit, orphaned, failures>>

NoImage == <<"none", "none">>
Defaults == [i \in Images |-> NoImage]
Closed == [name |-> "none", cfg |-> Defaults]
Bundle(config, cfg) == [config |-> config, cfg |-> cfg, file |-> [i \in Images |-> "missing"]]
With(d, n, b) == [m \in (DOMAIN d) \cup {n} |-> IF m = n THEN b ELSE d[m]]
Without(d, ns) == [m \in (DOMAIN d) \ ns |-> d[m]]

\* What a source chosen in the file dialog holds
Elsewhere == <<"elsewhere", "image">>
Sources == {Elsewhere} \cup ((DOMAIN disk) \X Images)
Holds(d, src) == IF src = Elsewhere THEN "whole"
                 ELSE IF src[1] \in DOMAIN d THEN d[src[1]].file[src[2]] ELSE "missing"

--------------------------------------------------------------------------------
(* The operations of vm_bundle.c, as the set of their outcomes.            *)

\* vm_config_save: config.json is opened for writing and written over; the newline
\* after the text, or the close, may be all that fails.
Config(d, n, state, cfg) == [d EXCEPT ![n] = [@ EXCEPT !.config = state, !.cfg = cfg]]
Saves(d, vm) ==
    {[ok |-> FALSE, d |-> d]} \cup
    IF vm.name \notin DOMAIN d THEN {}
    ELSE {[ok |-> TRUE, d |-> Config(d, vm.name, "whole", vm.cfg)],
          [ok |-> FALSE, d |-> Config(d, vm.name, "whole", vm.cfg)],
          [ok |-> FALSE, d |-> Config(d, vm.name, "torn", Defaults)]}

\* copy_file: opening the copy empties it, also when it is the source.
CopyFile(d, src, to) ==
    {[ok |-> FALSE, d |-> d]} \cup
    IF Holds(d, src) = "missing" \/ to[1] \notin DOMAIN d THEN {}
    ELSE {[ok |-> TRUE, d |-> [d EXCEPT ![to[1]].file[to[2]] =
                                 IF src = to THEN "broken" ELSE Holds(d, src)]],
          [ok |-> FALSE, d |-> [d EXCEPT ![to[1]].file[to[2]] = "broken"]]}

\* vm_bundle_import_nand, vm_bundle_import_cf
Import(d, vm, image, src) ==
    UNION {IF ~c.ok THEN {[ok |-> FALSE, d |-> c.d, vm |-> [vm EXCEPT !.cfg[image] = NoImage]]}
           ELSE LET to == [vm EXCEPT !.cfg[image] = <<vm.name, image>>]
                IN {[ok |-> r.ok, d |-> r.d, vm |-> to] : r \in Saves(c.d, to)} :
           c \in CopyFile(d, src, <<vm.name, image>>)}

\* vm_bundle_create; its directory stays when the save fails.
Creates(d, name) ==
    IF name \in DOMAIN d THEN {[ok |-> FALSE, d |-> d]}
    ELSE {[ok |-> FALSE, d |-> d]}
           \cup Saves(With(d, name, Bundle("missing", Defaults)), [Closed EXCEPT !.name = name])

\* rebase_owned_path of every path, after the rename
Rebased_NandOnly(cfg, old, new) ==
    [cfg EXCEPT !["nand"] = IF @[1] = old THEN <<new, "nand">> ELSE @]
Rebased(cfg, old, new) ==
    [i \in Images |-> IF cfg[i][1] = old THEN <<new, cfg[i][2]>> ELSE cfg[i]]

\* vm_bundle_rename
Renames(d, vm, new) ==
    IF new = vm.name THEN {[ok |-> TRUE, d |-> d, vm |-> vm]}
    ELSE {[ok |-> FALSE, d |-> d, vm |-> vm]} \cup
         IF new \in DOMAIN d \/ vm.name \notin DOMAIN d THEN {}
         ELSE {[ok |-> TRUE, d |-> With(Without(d, {vm.name}), new, d[vm.name]),
                vm |-> [name |-> new, cfg |-> Rebased(vm.cfg, vm.name, new)]]}

\* vm_bundle_delete: what of the directory cannot be removed stays.
Remains(b, gone) ==
    [config |-> IF "config" \in gone THEN "missing" ELSE b.config,
     cfg |-> IF "config" \in gone THEN Defaults ELSE b.cfg,
     file |-> [i \in Images |-> IF i \in gone THEN "missing" ELSE b.file[i]]]
Deletes(d, name) ==
    IF name \notin DOMAIN d THEN {d}
    ELSE {Without(d, {name})}
           \cup {With(d, name, Remains(d[name], gone)) : gone \in SUBSET (Images \cup {"config"})}

\* vm_bundle_list leaves out a bundle whose config.json is not JSON; one that
\* has none comes with the defaults.
Listed(d) == [n \in {m \in DOMAIN d : d[m].config # "torn"} |-> d[n].cfg]

\* launcher_refresh_vms.  An index is kept, whatever the order is now.
Refresh(late) ==
    /\ list' = Listed(disk')
    /\ orphaned' = late \cap DOMAIN disk'
    /\ IF DOMAIN list' = {} THEN selected' = "none" ELSE selected' \in DOMAIN list'

--------------------------------------------------------------------------------
BundlesInit == /\ disk = Without([n \in VmNames |-> Bundle("missing", Defaults)], VmNames)
               /\ list = Listed(disk) /\ selected = "none" /\ edit = Closed /\ orphaned = {}
               /\ failures = 0

InManager == edit = Closed
Goes(ok) == /\ ok \/ failures < MaxFailures
            /\ failures' = IF ok THEN failures ELSE failures + 1

Select == /\ InManager
          /\ selected' \in DOMAIN list
          /\ UNCHANGED <<disk, list, edit, orphaned, failures>>

\* The wizard's Create: every image is optional, and the last save may fail.
Imported(rs, image, src) ==
    IF src = NoImage THEN rs
    ELSE UNION {{[x EXCEPT !.ok = @ /\ r.ok] : x \in Import(r.d, r.vm, image, src)} : r \in rs}
AllImported(new, srcs) ==
    LET next(rs, i) == IF i \in Images THEN Imported(rs, i, srcs[i]) ELSE rs
    IN  next(next(next({new}, "nand"), "cf0"), "cf1")
CreateVm ==
    /\ InManager
    /\ \E name \in VmNames, srcs \in [Images -> Sources \cup {NoImage}] :
       \E made \in Creates(disk, name) :
          IF ~made.ok THEN disk' = made.d /\ Goes(FALSE) /\ UNCHANGED <<list, selected, orphaned>>
          ELSE LET new == [ok |-> TRUE, d |-> made.d, vm |-> [Closed EXCEPT !.name = name]]
               IN /\ \E r \in AllImported(new, srcs) : \E last \in Saves(r.d, r.vm) :
                       disk' = last.d /\ Goes(r.ok /\ last.ok)
                  /\ Refresh(orphaned)
    /\ UNCHANGED edit

Edit == /\ InManager /\ selected # "none"
        /\ edit' = [name |-> selected, cfg |-> list[selected]]
        /\ UNCHANGED <<disk, list, selected, orphaned, failures>>

\* "Replace..." of the settings: the import saves at once.
Replace(image, src) ==
    /\ ~InManager
    /\ src \in Sources
    /\ src = <<edit.name, image>> => OwnSource
    /\ \E r \in Import(disk, edit, image, src) : disk' = r.d /\ edit' = r.vm /\ Goes(r.ok)
    /\ UNCHANGED <<list, selected, orphaned>>

\* Save renames first; when only the save fails the settings stay open.
SaveSettings ==
    /\ ~InManager
    /\ \E new \in VmNames : \E r \in Renames(disk, edit, new) :
          \E last \in IF r.ok THEN Saves(r.d, r.vm) ELSE {[ok |-> FALSE, d |-> r.d]} :
             /\ disk' = last.d /\ Goes(last.ok)
             /\ LET moved == r.ok /\ new # edit.name
                    lost == IF moved /\ (~last.ok \/ edit.name \in orphaned) THEN {new} ELSE {}
                IN IF last.ok THEN edit' = Closed /\ Refresh(orphaned \cup lost)
                   ELSE /\ edit' = r.vm /\ orphaned' = orphaned \cup lost
                        /\ UNCHANGED <<list, selected>>
\* The list is not refreshed.
Cancel == /\ ~InManager
          /\ edit' = Closed
          /\ UNCHANGED <<disk, list, selected, orphaned, failures>>

DeleteVm == /\ InManager /\ selected # "none"
            /\ disk' \in Deletes(disk, selected)
            /\ Goes(selected \notin DOMAIN disk')
            /\ Refresh(orphaned)
            /\ UNCHANGED edit

\* be300_run with a copy of the selected configuration; what the guest makes
\* of an image is not told apart.
RunVm == /\ InManager /\ selected # "none"
         /\ list[selected]["nand"] # NoImage
         /\ UNCHANGED <<disk, edit, failures>>
         /\ Refresh(orphaned)

Relaunch == /\ edit' = Closed
            /\ UNCHANGED <<disk, failures>>
            /\ Refresh(orphaned)

BundlesNext == \/ Select \/ CreateVm \/ Edit \/ SaveSettings \/ Cancel \/ DeleteVm \/ RunVm
               \/ Relaunch \/ \E i \in Images, src \in Sources : Replace(i, src)
BundlesSpec == BundlesInit /\ [][BundlesNext]_bundleVars

--------------------------------------------------------------------------------
NamesOwn(n, cfg) == \A i \in Images : cfg[i] # NoImage => cfg[i] = <<n, i>>

(***************************************************************************)
(* Whatever is created, imported, renamed, cancelled and deleted, and      *)
(* whichever save fails, a virtual machine names, in its configuration and *)
(* in the list a Run takes it from, no image but those of its own bundle:  *)
(* no machine boots from, and writes, another's images.  The exception is  *)
(* a bundle whose configuration could not be saved after its directory was *)
(* renamed (vm_bundle_rename and vm_bundle_save in launcher_settings_draw).*)
(***************************************************************************)
NamesOwnImages ==
    /\ \A n \in (DOMAIN disk) \ orphaned : NamesOwn(n, disk[n].cfg)
    /\ \A n \in (DOMAIN list) \ orphaned : NamesOwn(n, list[n])

(***************************************************************************)
(* vm_bundle.h says of the imports: "File copy NAND/CF source into the     *)
(* bundle."  The image a successful Replace leaves holds what the source   *)
(* held (copy_file).                                                       *)
(***************************************************************************)
ImportIsCopy ==
    [][\A i \in Images, src \in Sources :
          Replace(i, src) /\ edit'.cfg[i] # NoImage
              => disk'[edit.name].file[i] = Holds(disk, src)]_bundleVars
================================================================================
