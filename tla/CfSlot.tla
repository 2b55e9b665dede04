--------------------------------- MODULE CfSlot --------------------------------
(***************************************************************************)
(* The storage card in the socket: a guest that uses the taskfile as it    *)
(* likes, the hot plugging of src/machine_be300.c on its schedule, and the *)
(* image file on the host.  The guest writes 1, 2, ... with each command,  *)
(* so that a word in the wrong place shows.                                *)
(***************************************************************************)
EXTENDS AtaDisk

CONSTANTS
    Plans,          \* schedules: [eject, insert, net : seconds, 0 for never]
    MaxTime,        \* the last second looked at
    MaxStale        \* largest transfer_lba that IDENTIFY may step to

ASSUME SlotAssumption == /\ Plans \subseteq [eject : Nat, insert : Nat, net : Nat]
                         /\ MaxTime \in Nat /\ MaxStale \in Nat

VARIABLES
    disk,
    file,       \* the image file on the host
    plan, now,  \* the schedule; seconds since start, as the loop last saw them
    done,       \* ejected, inserted, net_inserted
    windows,    \* card_windows_enabled: the card page is no longer the NAND's
    job,        \* the data command that is open, and the words moved for it
    media,      \* the card as the guest has written it, less what a failed save lost
    over        \* be300_destroy has run
cfVars == <<disk, file, plan, now, done, windows, job, media, over>>

NoJob == [op |-> "none", lba |-> 0, cnt |-> 0, n |-> 0]

\* main's checks and be300_create's: a network card needs an emptied socket.
Accepted(p) == p.net > 0 => p.eject > 0 /\ p.eject < p.net
Deferred(p) == p.insert > 0 /\ (p.eject = 0 \/ p.eject > p.insert)

CfInit ==
    /\ plan \in {p \in Plans : Accepted(p)}
    /\ file = Blank /\ media = Blank
    /\ \E visible \in BOOLEAN :
         disk = IF Deferred(plan) THEN ResetTaskfile(NoDisk)
                ELSE BootVisible(Loaded(NoDisk, file), visible)
    /\ now = 0 /\ done = {} /\ windows = FALSE
    /\ job = NoJob /\ over = FALSE

\* The open command ends with its buffer.
Becomes(d) == /\ disk' = d
              /\ job' = IF d.buf = <<>> THEN NoJob ELSE job
Guest == ~over /\ disk.kind = "ata" /\ UNCHANGED <<file, plan, now, done, over>>

--------------------------------------------------------------------------------
WriteTaskfile ==
    /\ Guest /\ UNCHANGED <<windows, media>>
    /\ \/ \E l \in 0..Sectors : Becomes([disk EXCEPT !.lba = l])
       \/ \E c \in 0..CountMod - 1 : Becomes([disk EXCEPT !.count = c])
       \/ \E mode \in BOOLEAN : Becomes([disk EXCEPT !.lbamode = mode])

WriteCommand ==
    /\ Guest /\ UNCHANGED <<windows, media>>
    /\ \E cmd \in Commands :
         LET d == Command(disk, cmd)
         IN /\ cmd = "identify" => disk.tlba < MaxStale
            /\ disk' = d
            /\ job' = IF d.buf = <<>> THEN NoJob
                      ELSE IF cmd = "none" THEN job
                      ELSE [op |-> cmd, lba |-> disk.lba, cnt |-> Asked(disk), n |-> 0]

Moved(d, n) ==
    /\ disk' = d
    /\ job' = IF d.buf = <<>> THEN NoJob
              ELSE [job EXCEPT !.n = @ + Taken(disk, n) - disk.pos]

ReadData ==
    /\ Guest /\ UNCHANGED <<windows, media>> /\ Readable(disk)
    /\ \E n \in 1..SectorWords : Moved(DataRead(disk, n), n)

WriteData ==
    /\ Guest /\ UNCHANGED windows /\ Writable(disk)
    /\ \E n \in 1..SectorWords :
         LET d == DataWrite(disk, [i \in 1..n |-> job.n + i])
         IN /\ Moved(d, n)
            /\ media' = IF disk.pos + n < SectorWords THEN media
                        ELSE LET first == job.n + Taken(disk, n) - disk.pos - SectorWords
                             IN [w \in Words |->
                                   LET i == w - job.lba * SectorWords
                                   IN IF i \in first .. first + SectorWords - 1
                                      THEN i + 1 ELSE media[w]]

\* The alternate port, through the card window or, before pcmcia.dll has
\* taken the page over, on the boot path.
WriteControl ==
    /\ Guest /\ UNCHANGED <<windows, media>>
    /\ \E reset, zero, boot \in BOOLEAN :
         /\ boot => ~windows
         /\ ~(reset /\ zero)
         /\ Becomes(Control(disk, reset \/ (zero /\ boot /\ disk.visible)))

WindowsOn ==
    /\ ~over /\ ~windows /\ windows' = TRUE
    /\ UNCHANGED <<disk, file, plan, now, done, job, media, over>>

--------------------------------------------------------------------------------
(***************************************************************************)
(* be300_cf_hotplug, once in a turn of the loop: each due event that has   *)
(* not fired yet, in this order.  works: whether the save succeeds.        *)
(***************************************************************************)
Due(event, t, fired) == plan[event] > 0 /\ event \notin fired /\ t >= plan[event]

HotPlugged(t, works) ==
    LET e  == Due("eject", t, done)
        d1 == IF e THEN Ejected(disk) ELSE disk
        f1 == IF e THEN WriteAtomic(disk, file, works) ELSE file
        n1 == IF e THEN done \cup {"eject"} ELSE done
        i  == Due("insert", t, n1) /\ (plan.eject = 0 \/ "eject" \in n1)
        d2 == IF i THEN Loaded(d1, f1) ELSE d1
        n2 == IF i THEN n1 \cup {"insert"} ELSE n1
        x  == Due("net", t, n2) /\ ~Present(d2)
    IN [disk |-> IF x THEN IoCardIn(d2) ELSE d2, file |-> f1,
        done |-> IF x THEN n2 \cup {"net"} ELSE n2,
        windows |-> windows /\ ~((e /\ Present(disk)) \/ i \/ x),
        lost |-> e /\ MustSave(disk) /\ ~works]

Loop ==
    /\ ~over /\ UNCHANGED <<plan, over>>
    /\ \E t \in now..MaxTime, works \in BOOLEAN :
         LET h == HotPlugged(t, works)
         IN /\ now' = t /\ Becomes(h.disk) /\ file' = h.file /\ done' = h.done
            /\ windows' = h.windows
            /\ media' = IF h.lost THEN h.file ELSE media

\* be300_destroy saves what is in the socket.
Destroy ==
    /\ ~over /\ over' = TRUE
    /\ \E works \in BOOLEAN :
         /\ file' = WriteAtomic(disk, file, works)
         /\ media' = IF MustSave(disk) /\ ~works THEN file ELSE media
    /\ disk' = NoDisk /\ job' = NoJob
    /\ UNCHANGED <<plan, now, done, windows>>

CfNext == \/ WriteTaskfile \/ WriteCommand \/ ReadData \/ WriteData \/ WriteControl
          \/ WindowsOn \/ Loop \/ Destroy
CfSpec == CfInit /\ [][CfNext]_cfVars

--------------------------------------------------------------------------------
(***************************************************************************)
(* Whatever the guest does between two accesses to the data register, the  *)
(* open READ delivers the sectors it asked for in order, the open WRITE    *)
(* puts its words there in order, and either ends with its last sector     *)
(* (cf_data_read, cf_commit_write).                                        *)
(***************************************************************************)
Address == job.lba * SectorWords + job.n
TransferInOrder ==
    /\ job.op \in {"read", "write"} =>
         /\ disk.tlba * SectorWords + disk.pos = Address
         /\ disk.trem * SectorWords - disk.pos = job.cnt * SectorWords - job.n
         /\ disk.trem \in 1..Sectors - disk.tlba
    /\ job.op = "read" =>
         \A i \in disk.pos + 1 .. SectorWords : disk.buf[i] = disk.image[Address + i - 1 - disk.pos]
    /\ "drq" \in disk.status => disk.buf # <<>>

(***************************************************************************)
(* Every sector the guest has finished writing is on the card: in the      *)
(* image while the card is in the socket, in the file once it is out or    *)
(* the machine is gone, unless a save has failed; and an image not marked  *)
(* dirty is the file's (cf_save_image, cf_eject, be300_destroy).           *)
(***************************************************************************)
CommittedIsKept ==
    /\ media = (IF disk.kind = "ata" THEN disk.image ELSE file)
    /\ disk.kind = "ata" /\ ~disk.dirty => disk.image = file

(***************************************************************************)
(* "Insert the primary --cf image s seconds after start (absent until then *)
(* unless --cf-eject-after is earlier)" (usage of src/main.c).             *)
(***************************************************************************)
InsertedWhenDue == plan.insert > 0 /\ now >= plan.insert => "insert" \in done
================================================================================
