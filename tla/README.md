# The BE-300 emulator: a verification project

This directory specifies and verifies parts of the Casio BE-300 emulator: TLA+
modules translated from `src/src/*.c`, TLC configurations that check them on
small instances, and theorems that TLAPS proves for every value of the
constants. `PROJECT.json` lists components, runs, mutants (small changes of the
modelled code that each property must notice), the source lines behind each
definition, the hazards and the theorems.

Paths below are relative to the repository; the emulator proper is in `src/src`
(written `src/` for short).

## 1. Inventory

The emulator is one process. `machine_be300.c` runs one loop: a slice of guest
instructions, then a tick of the devices, then the next slice. Device code never
blocks and is never re-entered by another thread (audio output and the UI's
presentation excepted), so the hard behaviours come from three directions:

* *the guest*, whose register accesses arrive in any order between ticks;
* *host peers* at the other end of sockets and PTYs, which are truly concurrent:
  they connect, send, stop reading and vanish at any moment, and the emulator
  sees it at its next system call;
* *nested calls*: a handler that calls a device whose callback changes the
  handler's own state (a bus reset that completes a control request, a failed
  write that tears the session down).

| component | state it keeps | operations | talks to | what is hard, what makes it correct |
|---|---|---|---|---|
| **host byte stream** `host_chardev.c` | kind (PTY, TCP or Unix socket, listening or connecting), listening and connected descriptors, `connecting`, `new_peer`, redial time | open, close, tick (accept / redial), ready (ends a connect in flight), take_new_peer, drop_peer, reopen_pty | owned by the USB device, the serial bridge | non-blocking connects that fail later; each peer reported once, to an owner that can use it; redialling never stops |
| **USB function controller** `hw/usbf.c` | enable and mask registers, latched events, SETUP packet and its read position, OUT slots, IN slots, interrupt-IN buffer, address, configuration, `ctrl_pending` | about forty register reads and writes, DMA in both directions, bus calls (attach, reset, control, OUT, IN) | guest (usb.dll), usbredir device, interrupt routing | cached interrupt level; read side effects; a request ended by the guest, a second SETUP, a reset or a detach; data of one attachment in the next |
| **usbredir device** `usbredir_dev.c` | hello seen, connected, control request, two bulk queues of 64 (rings), interrupt polling, rx and tx buffers | tick (nine phases), packet handlers, bus reset, connect and disconnect, peer_lost, shutdown | host byte stream, controller, cable state | any write may fail and run `peer_lost` in the middle of the handler that wrote; cancel against completion; half-sent answers; sessions that follow each other |
| **serial bridge** `pcconnect_bridge.c` | cable and link, UART ready / configured, idle-mark filter, rx, pre-open and tx rings, pacing, tee log | tick (drain tx, drain rx), guest reads and writes, FIFO reset, UART set-up, guest reset, dock edge | host byte stream, dock serial port | bytes queued across a dock edge, a reset or a new peer; pacing armed by one backlog and applied to the next; the wake of the guest is an edge |
| serial back-ends `serial_backends.c`, `pcconnect.c` | none but the choice of a back-end | forward | UARTs, bridge, keyboard dock | nothing: a table of functions |
| **serial dock** `devices/serial_dock.c` | sub-sources of AA008004 with their mask, causes in AA001054, docked, armed insertion and its deadline, level of GIRQ0-4, last woken depth | register accesses, poll, insertion, wake from the bridge or the keyboard, CPU reset | bridge, Stowaway keyboard, interrupt routing | a cached level recomputed in a dozen places; the second stage of the insertion swallowed by the acknowledgement of the first; edges of a line that is up |
| **Stowaway keyboard** `stowaway.c`, `ui_stowaway.c` | two rings (received, held back), probe, modem lines, chords holding Fn, keys held by the user | keys, DTR/RTS, FIFO reset, reads, focus lost | UI, serial dock | held-back keys against later ones; Fn with refused presses and across resets |
| interrupt routing `be300_devices.c`, `devices/nand_window.c` | GIRQ source words, enables, cached levels of CF, jacket, USB and audio | accesses to the companion chip's register space, dispatch to regions | every device, CPU interrupt lines | a level computed from five devices and cached: a path that changes one of them without looking at the line loses an edge |
| **NAND flash** `hw/nand.c`, `hw/nand_restore.c` | cells and spare bytes, command and address phase, program buffer, stream position, block allocation, restore buffer | command / address / data cycles on four register sets, program, erase, DMA, save | guest boot ROM and drivers, image file | a warm reset in the middle of a sequence; state one register set leaves for another; image with or without spare bytes |
| **CF socket and cards** `hw/cf.c`, `hw/cf_*.c`, `hw/el3.c`, `hw/xi825.c`, `hw/wl54cf.c`, `hw/wifi_security.c`, `hw/modem.c` | socket power and insertion, ATA task file and sector buffer, packet rings, FIFOs and buffers, association and keys | insertion and removal, task file / I/O accesses, frames from the host network | guest drivers, host network, routing | a task file rewritten in a transfer; ejecting with a failing save; rings and queues at their limits; answers of an earlier handshake |
| **companion-chip peripherals** `hw/rtc.c`, `pmu.c`, `cmcu.c`, `piu.c`, `aiu.c`, `battery.c`, `eeprom.c`, `jacket.c`, `siu.c`, `lcd.c`, `cmu.c` | counters, alarms, reset causes, touch pages, audio buffers, bus phase | register accesses, ticks by guest time | guest, UI, routing | alarms at a wrap and in pieces; a deadline on a counter the guest may rewrite; buffers drained while they are refilled |
| **input** `devices/input.c`, `ui_buttons.c`, `ui_button_mask.c` | keys down, key change pending | UI events, the guest's sample and acknowledgement | UI, touch panel, routing | a change between the sample and the acknowledgement |
| **application installer** `cbea_install.c`, `be300_install_main.c`, `web/main_web.c` (card builder) | the image in memory, its FAT, directories and registry snapshot | install one package or several, one write at the end; format a card, add files | files | one step of several fails; the disk runs full; a geometry the parser does not read back |
| **bundles and launcher** `launcher/*.c` | bundle directories, configurations naming images by absolute path, the list shown, the settings being edited | create, import, rename, save, delete, run | files | a save that fails after a rename; a copy of a file to itself; a stale list |
| machine and main loop `machine_be300.c`, `main.c` | everything above, run and suspend state | set-up, loop, hot plugging, write-back | CPU core, devices | order of ticks, schedules that cross |
| user interface `ui*.c` | window, buttons | presentation | input | none the guest depends on |
| `host_io.c`, `file_util.c`, `be300_probe.c`, `devices/boot_rom.c`, `devices/gate_stall.c`, `devices/display_ops.c`, `devices/wince_aux.c` | little | I/O helpers, tools, instruction hooks for a known firmware | | tied to guest code addresses |

Bold components have modules (section 2). The core logic that a test reaches
least is the pair of links to the outside world: a host stream whose peer comes
and goes, under it a device the guest drives, and queues in between. Around it
are the parts that keep what the guest stores and the chip that tells it the
time and what the user does:

```
  host peer ==socket==> HostChardev <--- UsbRedir ---> Usbf <--- guest (usb.dll)
  host peer ==socket==> HostChardev <--- SerialBridge <--------- guest (serial port)
                                              | wake                  ^ edge
  user's keys ----------------> Stowaway ---> SerialDock --- GIRQ0-4 -+
  pen, buttons, sockets ------> Piu, Girq --------------- GIU line 0 -+
  image files <== machine ====> AtaDisk, Nand <------------ guest drivers
  host network ---------------> Ethernet | Xi825 | Wl54cf <-- driver
  package files --> Installer --> Fat on an image;   launcher --> Bundles
```

## 2. The modules and the code

A component whose state is a C struct is a module of *operators on records*: one
field per member, one operator per function, so that a component that owns
another (usbredir owns a chardev and a controller) composes them by function
application exactly where the code makes the call. A *machine* module adds
VARIABLES, Init, the actions, Next and Spec around such operators.

| module | stands for | kind |
|---|---|---|
| `HostChardev` | `host_chardev.c`: one operator per operation, `ch` a record of the struct | operators |
| `HostChardevMachine` | the stream with an owner (usbredir's way of using it, plus the bridge's `ReopenPty`), the redial timer and a peer that is there or not; its one theorem | machine |
| `Usbf` | `hw/usbf.c`: registers, FIFOs, events, `ctrl_done` as a list of outcomes | operators |
| `UsbfMachine` | the controller with a guest and a bus that do anything in any order | machine |
| `Pipe` | abstract: a FIFO whose Take may be of several items and may be flushed | abstract specification |
| `Ring` | the packet slots of `usbf.c` and the transfer queue of `usbredir_dev.c` as arrays with a head and a count | operators |
| `TransferPipe` | abstract: accepted transfers leave from the front in chunks, or wholly when cancelled | abstract specification |
| `UsbOutPath` | the OUT path of both files at the level of array indices: transfer ring, packet ring, read position | machine |
| `UsbRedir` | `usbredir_dev.c`, composed with `HostChardev` and `Usbf`, with a peer that checks what it is told | machine |
| `SerialBridge` | `pcconnect_bridge.c`, composed with `HostChardev`, with a guest and a peer | machine |
| `Stowaway` | `stowaway.c`: the keyboard with its two rings | operators |
| `SerialDock` | `serial_dock.c`: the latch, on top of `Stowaway` | operators |
| `DockMachine` | the dock with a guest, the user's keys (`ui_stowaway.c`), and the turn of the main loop | machine |
| `Stream` | abstract: bytes come out in order, each once; what is lost is lost from the front and visibly | abstract specification |
| `Girq` | the gates of GIU line 0: buttons, CompactFlash socket, jacket socket | operators |
| `Piu` | `piu.c`: the touch panel's sequencer, its one-deep queue of contact changes, its two pages | operators |
| `Companion` | one source of line 0 at a time, with the driver of Windows CE for it, the host and the machine's tick | machine |
| `Aiu` | `aiu.c`: the wave output's two buffers, with the wave driver | machine |
| `Resets` | `pmu.c`, `cmcu.c`: HALTimer and watchdog | machine |
| `Clocks` | `rtc.c` (alarm), `battery.c` | machine |
| `Eeprom` | `eeprom.c`: the bus state machine, with a master that may give up at any edge | machine |
| `AtaDisk` | `cf.c`: task file, sector buffer, image and image file | operators |
| `CfSlot` | `AtaDisk` with a guest, and `be300_cf_hotplug` on its schedule | machine |
| `Nand` | `nand.c`, `nand_restore.c`: all ways to the cells | operators |
| `NandGuest` | `Nand` under the register sequences of boot ROM, loader and nanddisk.dll, warm resets, and the image file | machine |
| `Ethernet`, `Xi825`, `Wl54cf` | the four network cards, `Ethernet` those of `cf_ne2000.c` and `el3.c`; `Wl54cf` with `wifi_security.c`, the access point's handshake | operators |
| `NetCards` | one network card at a time with its driver, its supplicant and the network | machine |
| `Fat` | the FAT16 part of `cbea_install.c` | operators |
| `Installer` | the rest of `cbea_install.c`, `be300_install_main.c` and the web card builder | machine |
| `Bundles` | `launcher/vm_bundle.c` with the manager, wizard and settings of the launcher | machine |
| `HostChardevLemmas`, `UsbfProofs`, `UsbRedirProofs`, `HostProofs`, `DockProofs`, `CompanionProofs`, `MediaProofs` | theorems, `HostProofs` about `SerialBridge` and `Bundles`, `MediaProofs` about `CfSlot`, `NandGuest` and `NetCards` | proofs |
| `MCUsbf`, `MCUsbRedir`, `MCLive`, `MCDock`, `MCMedia`, `MCCompanion`, `MCHost` | workloads for TLC; the last four compose parts that share nothing, a variable `part` says which one a behaviour is of | model checking |

### HostChardev

The result of a system call is an argument of the operator (`ChTickResults`,
`ChReadyResults` give the results that may occur in a state), so an owner
chooses it with `\E`. Descriptors are small numbers, the redial time is the flag
`due`. Addresses, option parsing and socket options are left out.
`ImmediateRedial` says whether a redial's `connect()` may complete at once: it
may on a Unix socket, it does not on a non-blocking TCP socket.

### Usbf

Interrupt state is two levels as in the code: `latched` event bits masked per
register, collected in a top status word, masked again. `usbf_notify` only calls the
machine back, which recomputes the level (`be300_devices.c`); the model keeps the
level last computed in `irq`, so that a missing call shows. `usbf_commit` and
`usbf_dma` are operators of whole calls; registers that are only stored and read
back are not modelled.

### UsbRedir

`usbredir_dev_tick` is a sequence of handlers; the variable `pc` is the handler
that runs next. Each is one action that contains every call it makes. A handler
that writes has several outcomes (the packet was written, stayed in the buffer,
or the peer was lost), therefore a handler is a function from the state `d` to
the set of states it may leave. `on_ctrl_done` runs inside calls to the
controller (`Access`), as in the code. The peer's knowledge is the record
`view`, updated as packets are delivered; `view.bad` is set by a packet that
makes no sense to a usbredir host.

The peer acts between ticks only. What it sends in a tick is read in the next
one, and its leaving in a tick can be seen in it only as a failing write, which
is modelled in each handler that writes (`fails` names those that may).

### SerialBridge

The tick is cut at its system calls (`pc`), the peer sends and closes between
any two of them, and the guest and the dock act between ticks. The C code reads
and writes up to a buffer at a time; that is modelled as as many one-byte reads
and writes, because the per-byte code is what decides (idle filter, pre-open
cap, ring full) and the loops may end after any number of bytes. The pacing
clock is a free choice of how many bytes are due: no property depends on a
bound of the rate. `got` and `put` are history variables, what the guest and the
peer received last.

Two details met while modelling, which are no faults: the "stash" that
`pcconnect_bridge_set_rx_ready_callback` keeps is erased by the `memset` of a
later configure, an order the program never uses; and the comment on
`pcconnect_bridge_note_uart_config` speaks of a port that is "not ready" where
the code tests `configured`, the stronger condition, which the properties need.
Bytes the guest writes between the reopening of a PTY and the next tick are
cleared by that tick's "new peer"; `OutIsStream` counts it as a loss with the
peer.

### SerialDock, Stowaway and DockMachine

The keyboard calls `be300_stowaway_signal_uart_irq` in the middle of its
functions. Two calls have the effect of one and nothing between them looks at
the latch, so the operator sets the flag `sig` and the machine raises the event
when the operation ends (`Kbd`). A key byte carries the number of the key event
that made it (`n`), which the code does not have; `InTypingOrder` compares them.
The loop of `ui_stowaway_focus_lost` over the keyboard's values is the recursive
function `Released`.
`edge` is the latch of the GIU, set when the line rises or is raised again
(`be300_pcconnect_irq_reedge` lowers and raises it). The pending bits are sets
of names, `docked`, `armed` and `due` the insertion with its deadline.

The cable's bytes are the bridge's: here they are a number `n`, and a release
into an empty FIFO calls back (`Counted`), which is what `WakeNotLost` of
`SerialBridge` says of the bridge.

Left out: the write of AA008684, whose region belongs to the companion's SIU so
that the branch of `be300_pcconnect_note_comm_write` is never reached; the value
of the socket register, a function of `docked`; tracing.

Three things the code does that no property claims otherwise, listed as hazards:

* a FIFO reset, a lowered DTR or a foreign byte in the middle of a probe forgets
  the probe and keeps the held-back keys, which later keys then overtake
  (stowaway.c:155). `InTypingOrder` is therefore claimed for an *orderly* driver:
  one that lets a probe finish, lowers DTR together with RTS and raises RTS with
  an empty FIFO;
* the level check of the poll compares the number of bytes with the number it
  last woke for (serial_dock.c:583): a key that comes between the guest's read
  and its late acknowledgement, at the same depth, raises nothing until the
  next;
* a chord whose press was refused is released all the same
  (stowaway.c:336), so Fn may be released while a later chord is down. The
  opposite, Fn held for ever, cannot happen (`FnNeverStuck`).

### Girq, Piu and Companion

A source of GIU line 0 is a *word* (bit 3 lets it into the summary register, bits
2 and 3 onto the line), a *global gate*, and the *level last given to the CPU*,
which the code changes only where it calls an update function. `LineLooked`,
`Looked` and `Lined` are those calls; an access that makes none leaves the level
alone, so a missing call shows in `LineFollowsSource`. The drivers are what the
repository's documents and hooks say Windows CE does: the button handler samples
the keys and writes AA000014 twice, each write acknowledging; the CF handler
clears the source in the OAL and reads AA00A03C later; the touch driver
acknowledges what it has read and restarts the sequencer. `Piu`'s time is one
flag, `ripe`: the conversion's time has come.

`ChangesKept` names the window it does not cover: a key that changes between the
handler's sample and its last acknowledgement (`late`) is in the keys the driver
will next see only if another change follows. Two guest writes take the card's
request away and leave the line up until the next access; a write of AA001B58
changes the jacket's mask and the line follows at the next tick. Both are the
exceptions `LineFollowsSource` states. A write of the configuration register of a
modem or GPS card (cf.c:1260), which may raise the card's request without looking
at the line, is left out with those cards.

### Aiu, Resets, Clocks, Eeprom

Each with its user; time is a number that an action advances. In `Aiu` a frame is
`<<block, index>>`, the blocks numbered by the driver, so a skipped or repeated
frame shows; `late` is set when the driver lets a buffer run out, which is the
driver's fault and not the unit's. In `Resets`, `truth` keeps what really went
by since each timer was armed, which neither timer has; `WritesCount` is the
guest's rewriting of the CPU's Count. `Clocks` has the RTC's 48-bit registers as
two digits, because what matters is that they are written in parts: the guest
sets an alarm, sets the clock and serves the interrupt in any order, each part a
step, and its handler clears RTCINT before it looks at the time. The clock
wraps, as `rtc_tick` lets it. Its exception is `alarm.back`: when the clock goes
back behind an alarm that had come, the compare has gone off and does so again
only after ECMP is written. `Eeprom` has a bit per edge; a byte has `Width` bits.

### AtaDisk and CfSlot

The guest writes 1, 2, 3 ... with each command, so that a word in the wrong place
shows. `media` is what the guest has been told is on the card. Any task-file
register may be rewritten at any time, also inside a transfer; the alternate
control register is reached through the card window and, before pcmcia.dll has
taken the page over, by the boot path. `HotPlugged` is `be300_cf_hotplug` in the
order of its three tests.

### Nand and NandGuest

A page is `PageCells` cells in four ranges (first data, second data, first
spare, the spare bytes past 520), a cell a set of bits, so that programming is
intersection and erasing gives all bits. A *script* is the register accesses of
one operation as the ROM, the loader or the driver makes them; the warm reset
cuts it off anywhere and leaves the chip as it is. `flash` is the specification:
the cells as the operations that reached their confirming access leave them.

### Network cards

One driver per card makes the accesses its card wants (`NeNext`, `ElNext`,
`XiNext`, `WlNext`); `wire` is the back end's queue, `Tick` the poll of the main
loop. `owed` are the frames the card took and the driver has not read. Cells are
tagged `<<frame, k>>`, so a mixed or torn frame shows. Cryptography is reduced to
what the handshake needs: a key is the nonce it was made from, and a message
authentication code is right if made with the key the access point derives.

### Fat, Installer, Bundles

`Fat` works on a volume of clusters with an allocation table, directories (long
and short names) and cells; every operation gives the volume it leaves also when
it fails half way, in the order of the writes in the code. `Installer` runs
packages on a scratch copy, as `cbea_install` does, and commits in one write;
`Effected` says what an install promises in terms of files and registry values.
The card formatter is checked for every whole number of megabytes offered.
`Bundles` keeps directory, configuration (`whole`, `torn` or `missing`), images
(`whole` or `broken`), the list last shown and the settings in progress; every
write may fail (`MaxFailures`), and the launcher may be ended at any time.

## 3. Runs

All runs together take some eight minutes on two workers; `usbf`, `redir`,
`dock` and `media` take about a minute each.

| run | module | checks | what it shows |
|---|---|---|---|
| `usbf` | MCUsbf | `IrqLineCurrent`, `AnsweredOnce`, `NothingLeftWhenDetached`, `EndpointsArePipes`, `PathIsPipe` | registers and bus in any order: the level is current, a request is answered once, both bulk endpoints are pipes; and, at the level of array indices, transfer ring and packet ring give each OUT byte once and in order, with cancels from the middle and 16-bit wrap |
| `redir` | MCUsbRedir | `PeerSeesProtocol`, `OneHolder`, `ViewAgrees`, `LeavesAnswered` | the session seen by each peer; each request is held in exactly one place until it is answered |
| `redir_live` | MCLive | `NewPeerIsUsable`, `Redials`, `EventuallyOffered`, `RequestsAnswered` | over all five kinds of stream, a report of a peer belongs to a usable descriptor and with the other end there the stream is served again and again; under a fair loop the device is offered and requests are answered |
| `dock` | MCDock | `DockLineCurrent`, `NewByteIsAnEdge`, `StagedInsertion`, `InsertedAgain`, `FnNeverStuck`, `InTypingOrder` | the interrupt line and its edges agree with the latch whatever the guest writes; keys keep their order and Fn does not stick; a reset is followed by a new insertion |
| `media` | MCMedia | `TransferInOrder`, `CommittedIsKept`, `NandAsCommanded`, `ReadsDeliver`, `FramesInOrder`, `Announced`, `SecureBeforeData` | storage: transfers move the sectors they name, what was written is kept, no NAND operation is disturbed by what another left behind; network cards: frames whole, in order and announced, and no data before the handshake of this association |
| `companion` | MCCompanion | `LineFollowsSource`, `ChangesKept`, `LastContactTrue`, `HeldPenIsSampled`, `SoundInOrder`, `ResetOnlyWhenDue`, `ClocksKeepTime`, `EepromAnswers` | every source reaches its line and no change is lost but in the window named; the wave plays in order, no reset comes early, alarms come unless the clock is set back behind them, the EEPROM answers wherever it was left |
| `host` | MCHost | `WakeNotLost`, `InIsStream`, `OutIsStream`, `InstallAtomic`, `VolumesSound`, `NamesOwnImages` | the serial bridge keeps both directions streams and loses no wake; an install is all or nothing and volumes stay sound; a machine names only its own images |
| `chardev_redial` | HostChardevMachine | `ReportedOncePerPeer` violated | finding 1 |
| `redir_pop` | MCUsbRedir | `CountInRange` violated | finding 2 |
| `redir_offer` | MCUsbRedir | `ConnectedMeansOffered` violated | finding 3 |
| `cf_hotplug` | MCMedia | `InsertedWhenDue` violated | finding 4 |
| `bundle_import` | MCHost | `ImportIsCopy` violated | finding 5 |

**Bounds: links.** Queues are cut to one to four entries: large enough to be
empty, partly full, full and (in `PathIsPipe`) wrapped round, which is all their
code distinguishes. The usbredir runs have queues of one, because their questions
are about who holds a request and not about its place in the queue. In `usbf` a
packet has up to two bytes, in ascending order, so that reads may end inside it
and a byte out of its place shows; both IN slots and two OUT slots exist. Each
workload joins one endpoint or the control requests with the attachment and, but
for the two that watch the pipes, with the interrupt registers; the address is
set in one of them. The bridge keeps the order of the caps, 2 = FIFO =
pre-open < backlog threshold < ring = 4. Two byte values suffice to tell an idle
mark from data, and to see an exchange of two bytes. In `dock` the keyboard's
rings hold two bytes, fewer than a chord and its release make, so both are
empty, full and overwritten; two keys that need Fn overlap in every order within
three key events; the cable is reset twice, because the first reset arms the
first insertion and the second finds one.

**Bounds: storage and network.** The card has two sectors of two words, so a
transfer may end inside a sector, at its end and past the card's. A sector count
is a byte in the code and has modulus two here, so that "0 means all" occurs. Three
schedules put ejection, insertion and the network card in the orders the code
tells apart, over three times; IDENTIFY may step the transfer address by one. The NAND chip has two blocks of two pages, one of them marked bad in
one image and the file of half the chip's length in the other; two operations
and one reset or failed save, since what one operation leaves can disturb only
the next. The NE2000 ring has four pages and takes three frames of up to two
pages: it wraps inside a frame and overruns. The other cards have FIFOs of two
frames, or queues of two and four buffers, and two to three frames. A card is
reconfigured once or twice.

**Bounds: companion and host.** Two keys; four insertions and ejections. Two
halves of a clock register with three values each; a window of four cycles on a
Count that wraps at ten; buffers of none, two and three frames with the batch
limits of the code in proportion. The EEPROM's byte has two bits and three
transactions follow each other. The installer's volume has sixteen clusters of
three cells, five directory entries to a cluster and eight in the root: six
packages fill it, overwrite and shadow files, fail in their last line and
overflow it, and the guest deletes one file between runs. Card sizes are every
megabyte from 8 to 1024. The launcher has two names, two images and one failure,
enough for a rename that fails in its save and is followed by a retry.

**Workloads and modes.** The product of everything a guest and a peer may do is
large and mostly independent. `Workloads` (usbf), `Scenarios` (usbredir),
`Modes` (bridge, dock), `Sources` and `Drivers` (companion) and `part` are
*restrictions on the environment*: a behaviour picks one in Init and keeps to
it. They never change what the code does. The theorems hold for every set of
workloads and modes, thus also for the unrestricted one. In the usbredir runs,
scenario `Bulk` has both directions, cancels and bus resets; `Control` has class
requests with all five ways to end one; `Peers` has a full socket, peers that
leave and a cable that is pulled; `Intr` the interrupt polling. `maxreq` and
`maxpeers` bound the requests of a peer and the number of peers.

**Deadlock** is not checked: in every run some part may rightly stop, a stream
that was closed, a peer that has used up its requests, a machine that was
destroyed, a bounded count that is used up.

## 4. Fairness

* `HostChardevMachine` (`OwnerFairness`): weak fairness of the owner's tick and of
  the redial timer, because the main loop always comes back to the tick; strong
  fairness of an accept or a connect that succeeds, because the kernel does not
  report EINTR/EAGAIN for ever to a peer that is there and decides every connect.
* `UsbRedir` (`RedirFairness`): weak fairness of the tick's handlers (a
  straight-line function called by the main loop); strong fairness of the guest's
  serving actions, because usb.dll's interrupt thread gets slices between ticks
  and serves an endpoint that keeps asking. Strong, because a tick may disable a
  guest action for its own duration. No fairness of the peer or of time is
  assumed. `MCLive` gives each part its own fairness in its own behaviours.
* `DockMachine`: weak fairness of the loop, whichever of its phases comes next
  (`be300_run_batch` calls them one after the other), and of the passing of the
  insertion's deadline; none of the guest or the user.
* `Companion`: weak fairness of the touch tick and of time (the loop), of the
  touch driver, and of the battery driver's beginning and end of a scan.
  `HeldPenIsSampled` needs the last because the converter is shared: a battery
  driver that took it for ever would keep the pen from being sampled.

## 5. Findings

1. `chardev_redial`: `try_reconnect` (host_chardev.c:610) does not set `new_peer`
   when `connect()` completes at once, which is the normal case on a Unix socket:
   the owner starts no session for that peer. host_chardev.h:76 says "once per newly
   accepted / connected peer".
2. `redir_pop`: `service_endpoints` (usbredir_dev.c:543) pops the queue after a
   reply whose write error has already emptied it; the unsigned count wraps.
3. `redir_offer`: `update_connection` (usbredir_dev.c:516) marks the device
   connected after a `device_connect` that lost the peer; the next peer, if its
   hello is there in time, is never offered the device.
4. `cf_hotplug`: `be300_cf_hotplug` (machine_be300.c:1193) inserts the card only
   after the ejection whenever an ejection is scheduled at all, also when the
   insertion is to come first and the machine started with an empty socket.
   main.c:145 says "Insert the primary --cf image s seconds after start".
5. `bundle_import`: `copy_file` (vm_bundle.c:31) truncates the image before
   reading it when source and destination are the same file, and reports success;
   vm_bundle.h:77 says "File copy NAND/CF source into the bundle."

The other properties of the same modules hold when these situations are kept
out: `redir_live` (`ImmediateRedial = FALSE`), `redir` and `redir_live` (`fails`
without the handler concerned) and `host` (`OwnSource = FALSE`) say so through
their constants; `media` needs no restriction, since a late insertion disturbs
nothing else.

**Noticed while reading**, where no document says otherwise or no run is needed:

* A guest that completes a cancelled usbredir request after the next one has
  arrived completes the wrong one (usbredir_dev.c:701).
* `be300_destroy` and an ejection ignore a failed save (cf.c:385); the guest's
  writes are lost. `CommittedIsKept` allows for it.
* D000 gives back a command byte before the status (nand.c:1152); raw reads
  through AA00D7FC step by 528 bytes in an image of 512-byte pages (nand.c:307);
  the restore engine's registers at C14, C20 and C40 are claimed by the LCD.
* test_modem.c:124 asserts that a modem is not a network card while `cf_is_network`
  (cf.c:701) includes `CF_CARD_MODEM`. The GPS card's configuration register is not
  read back. A card inserted from an image over a network card leaves the NIC
  registered.
* A frame for an xi825 that is not associated is consumed and lost; with no free
  buffer it is lost silently. The NE2000's remote DMA does not wrap at PSTOP.
  `wifi_security_rekey` has no caller outside the tests.
* A half of the time (ETIME) that takes the clock beyond ECMP sets off the alarm,
  and the other half may bring it back: only a write of ECMP clears
  `elapsed_compare_fired` (rtc.c:211-226), so once RTCINT is cleared that alarm
  does not come when its time does. The same goes for a clock set back after its
  alarm. rtc.h:50 says no more of the flag than "since last ECMP write".
  `ClocksKeepTime` states it as its exception.
* A Count rewritten within half a window of its wrap may be charged to the
  HALTimer as up to half a window of time; `WritesCount` leaves that out.
* For 8709 of the sector counts cbea_install.h admits ("a multiple of 512 between
  8 MB and 1 GB") the formatter's FAT is one or two entries too small (the first
  is 16479); the parser takes fewer clusters then. No whole megabyte is among
  them, and both callers pass whole megabytes.
* A configuration is written in place: a torn one makes its bundle vanish from
  the list. A failed import leaves a truncated image. A rename followed by a
  failed save leaves a configuration that names the old directory (`orphaned`,
  the exception `NamesOwnImages` states); a create whose save fails leaves a
  directory that blocks the name. After Cancel the list is not refreshed, and a
  later Save from it loses an image replaced meanwhile. `list_grow`'s realloc
  (vm_bundle.c:132) leaves pointers into the old array beyond eight machines.
* An unreadable System.reg is taken for a missing one and replaced
  (cbea_install.c:1750).

## 6. Proofs

All by TLAPS, from the constants' assumptions (`BridgeAssumption`,
`UsbfAssumption`, `ResetsAssumption` and so on) and nothing else but, for
`UsbRedir`, the hypothesis `Restricted`.

**HostChardev.** `ChGood` says which combinations of kind, descriptor,
`connecting` and `new_peer` occur: a connect in flight has a descriptor, and
a report implies a descriptor that is not connecting (the kind of a stream, which
decides whether it redials, never changes). `HostChardevLemmas` shows once per
operation that it keeps `ChGood`, with the field equations its callers need;
`HostChardevMachine` lifts it to `NewPeerAlwaysUsable`, `NewPeerIsUsable` for
`OwnerSpec`. The serial proofs cite the same lemmas.

**Usbf.** `ControllerCorrect` proves `IrqLineCurrent`, `NothingLeftWhenDetached`
and `AnsweredOnce` for every buffer size, byte set and workload
(`LineStaysCurrent`, `DetachedIsClean` and `RequestsAnsweredOnce` state them one
by one). The invariant is a typing of the record plus `irq = IrqPending(u)` plus
the two properties; each operator has a lemma in one of three forms: it leaves
the controller *settled* (level current, request counted), *fresh* (nothing
pending, one answer if one was pending), or *good* (unchanged control side). The
step proof has one case per action and cites them.

`EndpointsCorrect` proves the refinement `EndpointsArePipes`: initial state and
every step of the controller is one of the abstract `Pipe`, for both endpoints.
An access of the guest leaves both queues alone, or adds one packet to the IN
queue, or is one of the three ways to read the OUT endpoint. The heart is
the lemma that a DMA of any length, across packet ends, and a read of the FIFO
port take a prefix of `Bytes(u.out)`: what was copied, followed by the bytes of
the packets that are left, are the bytes that were there. The invariant adds
that the IN queue and its staging buffer hold packets.

**UsbRedir.** `UsbRedirProofs` proves `PeerSeesProtocol` (`ProtocolSpoken`),
`OneHolder` (`HeldInOnePlace`), `ViewAgrees` (`ViewsAgree`) and the action
property `LeavesAnswered` (`LeavingIsAnswered`), for every length of queues and
FIFOs, every kind of stream and all scenarios, under one hypothesis,
`Restricted`: no write fails while the device is offered or a transfer is
answered, and no redial completes at once. These are the situations of findings
1 to 3, in which the code does otherwise; the scenarios of `redir` meet it.

The device has told the peer more than the peer has read, so the invariant is about
`Final`, what the peer will know once it has read the buffer (`ReadsAll` of the
view and `tx`). `Sound` says of the file, whichever handler runs:

- reading the buffer makes the peer see no error, and leaves it knowing whether
  the device is connected and whether it is polled (`Agrees`);
- a device that is not connected holds nothing, and a request is held once (`Level`,
  `Distinct`);
- `Fits` relates what the device holds (`K`), what is on the wire and what
  the peer will still wait for or no longer wait for: every request held or on
  the wire is one of these, and what the peer will wait for is held or on the wire.
  Requests are numbered as they are made, so *what is on the wire is younger
  than what is held* and *what was given up is older than what is waited
  for*; the second makes a reset drop the right requests although it arrives
  after later ones may have been made. *Behind a reset on the wire the peer
  waits for nothing that is held*, without which the reset would lose a request.
- a stream without a peer has no session: nothing connected, buffered or unread
  (`Gone`).

A handler leaves a set of states, so each has a lemma that says of every state
it may leave that it is `Sound` and that no transfer has left unanswered
(`Handled`); they rest on what `send_packet` and `flush_tx` may do
(`SendOutcome`, `FlushOutcome`) and on one lemma per way a request moves
(`FitsTaken`, `FitsReply`, `FitsDisconnect`, `FitsPassed`, `FitsAsked`,
`FitsTold`). The peer acts on what it has read while packets
are buffered; `ReadsDiffer` shows that its acting first and reading afterwards
comes to the same. The controller is opaque here but for its attachment and the
end of a control request (`GuestEnds`, `HostEnds`).

**SerialBridge.** `BridgeCorrect` proves `WakeNotLost`, with `NothingAcrossDock`
and `PaceHasBacklog` on the way; `GuestReceivesStream` and `PeerReceivesStream` prove
that each direction implements `Stream`, initial state and every step, for all
queue sizes, byte sets and modes. The inductive invariant needs, beyond the three
properties: the typing of the rings; `ChGood` of the stream; *bytes in flight
have a ready descriptor* (`net # <<>> => IsReady`), without which a new
descriptor might inherit a byte; and *before the UART is set up the guest's FIFO
is empty*, without which dropping the oldest pre-open byte would lose one from
the middle of the stream and not from its front.

**Serial dock.** `DockCorrect` proves `DockLineCurrent` and `ModemHasCause`,
`InsertionStaged` the action property `StagedInsertion`, for every set of keys,
ring size, bound and mode. The invariant is the typing of the latch, the two
properties, and *a socket event is the first event of a cable just inserted*
(`Staged`: it is pending only while docked and before the modem event was sent),
without which an acknowledgement might find the modem event already spent.
`NewBytesAreEdges` proves `NewByteIsAnEdge`: every operation of the keyboard that
puts a byte into the ring has asked for the modem event when it ends
(`Signalled`), and `RaiseModem` makes an edge of a line that is up.

**Keyboard.** `FnNeverSticks` proves `FnNeverStuck` and `KeysInOrder` proves
`InTypingOrder`, for every layout, ring size and mode. For the first, a release
lowers the count whether its press was counted or refused, so that the count
never passes the number of chords that are down; a loss of the focus releases every
value that is down, in the order of the code's loop, and each of its rounds
keeps the bound for the values still to come. For the
second the invariant, claimed of an orderly driver, says more than the property:
no byte in either ring is younger than the last key event; received bytes are
ascending, held-back bytes are ascending and every received byte is before every
held-back one; and *bytes are held back only on a connected keyboard with RTS
down or a probe's answer unread* (`Handshake`). Without the last, a key typed later
would overtake those held back, which is what happens to a driver that is not
orderly.

**Companion.** Three theorems about the sources of GIU line 0, for every set of keys,
page and bound:

- `LinesFollow` (`LineFollowsSource`): the buttons' and the card's copies of their
  gates are current, and a request that wants the line has it (`LinesUp`); the
  ticks of the other sources compute the level afresh.
- `ChangesAreKept` (`ChangesKept`): an insertion the guest has not been told of is in
  the card's pending bits with its cause; the keys the handler knows are those
  down, or the change is pending, or came late.
- `LastContactIsTrue` (`LastContactTrue`): the queue of contact changes has one
  place, so a third change overwrites the second. The latest report is the pen's
  position all the same, because *nothing is queued unless a change is pending,
  and a sequencer that has left its wait has a pen that is down*
  (`Queueing`, `Watching`); a driver's restart is the one other state (`Contact`).

**Resets and clocks.** `ResetsAreDue` proves `ResetOnlyWhenDue` for every window,
timeout and range of Count. The HALTimer knows only samples of a register the
guest may start over, so the invariant relates what was charged to what went by:
what was charged has gone by; *what the next sample will charge, if it is less
than half a window, has gone by as well*; and *if Count has come round since a
sample near its top, the rest up to the top has gone by*, without which a Count
set to 0 could be taken for one that wrapped. The watchdog's half says that its
unserved time is the true one and that it runs only where it was started.

`ClocksAreRight` proves `ClocksKeepTime` for every range of the registers, step of
the battery and bound. Of the alarm: the halves written so far are those of the
target, and an alarm that is on is armed and, unless the clock went back behind
it, has not fired before its time and from then on is pending or about to be
looked for (`AlarmInv`). One lemma serves every move of the clock, by half a write,
a tick or a wrap (`MovesKeep`). Of the battery: the reads so far took off or
added a whole number of steps and what they left over is still in the time since
the last (`BatteryInv`), whence the reads, each of which rounds down, lose
nothing.

**CompactFlash.** `CardKeepsData` proves `TransferInOrder` and `CommittedIsKept`
(`TransfersInOrder` states the first alone) for every size of card, sector and count register, every schedule of ejections and
insertions and every access of the guest. The invariant:

- a transfer is at rest with no job, or under way and *in step* with its job: the
  address of the next word is the job's address plus the words moved, what remains
  is what was asked less that, and the transfer ends on the card (`InStep`);
- a read's buffer is its sector of the image, a write's holds the job's words as
  far as it is filled;
- the guest's view of the card is the image while it is in the socket and the
  file when it is out, and a clean image is the file (`Kept`);
- *a card in the socket before its insertion is due is to be ejected first*
  (`InsertAwaits`), without which an insertion would read the file over an image
  with unsaved sectors.

One lemma per operation says which of these it leaves; the products
sector * words are kept behind `SectorAt`, so that a leaf sees either multiplication
or records, not both.

**NAND flash.** `FlashAsCommanded` proves `NandAsCommanded` for every geometry, image
file, set of data patterns and routes, from `ChipAssumption` and
`GuestAssumption` (the images are files of the geometry, a pattern fits in a
page). The property is about whole operations, and what a confirming access does
depends on some thirty fields that the accesses before it have set, so the
invariant does not follow the fields. `InScript` says instead that *the chip is
what the accesses of the script so far make of some chip* (`Run`), whichever it
started from, and everything about fields is proved of runs:

- no register but those that carry a confirming byte touches a cell, the image's
  kind or the dirty mark (`AccessKeeps`, one lemma per function of `nand.c`);
- the accesses before the confirming one *prepare* the operation from any chip: it
  then waits in the right state for the right page with the right bytes in
  its buffer (`Prepares`), whatever a reset or an earlier operation had left.
  There is one lemma per route and piece of script: opening, address, data in
  the two parts that the engine takes, each by induction along the run;
- the confirming access of a chip so prepared *carries the operation out*: cells,
  dirty mark and status (`ClosingCloses`; `XferCloses` for the engine, which takes
  the block from its latch again);
- hence every script of the guest confirms nothing, or brings its operation about
  at the place the model calls `confirm` (`Commits`), and whether the block is bad
  was decided by the cells as they then still are.

The rest of the invariant is that a clean chip holds the cells of its file
(`SyncedHolds`: also when a data-only file grows by the pages written), without
which a restart would lose an operation.

**Bundles.** `MachinesOwnImages` proves `NamesOwnImages` for every set of names and of
images, from `BundlesAssumption`. The invariant adds to the property the typing
of the disk, and that *the settings' working copy owns its images too*, in the
name it was opened under (`GoodVm`): a save writes that copy over what is on the disk,
also after an import has changed it. The operations give sets of outcomes, so each has a lemma
that says of all of them that disk and copy stay good (`GoodDisk`), and
the wizard's imports, a fold over the images chosen, are shown to keep it by
induction over the fold.

**Sound.** `SoundStaysInOrder` proves `SoundInOrder` for every set of buffer lengths, empty
ones among them, every batch and every stall, from `AiuAssumption`. The property speaks of
the frames of one step and of the flags; what makes it inductive (`AiuSound`) is

- *the cursor continues what was heard* (`Continues`): inside a buffer the last frame heard
  is the one before the cursor; at its start it ended the block before, or the one before
  that if an empty buffer lies between;
- *the buffer that plays is filled, and the other one has the next block or waits for it*
  (`Filled`), so a flip finds its block unless the driver was late;
- *where the interrupt thread has come to with a drained buffer* (`Tracked`): in the
  status, in its own copy, or in both, for each stage. In particular the first buffer is no
  longer in the status when the second is acknowledged; TLC does not miss that
  conjunct, the induction does;
- *between filling and starting nothing is on the way* (`Prepared`).

The loop of `aiu_tick` is a recursive function of as many rounds as frames are owed. One round
keeps all of this (`PlayBufferKeeps`, from a lemma on the cursor, one on the flip and
one on appending frames), hence the loop does, by induction on the rounds.

**WL54CF.** `DataIsSecured` proves `SecureBeforeData` for every traffic, queue size and
number of reconfigurations, from `NetAssumption` and the cards' assumptions. The access
point tells the station's answers apart by a counter and a code, the station says nothing of
which message it answers, and it may answer any it ever heard. The invariant (`SecureInv`) is

- *what each stage goes to show* (`Staged`): from the second stage on the station knows the
  secret and the derived key is this association's; from the third it has heard the third
  message, and with WPA the group message by the fourth; a key in place is of this
  association and the station's own;
- *a message of this association is one that this handshake sent* (`Known`): its counter is
  that of its kind and not ahead of the access point's, for the messages the station has
  heard, the one pending, and those still in the card's queue of frames (`Queued`). Older
  messages have smaller nonces, so a code made with their key is not the derived one.

An answer with the current counter and the right code is thus to the message the stage waits
for (`KeyFrameKeeps`). Every operation of the card keeps this link between queue, handshake
and station (`Link`), the poll of a tick by induction on its rounds (`PollFits`).

**EEPROM.** `EepromKeepsItsWord` proves `EepromAnswers` for bytes of every width from two bits
and memories of the size they address, for every sequence of writes, reads and reads of two
bytes, each cut off at any edge, from `EepromAssumption` (the values written are bytes). A
property of whole transactions has to be inductive at every edge of the two lines, so the
invariant (`BusInv`) says where in the script the master stands, and *what of the EEPROM's
fields that place determines*:

- the script is a START, then bytes, a STOP at the end (`EdgesAre`); of the piece in hand a
  known number of edges is done, and the pieces after it are ahead (`Ahead`);
- before a START, and in a STOP, nothing is known of phase, counters and slots (`Sits`,
  `Held`): that is the state any cut-off transaction may have left, and the reason why
  `StartMoves` must reset all of them;
- in a byte, the first `j` bits are in the shift register (`Leading`, `BitsAt`), then the
  acknowledgement is out and the byte has gone where its phase sends it (`AckAt`); in a
  byte read the EEPROM drives bit `j` of the cell (`ReadAt`);
- the samples so far are those of the answer (`Listened`, `Answer`).

Each edge of each piece has its case, the last one beginning the next piece (`StageMoves`).
That a byte shifted in bit by bit is the byte (`LeadingEnds`, `BitJoins`) is induction over
`Shifted` and `Power`, the code's shifts written as recursive functions.

TLC checked the invariants on small instances before they were proved. The
proofs of the resets, of CompactFlash and of usbredir were seen to fail where they
should: with the half-window filter of `Elapsed` weakened; with a save only between
transfers, a transfer that steps from the taskfile, and an insertion that does not
wait for the ejection; with a cancelled bulk transfer that is not answered.

**Induction over data.** The library's induction theorems take an operator,
which the provers cannot instantiate. Where a set does instead, the proofs use
one: `SetInduction` (in the modules that need it) gets induction over the naturals from the
well-foundedness of `<` and a minimal element of the set of counterexamples, and
`Recursion` that a recursively defined function exists and satisfies its
equation. `Released`, the loop over the keyboard's values, `ReadsAll`, the
peer's reading of a buffer, the rounds of `Play` and `Poll`, and the EEPROM's shifts are
unfolded that way.

**Only model-checked.**

- Liveness (`Redials`, `EventuallyOffered`, `RequestsAnswered`, `InsertedAgain`,
  `HeldPenIsSampled`): fairness and ENABLED are out of the prover's reach.
- `PathIsPipe`, at the level of array indices with a modulus; the same pipe is
  proved at the level of packets.
- `FramesInOrder` and `Announced`: four cards with a queue of their own kind each, of which the
  NE2000's is a ring of pages chained by what is written in them; each needs an invariant
  of its own, and they are not yet written.
- `VolumesSound` and `InstallAtomic`: chains of clusters walked by recursion over
  the volume.
- `ReadsDeliver`: it speaks of the values that a whole script has read, on six
  routes; the runs behind `FlashAsCommanded` carry the chip, not the values.

## 7. Plan and limits

**Worth proving next**, in this order: `ReadsDeliver`, with runs that carry the values read;
the index arithmetic of `Ring` under `PathIsPipe`; `FramesInOrder`, a card at a time.

**Worth modelling next:** the modem card (`hw/modem.c`), whose command parser
and carrier state have a protocol of their own; the scheduling of the machine's
loop between two ticks, which would let `Companion`'s fairness be derived.

**Not modelled.**

- *Encodings*: USB descriptors, usbredir packets, CIS bytes, Hermes scan results,
  JSON, archive and INF texts. Pure functions; where a property depends on one
  being well formed, the model has a flag for it.
- *Cryptography* of WEP and WPA. The handshake is modelled with nonces and keys
  as values.
- *Registers that are stored and read back*: LCD controller, clock unit, SIU, the
  legacy NAND status registers, the raw D7FC port and the restore engine's own
  commands, which no guest code in the repository reaches.
- *Modem and GPS cards*: byte streams between a host device and the guest.
- *Main*: option parsing, set-up order, boot ROM, probes and host helpers run once
  and in sequence. The serial back-end dispatch forwards calls.
- *Presentation*: drawing, audio output, screenshots, bezel. Nothing of it is
  read by the guest or a peer.
- *Instruction hooks* (`devices/*.c`): tied to addresses in a firmware that is not
  part of the repository.
- *Tee log and tracing*.
