# JoshOS in TLA+

A formal model of JoshOS: TLA+ modules translated from the source, TLC runs that
check them on small instances, and TLAPS proofs of the properties that matter
most for every value of the constants. Paths below are relative to the
repository root; module and definition names are in `code`.

## The system

JoshOS is two systems in one tree.

*The native kernel* (`kernel/`) is a 64-bit single-processor kernel. It boots
through Limine or its own boot protocol, sets up paging, physical and heap
memory, interrupts, a timer and a PS/2 keyboard, and then loops: poll the network
card, drain the input ring into a line shell, halt until the next interrupt.
Around that loop there are cooperative kernel threads, a block layer with a
write-through cache, partition parsing, a VFS with a tmpfs and three small
services on top of it, and a network stack with an e1000 driver.

*The product desktop* (`compositor/`, `shell/`, `iso/`) runs on Linux: a wlroots
compositor with a window model, an HTML desktop shell, and a local HTTP service
that manages Wi-Fi, applications and a terminal.

What interleaves in the kernel: interrupt handlers with the code they interrupt
(keyboard and timer with the main loop), threads at the points where they yield,
and devices with their drivers. Everything else is called in sequence, so that
its difficulty lies in long sequences of calls, full tables and failures half
way. In the product, requests of the HTTP service run in threads, and user,
client and timer events reach the compositor and the shell in any order.

## Modules and the code

| Module | Models | State and actions |
| --- | --- | --- |
| `Scheduler` | `kernel/src/scheduler.c`, `context_switch.S` | thread table, run cursor, saved frames; create (or fail to), yield, exit |
| `Pmm` | `kernel/src/pmm.c` | the two range lists and the counters; initialisation, allocation, release |
| `FrameAllocator` | what the memory manager promises | sets of managed and free frames |
| `Paging` | `paging.c`, its use in `main.c` | the page tables as a set of mappings with permissions, frames left, MMIO window, temporary mapping; build, activate, map a device, read an ACPI table |
| `Heap` | `heap.c`, `heap_kernel.c` | block list, headers in memory, counters; kmalloc, growth, kfree, overruns |
| `Interrupts` | `interrupts.c`, `apic.c`, `smp.c`, `timer.c`, `keyboard.c`, boot order of `main.c` | redirection registers, local APIC, handler table, clock, keyboard controller; one action per place where an interrupt can come in, the devices as actions of their own |
| `InputRing` | `input.c` | the ring's array and indices, one step per memory access; push in the interrupt handler, pop in the main loop |
| `BoundedFifo` | what a ring promises | a bounded queue that drops when it is full |
| `KeyboardDecode` | `keyboard_decode.c` | operators: scan code to event, modifiers |
| `KernelShell` | `shell.c` | line buffer and scrollback; every key and command |
| `Console` | `keyboard.c`, `input.c`, `timer.c`, the loop of `main.c` | keyboard, interrupts, queue, main loop, halt and shell together |
| `BlockCache` | `block_cache.c`, requests of `block.c` | devices, entries, clock; read, write, failures, invalidation |
| `Partition` | `partition.c` | what is on the disk, the table so far; one action per sector read and per entry, MBR and GPT |
| `Tmpfs` | `tmpfs.c` | operators from a file system to the next one |
| `Vfs` | `vfs.c` | mounts, handles, file systems; every call |
| `StorageServices` | `storage_services.c` | log offset; append, set, publish |
| `E1000` | `e1000.c`, `net.c` | descriptor rings and their registers, device table, statistics; start with every fault, transmit, poll, loopback, interleaved with the card |
| `NetParse` | parsers of `net_proto.c` | the frame's length, the layer, the bytes touched; one action per header, option, label and answer |
| `NetBuild` | builders of `net_proto.c` | the buffer's capacity, what has been written; one action per part of a message |
| `NetChecksum` | the checksum of `net_proto.c` | operators on sequences of small bytes; one action per message |
| `WindowModel` | `compositor/window_model.c` | operators: snap zones and rectangles, maximise, snap |
| `Compositor` | `compositor/josh_compositor.c` | views, stacking order, both focuses, the grab, keyboards, outputs, what clients were told; one action per listener |
| `DesktopShell` | `shell/shell.js` | window records, stack, focus, gestures; one action per event listener |
| `Terminal` | the terminal of `shell/apps.js`, `exec_terminal` of the service | tabs, commands under way, directories; typing, commands executed by the service and answered to the page in any order, answers lost, tabs opened, switched and closed |
| `AppService` | installation in `network-control.py` | files, where each request stands, programs that go on after their time-out, the last reply; one action per external program or file operation, failures, restart |
| `...Proofs` | | theorems: `KernelProofs` about `Scheduler` and `Heap`, `InputRingProofs`, `BlockProofs` about `BlockCache` and `Partition`, `FileProofs` about `Tmpfs` and `Vfs`, `StorageProofs` about `StorageServices`, `NetworkProofs` about `E1000`, `NetParse` and `NetBuild`, `CompositorProofs`, `AppServiceProofs` |

`InputRing` is checked and proved to implement `BoundedFifo`, and `Console` is
composed with `BoundedFifo` in the ring's place; the receive ring of `E1000` is
checked and proved to implement `BoundedFifo` too. `Pmm` is checked to implement
`FrameAllocator`. `StorageServices` extends `Vfs`, which extends `Tmpfs`;
`Compositor` extends `WindowModel`.

`MC...` modules give constants their values for TLC. `MCKernel`, `MCInput`,
`MCBlock`, `MCNetwork` and `MCDesktop` hold several components that share no
state. Their variable `part`, chosen in the initial state, names the component
that a behaviour runs; the others stay as they began. Every behaviour of each
component is there, and interleaving the steps of components that do not share
anything would add states and no information about a property of one of them.
Where components do interact there is a module that composes them (`Console`,
`Interrupts`, `Terminal`, `StorageServices`).

Operators called faulty variants (the comment before each says what
its fault is) are not part of the model. Each is a plausible slip in the code that
one of the properties detects.

### Abstractions

* Addresses, sizes and sectors are small numbers with the same alignment,
  overflow and limit tests; `Top` and `SizeMax` stand for the largest 64-bit
  number.
* Arrays with a count are sequences, and the loops that shift them are insertion
  and deletion. The heap's linked list is a sequence in address order; the magic
  numbers that stay in memory when blocks are joined are kept in `headers`.
* Paths are sequences of names, flags and permissions are sets.
* A closed handle or slot keeps its old fields in the code. Nothing reads them, and
  the model clears them.
* A device driver that reports an error may have done any part of its work. No
  driver of the block layer is in the tree yet.
* A page table is named by its level and the part of the address that leads to it,
  has four entries instead of 512, and takes one of the free frames, of which only
  the number is kept. The processor's cache of translations has one entry.
* A packet is its length and, one by one as the parser reads them, the length, type
  and offset fields; the bytes are not represented. For the checksum a byte has
  three values, and carries work as they do with 256.
* A partition table's signatures and checksums are Booleans, its numbers small.
* Devices (network card, keyboard controller, timer, APICs), wlroots, the browser's
  event loop, `wine` and `flatpak` are external. They are modelled by how the code
  uses them and may do their steps at any moment.
* Ghost variables, which no code stands behind, are marked where they are
  declared.

## Runs

| Run | Configuration | Shows |
| --- | --- | --- |
| `kernel` | `MCKernel.cfg` | **Scheduler**: every context that can be switched to belongs to the thread in its slot, the dead stay dead, waiting shrinks with every yield, every ready thread runs again. **Memory manager**: the managed pages are exactly the usable ones of the boot map, refusals are justified, the frame allocator is implemented. **Paging**: no page of the kernel image is writable and executable and no mapping writes to text and read-only data, device pointers stay valid, and with frames enough a device is refused exactly when a call that ran out of frames has left the entry of another page where it would go, an ACPI read sees the page it mapped. **Heap**: blocks tile the regions with free neighbours joined, only allocated pointers are accepted |
| `input` | `MCInput.cfg` | **Interrupts**: an interrupt goes to the boot processor under a vector with a handler, no byte stays in the controller once the pin was opened with the line low, sleep ends. **Ring**: implements the queue. **Console**: keys are handled in the end. **Shell**: the answer to a command stays on the screen |
| `block` | `MCBlock.cfg` | **Cache**: copies agree with devices, the most recently used sectors stay. **Partition table**: a scan lists only what the disk says, on the device, gives up on an entry only because it is bad or one too many, and has left none out when it reports `PARTITION_OK` |
| `vfs` | `MCVfs.cfg` | handles and open files are in step, a failed open changes nothing |
| `storage_services` | `MCStorageServices.cfg` | the log has no gaps, settings and device entries are never mixed |
| `network` | `MCNetwork.cfg` | **Driver**: what `net_send` reports agrees with the wire, a queued frame leaves, received frames arrive in order. **Parsers**: stay inside the frame and return. **Builders**: stay inside the buffer. **Checksums**: verify |
| `compositor` | `MCCompositor.cfg` | no view that was mapped stays grabbed once it is freed, the view with the keys is on top and active, clients are told the state their view is in, a maximised view keeps its place |
| `desktop` | `MCDesktop.cfg` | **Windows**: the focused window is on top and the only one drawn as active, a maximised window can go back. **Terminal**: prompts are true and the tab on the screen is the active one |
| `app_service` | `AppService.cfg` | with two requests at a time, failing programs, programs that outlive their time-out and restarts, a success is reported only when it is true unless an installation and a removal have overlapped, and repeating an installation completes it |
| `interrupts_keys` | `MCInputKeys.cfg` | *violation*: a byte that comes while the keyboard's pin is masked blocks the keyboard for good |
| `terminal_cd` | `TerminalCd.cfg` | *violation*: a late answer takes a tab back to the directory it has left |
| `app_service_threads` | `AppServiceThreads.cfg` | *violation*: a removal between two steps of an installation leaves a launcher without an application; neither failures nor restarts are needed for it, and the run has none |

Deadlock is not checked where behaviours end: a boot that is done or halted, a
shell that reboots, a parser that has returned, a bound that is used up.

### Bounds, and why they are enough

* Scheduler: as many slots as are needed for a slot to be reused while others
  wait, yield and exit, and for the cursor to wrap around the table (three workers,
  five creations).
* Memory manager: nine pages in two ranges and room for three, so that every kind of
  joining, the full list and runs that fit exactly occur. At boot: two regions with
  every kind of overlap, both images, and a limit at and between page boundaries.
* Paging: every number of free frames from none to more than enough at boot, so that
  each allocation fails once, and none, one or three later; a kernel that starts inside a
  large page or shares one with the framebuffer; devices that start inside a page or
  cross a table, one asked for twice.
* Heap: three pages with regions below, above and between one another; sizes
  that split a block, fill it, need two pages, wrap, and are refused.
* Interrupts: seven platforms (usual, I/O APICs in reverse order, a level-triggered
  keyboard, four that the code refuses), two bytes from the keyboard, a clock
  that saturates.
* Ring: the smallest capacity at which the ring wraps, fills and drops. Console: a
  letter, enter and an extended control key, and a queue of one event, so that the release
  of a modifier is dropped. Shell: words of one and two letters and three commands, enough for
  the scrollback to overflow more than once.
* Cache: two entries and three sectors, so that a hit, a miss and an
  eviction follow each other; four uses (`MaxClock`). Failures and
  invalidations are not bounded. Partition tables: headers and entries at, across and
  beyond the end of the device, more entries than the table holds.
* VFS: two handles, two open files, three nodes, one byte per file, all tables can be
  full. The two file systems are interchangeable, which the symmetry uses. Services:
  values shorter than, as long as and longer than a file; two names
  in each of two directories and room for two entries, so that names coincide
  across directories and nodes run out.
* Driver: two descriptors to send and three to receive, four frames each way, so that
  both rings wrap and fill; every fault of the start-up. Packets: the lengths at and
  next to every boundary the code tests. Checksum: all messages of up to seven bytes.
* Compositor: two interchangeable views with popups, two buttons, two grabs and a
  keyboard that is unplugged, while the views have their first geometry; one view through every
  geometry, request, zone and change of output. Both at once is out of TLC's reach; the
  proofs below have neither restriction.
* Desktop: three applications and three windows, two of them interchangeable; three tabs
  and two commands, so that one is executed and answered before, between and after the
  other's execution and answer while tabs are switched and closed.
* Application service: two requests at a time, each of any kind and begun any number of
  times, so that two of the same kind and two of different kinds run together; any
  number of failures, restarts and programs left running.

### Fairness

* Scheduler: weak fairness of yielding. The kernel is cooperative, and a thread whose
  function has returned does nothing but yield.
* Console: weak fairness of the processor's own steps (a processor that is not halted
  executes its next instruction), of the periodic timer tick and of the delivery of a pending
  keyboard interrupt. A halt between the test for pending work and the next
  interrupt is only ended by that tick.
* Interrupts: weak fairness of handlers, tick, controller and the assertion of
  a level-triggered line; strong fairness of the boot thread, which interrupts disable again
  and again but whose turn comes after each of them.
* Driver: weak fairness of a send and a poll that have begun, and of the card
  sending what is queued. Parsers: they are executed.
* Application service: one thread belongs to a user who goes on asking for the
  installation (`Patient`). Its requests make progress, because every program has a time
  limit, are started again and again, and a step that is tried again and again
  succeeds some time (strong fairness of the successful outcome). Without that nothing could
  be said of a network that never works. Nothing is assumed of the other thread, of
  restarts and of programs left running.

Nothing else is assumed of users, of clients or of the sender of a frame.

## Findings

* `interrupts_keys`: `keyboard_init` turns the controller's interrupt on while the pin of the
  I/O APIC is still masked and does not look at the output buffer afterwards. A byte that
  comes in between keeps the line high with its edge lost.
  `NoByteForgotten` shows that this is the only way: when the line was low as the
  pin was opened, no byte is forgotten.
* `terminal_cd`: every answer sets the tab's directory to the one its command was sent
  with (`shell/apps.js:528`), so that a command typed before the answer to a `cd` and
  answered after it undoes the `cd`.
* `app_service_threads`: requests run in threads that nothing serialises, and
  `docs/product/APP_STORE.md` asks for transactional installation.

## Proofs

All theorems hold for every value of the constants under the assumptions named in
the module that declares them: `SchedulerAssumption` (at least one slot),
`RingAssumption` (a capacity of at least two; the marks for "no event", "busy" and
"empty" are not events), `CacheAssumption` (at least one entry, devices of at
least one sector), `GeometryAssumption` and `ValuesAssumption` (points, sizes and
desktops are made of integers; the marks are neither views, records of views nor
surfaces of views), `ServiceAssumption`, `E1000Assumption` (a transmit ring of at least
one descriptor and a receive ring of at least two; the marks are not frames),
`TmpfsAssumption` and `VfsAssumption` (tables of at least one slot, and no more handles
than a file system has open files, which are both 16 in the code) and
`ServicesAssumption` (two file systems with room for the four directories; users of the
file system do not open files for writing beside the services). Four more are
hypotheses of the theorems that need them, and the `MC` modules assert them of their
constants: `HeapAssumption` (header and page sizes are multiples of the alignment, and
the smallest growth holds a header and a payload), `LimitsAssumption` (room for the four
entries of an MBR), `FieldsAssumption` and `LengthsAssumption` (lengths and length fields are natural
numbers). The bounds on counters are any natural numbers.

* `KernelProofs`, scheduler. The inductive invariant is needed because the states of the
  threads, the current slot, the cursor and the saved frames are only sound
  together: a switch is safe because exactly one thread runs and every ready
  thread has a frame. From it follow type correctness, that one thread runs, that the
  bootstrap thread always waits or runs, that switch targets are sound, that
  identifiers are unambiguous, that the dead stay dead, and that with every yield the
  distance of a waiting thread to the cursor shrinks.
* `KernelProofs`, heap. `HeapInv` says that the blocks are in order, aligned and apart, that no two
  free ones touch, that their bytes are the bytes of the heap's pages, and that the
  allocated magic is at an address if and only if an allocated block is. The properties need
  one another: that a byte filled over by `kmalloc` or `kfree` is no header of another block
  follows from the order of the blocks, and that new pages overlap no block from their bytes being
  those of the pages. There is one lemma per way of changing the list (linking a block in,
  replacing one in place, joining two) and one per call. `HeapTiles` and
  `KfreeTakesOnlyAllocated` follow, for all sizes, and for pages that come in any order.
* `InputRingProofs`. The invariant ties the slots between tail and head to the
  abstract queue. From it follow that events are whole, that waiting slots are
  filled, and that the ring implements `BoundedFifo`, for every capacity.
* `BlockProofs`, cache. `OneCopy` and `Coherent` are inductive only together with the
  types: a write updates the one entry it finds, which is enough because there is
  no other. The existence of a victim rests on least elements of sets of naturals.
  `RecentInv` adds to `KeepsMostRecent` that no two valid entries have the same age and
  that the clock is not behind any of them, without which the next use would not
  come last in the order. `LeastRecentGoesFirst` follows: the cached sectors are the ones
  used last, and the entry given up is the one used longest ago, for any number of entries.
* `BlockProofs`, partition tables. `ScanInv` says at each entry of the loop that the entries listed
  so far are the disk's entries of the same numbers, that none of the entries passed was bad
  and that as many are listed as were in use among them.
  `TableAlwaysTheDisks` follows for every device, every table on it and every capacity of the
  caller's array, also for scans that fail half way: nothing is listed that the disk does not say,
  and nothing is missing from a scan that succeeds.
* `CompositorProofs`. The invariant is `WorldOK /\ ViewsSound /\ GrabSound`: what the
  handlers read has its type, each view's client was told its state and its saved place
  is still there, and a grab that began on a mapped view holds a mapped view.
  The views must be sound together with the types because geometry is computed
  before it is stored; the grab needs "mapped" and not only "live", since it is the
  unmapping that ends it. One lemma per operator of `WindowModel` and per way of changing views
  says that it keeps views sound. `NoFreedGrab`, `ClientsKnowTheirState` and
  `MaximisedKeepsItsPlace` follow, for any number of views, any geometry and any outputs.
  A second layer, `FocusInv`, says that the scene tree holds every live view once, that no
  dead view has the keys, and that a live one that has them is active and above
  every other mapped view. It speaks of live views where `FocusedIsTopAndActive` speaks of mapped
  ones, because an unmapped view keeps the keys and is not raised when it is mapped again.
  `FocusedOnTop` follows, from lemmas on what taking a node out of the
  tree and putting it on top do to the order of the others.
* `AppServiceProofs`. The invariant says what each stage of a request has established
  and, with `Apart`, that as long as nothing is `mixed` an installation and a removal are not under way
  together, programs left running by a time-out or a restart included. `mixed` becomes true
  when a request begins while one of the other kind is under way, and false again
  when one begins with nothing of the overlap left. `Apart` is needed because
  what one stage has established is only there at the next if no removal takes it away, while
  any number of installations only add to it. From it follows that success is only
  reported when it is true (`SuccessIsTrue`), for any number of requests at a time, whatever
  fails, times out or is restarted. With an overlap it does not hold, which
  `app_service_threads` shows for the files left behind.
* `NetworkProofs`, driver. The invariant of the transmit side, `TxInv`, says which descriptors the card
  still owns (those from its head to the driver's tail), that they hold consecutive calls
  in order, and that the calls on the wire are in order and before them. It is needed
  because a send that times out leaves its descriptor behind, so that what is on the
  wire and what was reported differ. `ResultsMatchWire` follows: a send
  reported as done is on the wire, a refused one is not, and none leaves twice or early. The invariant of the receive side, `RxInv`, puts the tail one
  behind the descriptor read next and the done bits on those between the reader and the head,
  except for the one being given back; with it every step of driver and card is
  a step of `BoundedFifo` or a stutter (`RxRingImplementsFifo`), for every ring size.
* `NetworkProofs`, packets. `StaysInsideFrame` and `WritesFit` are inductive with the types, one
  lemma for each group of parsers; the model's small sets of lengths and length fields become
  arbitrary sets of naturals, and of a DHCP option's value the parser reads what its own length
  test allows, which is never more than the value has. `ParsersStayInside` and `BuildersFit` follow: no parser touches a
  byte outside the frame or hands on a slice that leaves it, and no builder writes past
  its buffer.
* `FileProofs`. `VfsInv` joins the types to `HandlesOwnOpenFiles`: handles and open files
  are one to one. `HandlesOwnFiles` is that invariant. The module also has what each operation
  of the file system does to its open files, and that a failed open changes nothing
  as long as a file system has a free open file whenever a handle is free (`SlotsSuffice`).
* `StorageProofs`. `SlotsSuffice` is an instance of counting: a file system with as many open
  files as there are handles can only be full when no handle is free, and then `vfs_open` has
  stopped before it asks. `FailedOpenIsHarmless` follows.
  `ServicesInv` adds where the services' directories are (`DirsInv`), that the log's
  file is what was appended and its offset the end of it (`LogInv`), and that each setting's
  and device's file holds the value promised (`EntriesInv`). The directories are needed because
  each service opens by path, and the result is only about its file when nothing
  that another call creates or removes can change where the path leads. `LogStaysComplete`
  and `EntriesKeepValues` follow, with failures at every full table and full file.

Only model-checked: liveness (`NoStarvation`, `ParseReturns` and the others that say "in the
end"), which is out of the proof system's reach; what folds
and recursive functions compute (the checksum, the loops of `Pmm` and `Paging`, and so the
refinement of `FrameAllocator`), since induction over data is too; and the properties of
`Interrupts`, `Console`, `KernelShell`, `DesktopShell` and `Terminal`.

## What the models make visible

Behaviour that the properties had to name as exceptions, or that was met on the way:

* `pmm_free_frames` refuses to take frames back when the array of ranges is full, even
  if they would join existing ranges (`RefusalsAreJustified` says that this is the
  only reason).
* A `kmalloc` within a page of the largest size wraps when it is rounded to pages:
  it grows the heap by the minimum and returns null.
* `paging_map_mmio` that runs out of frames half way leaves its first entries behind
  (`kernel/src/paging.c:598`). Until a device that starts at the same page is mapped, every other
  one conflicts with them; and once a smaller one that starts there is mapped, the entries
  beyond it stay in the way of the refused device too (`DevicePointersStay`).
* A failing read in the block cache goes into the victim's buffer, and a failing
  write leaves the copy behind: `Coherent` names these as its only exceptions.
* A setting whose new value does not fit is empty afterwards (`SettingsKeepValues`).
* When as many sends in a row as there are descriptors have timed out with nothing sent,
  the tail has come round to the head and the card takes the ring for empty
  (`RingLooksEmpty` in `QueuedIsSent`). A send that timed out may leave later, so that a
  caller who repeats it sends the frame twice; for `ResultMatchesWire` that is a second call.
* A grab that begins on a view which is not mapped survives the view
  (`GrabOnLiveView` says that this is the only way).
* A view raised while the seat has no keyboard goes to the top without the keys
  (`blind` in `FocusedIsTopAndActive`); and a view may be told it is active
  while another one still is (`compositor/josh_compositor.c:203`), which the property
  does not exclude.
* A view that is snapped or made fullscreen while it is maximised may lose its own place;
  `RestoresOwnPlace` is about views to which neither has happened.
* In the desktop shell the active window may be a minimised one (`shell/shell.js:157`),
  Escape closes the launcher and the active window together (line 336), and a
  maximised window that is minimised and restored counts as normal with the desktop's
  bounds, which the next maximising saves as the place to go back to (line 173). `WindowsConsistent`
  allows all three.
* A step that fails between the launcher and the marker of an installation leaves an
  application that can be launched and is listed as not installed
  (`network-control.py:293`). It is not reported as a success, and repeating the
  installation completes it (`SuccessIsComplete`, `InstallResumes`).
* When a program times out, `run` kills `runuser` and not the program it has
  started (`network-control.py:24`): an installer or an `rm` may go on after its request was
  answered, and so overlap the next request of the other kind.

## Not modelled

* Boot protocol parsing (`boot*.c`): it runs once, before anything else, and its result is
  the input that `Pmm` and `Paging` enumerate. ACPI and PCI enumeration likewise; their
  results are the platforms of `Interrupts` and the faults of `E1000`.
* Processor tables, exception printing, framebuffer, font, serial and the kernel's drawing:
  they change no state that later behaviour depends on.
* The divisor arithmetic of `timer_calculate_pit`: its products exceed TLC's integers, and
  scaled down the rounding it is about is not the same.
* The registry of block devices and requests of several sectors: no driver
  registers a device yet.
* Application processors, which are enumerated and never started, so that locks have one user.
* The shell's other applications (Files, App Store, Settings with its network panel) and
  themes: they share no state with the windows and the terminal. Wi-Fi requests of the
  service hand one command each to NetworkManager and keep no state.
* The compositor's test client, image build, design tokens and tests.

Proofs worth adding: `WindowsConsistent` of `DesktopShell` and `PromptIsCurrent` of `Terminal`.
