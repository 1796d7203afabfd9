# TLA+ models of the DELOS 2.0 kernel

DELOS 2.0 is a small 32-bit x86 kernel. It runs on one core, with up to
four terminals, each with its own shell. User programs make requests
through `int 0x80`. These TLA+ modules model the kernel's concurrency
core: the scheduler, and everything that drives it. They also hold the
plan for the rest of the system.

## The system and how its parts interact

| Part | Source | Role |
|---|---|---|
| Scheduler | `src/kernel/src/processes/scheduler.cpp` | `all_processes`, the ready list, the two blocked lists (on a process, on the keyboard), `running_process`, `latest_running_non_idle_process[]` per terminal, `focused_terminal` |
| System calls | `src/kernel/src/processes/syscalls.cpp` | `sys_callback` dispatches on `eax`. Each call re-readies, blocks, kills or creates processes. |
| Interrupt handlers | `src/kernel/src/interrupts/handlers.cpp` | Timer preemption (PIT), faults (kill or `_panic`), the `int 0x80` entry, and the keyboard IRQ |
| Keyboard | `src/kernel/src/drivers/keyboard/keyboard.cpp`, `ctrl_keyboard_shorcuts.cpp` | Enter delivers a line; Ctrl+C aborts (`abort_current_cmd`); Ctrl+1..4 switches terminal |
| Linked list | `src/kernel/src/processes/list.cpp` | The doubly linked list behind every scheduler queue and each PCB's `open_files` |
| PCB factory | `src/kernel/src/processes/process.cpp` | The pid bitmap, `create_process_virtual_addr_space`, `unmap_process` |
| Paging and frames | `src/kernel/src/mem/paging.cpp` | The frame bitmap, page tables, `allocate_page`, `unmap_page` |
| ELF loader | `src/kernel/src/processes/elf_loader.cpp` | Maps the program's segments into a new address space |
| Heaps | `src/kernel/src/mem/heap.cpp` | The kernel heap (`kmalloc`/`kfree`) and each process's heap (`SYSCALL_MALLOC`/`SYSCALL_FREE`) |
| VFS | `src/kernel/src/fs/vfs.cpp` | A FAT file system in a memory region: the file allocation table, clusters of data, and the root directory kept in a cluster chain. The file system calls of `syscalls.cpp` and each PCB's `open_files` list sit on top of it. |
| Screen, mouse, PIT, GDT, IDT, PIC | `drivers/`, `mem/gdt.cpp`, `interrupts/idt.cpp`, `interrupts/irq.cpp` | Hardware set-up and output |
| User space | `src/stdlib`, `src/userspace` | System-call wrappers and string routines; the shell (its command parser, and `exec` followed by `wait_for_child`); `test_wait` |

Every IDT gate is an interrupt gate (`idt.cpp`), so interrupts are off
while a handler runs. On one core, each handler therefore runs to
completion as one atomic step. That is the concurrency the models
explore:

- **System-call, fault, timer and keyboard steps interleave.** The
  system-call, fault and timer handlers act on the process on the CPU.
  The keyboard handler acts on whichever process happens to be
  interrupted.
- **Blocking and waking.** A process blocks on the keyboard or on a
  child. It is woken by Enter or by the child's exit.
- **Pids are reused.** `allocate_pid` takes the lowest free pid. A
  child's `ppid` outlives its parent.
- **Focus.** Ctrl+<n> changes which terminal Enter and Ctrl+C act on,
  and reorders the blocked lists.

## Modules

### `Scheduler.tla`: the scheduler with its drivers (modelled)

**State.** All scheduler state is held in variables:

- `all`, `ready`, `bpq` (blocked on a process) and `bkq` (blocked on
  the keyboard) model the lists.
- `running`, `latest` and `focused` model the pointers.
- PCB fields are functions over *slots*: `pid`, `ppid`, `shell`,
  `state`.
- `pids` models the pid bitmap.
- `halted` records that `_panic()` has been reached.

A slot stands for a PCB's heap address. Its pid is a field of the
slot, so pid reuse and PCB reuse are separate, as in the code.

There are three history variables:

- `saved`: the slots whose register snapshot is current.
- `parent`: the slot that created each process.
- `childPid`: the pid that `exec` returned to a process, which the
  shell then passes to `wait_for_child`.

**Operators.** Each kernel function is an operator from a record of
all that state to a new record:

| Operator | Kernel function |
|---|---|
| `SetProcessAsReady` | `set_process_as_ready` |
| `BlockProcessOnAnotherProcess` | `block_process_on_another_process` |
| `BlockProcessOnKeyboard` | `block_process_on_keyboard` |
| `IsBlockedElsewhere` | `is_blocked_elsewhere` |
| `WakeUpParentProcess` | `wake_up_parent_process` |
| `KillProcess` | `kill_process` |
| `SwitchProcess` | `switch_process` |
| `SwitchToNextProcess` | `switch_to_next_process` |
| `CreateProcess` | `create_process_virtual_addr_space` |
| `AllocatePid` | `allocate_pid` |
| `RescheduleProcess` | `reschedule_process` |
| `SaveProcessContext` | `save_process_context` |

**Actions.** An action chains these operators in the order its handler
calls them, then commits the result:

| Action | Handler |
|---|---|
| `SysCallExit` | exit |
| `SysCallReady` | every call that completes at once |
| `SysCallReadLine` | read_line |
| `SysCallExec` | exec; the program is found or not |
| `SysCallFork` | fork |
| `SysCallWait` | wait, as the shell issues it after exec |
| `SysCallUnknown` | the default branch of `sys_callback` |
| `FaultKill` | `kill_running_process` |
| `FaultPanic` | Invalid TSS and coprocessor faults |
| `TimerSwitch` | `int0x20_handler` on a task-switch tick |
| `KeyEnter` | `wake_process_waiting_for_keyboard` |
| `CtrlC` | `abort_current_cmd` |
| `SwitchToTerminal(t)` | `switch_to_terminal` |
| `Halted` | after `_panic()`, nothing more happens |

`Init` is `init_process_scheduler` followed by the first
`switch_to_next_process` of `_kernel_main`.

**Abstractions.**

- Registers, names, stdout files and address spaces are left out. The
  history variable `saved` keeps the one fact about registers that
  matters: whether the snapshot is current.
- A freed PCB's fields are reset. Freed memory is never read again, and
  resetting them keeps states that differ only in garbage from being
  counted apart.
- `NumTerminals` scales `NUMBER_OF_TERMINALS` down. Ctrl+C's hard-coded
  protected pids 0..4 are scaled with it, to 0..`NumTerminals`.
- User programs are arbitrary sequences of system calls. `wait` is
  driven the way the shell and `test_wait` drive it: on the pid that
  `exec` returned.

`MCScheduler.tla` gives the bounds. It also defines the `VIEW` for the
safety run.

### `AbstractScheduler.tla`: what the scheduler promises (modelled)

The abstract scheduler has five variables: the set `live` of
processes, the one `running` (or `Idle`), a FIFO `ready` queue, the set
`waiting`, and `halted`. Its actions are:

- `Yield`: the running process goes to the tail and the head runs.
- `Block`: the running process waits and the head runs.
- `Spawn(c)`: the creator and then the child join the tail.
- `Wake(w)`: a waiting process joins the tail. The CPU stays put.
- `Kill(v, w)`: `v` leaves, possibly waking `w`. A surviving running
  process is re-queued after `w`. The kernel stops when no process is
  left.
- `Halt`: a panic.

It says nothing about pids, terminals or the order of the blocked
lists.

`Scheduler.tla` implements it. The refinement mapping `Abstract` in
`Scheduler.tla` maps the pieces as follows:

- `live` is `all` without idle.
- `running` is the running slot if it is still live, else `Idle`. A
  step that kills the running process and halts leaves `running` on a
  freed PCB.
- `ready` is the ready list without idle. Idle is queued by
  `set_process_as_ready` like any process, but it is invisible to
  the processes.
- `waiting` is the union of the two blocked lists.

`RefinesAbstractScheduler` checks `Abstract!Spec` on every behaviour
of the safety run. Every handler is one abstract step or a stutter:

- `TimerSwitch` and a completed call are `Yield`.
- `read_line` and `wait` are `Block`.
- `exec` and `fork` are `Spawn`.
- Enter is `Wake`, and exit, a fault or Ctrl+C is `Kill`.
- `SwitchToTerminal`, which only reorders the blocked lists, is a
  stutter.

### `List.tla`: the linked list (modelled in part)

`list.cpp` is the doubly linked list that holds `all_processes`, the
ready and blocked lists and each PCB's `open_files`. `List.tla` models
a list as the sequence of data pointers met by walking from `first`
along `next`. Its operators are `ListAddFirst`, `ListAddLast`,
`ListRemove`, `ListRemoveData`, `ListContains` and `ListGet`.
`Scheduler.tla` and `Vfs.tla` build their queue and `open_files`
operations from these operators, as the code does.

Two details of the node structure could matter, and neither does:

- **The stale `last`.** When `list_remove` unlinks a list's only node,
  `first` becomes NULL but `last` still points at the freed node. Every
  operation tests `first` before it reads `last`, so the stale pointer
  never changes a result. `switch_to_next_process` compares
  `all_processes->first == all_processes->last`, but `all_processes`
  always holds idle.
- **Comparison.** Data are compared by pointer. `list_contains` takes a
  compare function: `comparePcb` compares PCB addresses and
  `filename_cmp` is `strcmp`. Both are equality on what the model
  keeps. `list_remove_data` compares pointers, which is why `close`
  removes nothing from `open_files` (see the findings).

### `Heap.tla` and `AbstractHeap.tla`: the block allocator (modelled)

`heap.cpp` keeps a chain of `heap_block_t` headers inside the heap.
`heap_malloc` walks it from the start. At each block it first merges
the block with its successor if both are free, then takes the block if
it is free and large enough, splitting off the rest when a header and
one more byte fit. `heap_free` only sets the free bit of the header in
front of the pointer. The kernel heap and every process heap use the
same functions.

**State.** `hdr[a]` is the header stored at address `a`; headers that a
merge leaves behind stay in memory, as in the code. `live` maps each
pointer a caller holds to the size it asked for. `lastFailed` is the
size of the last request that returned NULL.

| Definition | Code |
|---|---|
| `HeapInit`, `Init` | `heap_init` |
| `MergeNext` | the merge at heap.cpp:42-46 |
| `SplitBlock`, `TakeBlock` | the split and take at heap.cpp:47-64 |
| `MallocFrom`, `HeapMalloc` | the loop of `heap_malloc`; merges done before a NULL return are kept |
| `HeapFree` | `heap_free`, with its range check |
| `Malloc(n)`, `Free(p)` | `sys_call_malloc`, `sys_call_free` |

`AbstractHeap` is what any allocator promises: each allocation is an
interval inside the heap that overlaps no live one, and any allocation
may fail. `Heap` instantiates it with `allocated` mapped to the set of
`<<pointer, size>>` pairs callers hold, and checks `Abstract!Spec` as a
property (`RefinesAbstractHeap`).

Addresses, sizes and the header are in one scaled unit (`MCHeap`: a
header of 1, a heap of 10, requests of 1, 2 and 4). The unit keeps
every comparison of the code (`>=` for fit, `>` for split) and makes
room for up to five live blocks and runs of three free ones.

### `ElfLoader.tla`: the program loader (modelled in part)

`load_elf_file` walks the program headers. For each LOAD header,
`allocate_segment` does four things:

1. It maps the pages from `p_vaddr` to `p_vaddr + p_filesz`, with the
   end page included.
2. For each table index it creates a page table, unless the index was
   seen before. In that case it reuses the last table of
   `pcb->page_tables`.
3. It takes one fresh page per entry with `allocate_page(1)`.
4. It copies `pages_needed - 1` whole pages and then `remainder` bytes,
   and unmaps each copied page from the kernel's view.

**State.** The state is one record `st`:

- `pageTables`: `pcb->page_tables`, starting with the stack table.
- `indexes`: the loader's `page_table_indexes`.
- `pte`: the entries written, keyed by (table, entry).
- `kmapped`: the frames still mapped in the kernel's view.
- `data`: the image bytes in each frame.
- `frames`: a count of the frames taken.
- `fault`: set when the copy runs past `data_pages`.

A table is named by the index it was created for. A byte of the image
is `<<header, offset>>`. One step, `LoadNextHeader`, is one iteration
of the header loop. The operators (`MapTable`, `MapTables`,
`CopySegment`, `AllocateSegment`) follow the code's loops.

**Bounds.** `MCElfLoader` uses pages of 2 bytes and tables of 2 pages.
It loads the image of spec 8's scenario: a one-page LOAD segment at
address 0, and a two-page one at address 6 (the last page of table 1),
which straddles the boundary to table 2. The spec expects exactly
three pages, each backed by its own frame and holding the segments'
bytes. The loader gives neither. Faithful page sizes would only add
bytes that are copied alike.

The module states four properties of a loaded image:
`SegmentBytesLoaded`, `EverySegmentPageMapped`, `FramesHaveOneOwner`
and `NoPageBeyondSegments`. Over every image the ELF format allows
(one or two headers in address order, any address, sizes 0 to 4),
only `EverySegmentPageMapped` holds. A single whole-page segment
breaks the other three, so no passing run checks them on inputs
chosen to avoid that. The one violation run checks
`SegmentBytesLoaded` on the spec's image.

### `AddressSpace.tla`: frames and page tables (modelled in part)

This module models `paging.cpp`'s allocators and the address-space
functions of `process.cpp`. Each PCB either has an address space or
does not. `Create(p)` is `create_process_virtual_addr_space` and
`Kill(p)` is `unmap_process`, as `kill_process` calls it.

State:

- `frames`: the set of used frames, which is the frame bitmap.
  `Frames` are all the bits `allocate_frame` scans: 32 per word, over
  `BitmapSize` words. At boot, `LockedAtBoot` is in use. It is the
  first `BootUsed` frames (`paging_init` locks the first 4MB) and
  `TailLocked`. When the frame count is not a multiple of 32,
  `frames[last] |= ~(1 << (31 - physical_frames % 32))` locks every
  bit of the last word but one. So the free frames of that word are
  not its first `physical_frames % 32`; the one free bit is
  `31 - physical_frames % 32`.
- `kpt`: the kernel's page tables that `allocate_page(user)` searches,
  indices `2..KernelTables+1`. Each is either absent or a map from
  entry to frame, with `Free` standing for `0xFFFFF`.
- `pdir[p]`: the kernel slot holding PCB `p`'s page directory, or
  `NoSlot`.
- `tables[p]`: the `pcb->page_tables` list. Each element is the kernel
  slot of the table's page and the frames the table maps.
- `halted`: `_panic()` was reached because frames or kernel slots ran
  out.

The paging functions are operators on a record, chained in the order
the code calls them:

| Operator | Code |
|---|---|
| `AllocateFrame` | `allocate_frame`: the lowest free frame, or panic |
| `AllocatePageTable` | `allocate_page_table` |
| `AllocatePageAt` | `allocate_page(i, j, user)`: the frame is taken first |
| `AllocateNextFreePage` | `allocate_page(user)`: the first table with a free entry |
| `UnmapPage` | `unmap_page` |
| `AllocatePageDir` | `allocate_page_dir` |
| `AllocateFullTable` | `allocate_stack_page`, and one table of `allocate_heap_pages` |
| `LoadImageTable(s)`, `LoadElfFile` | the page use of `load_elf_file` |
| `CreateAddressSpace` | directory, stack, image, heap, in the order of process.cpp:106-112 |
| `UnmapProcess` | `unmap_process` |

The image is given by its page counts per table (`ImagePages`) and by
how many of its pages the loader copies and unmaps from the kernel's
view (`ImageCopied`). `ElfLoader` models what happens inside the
loader. `SpaceFrames(p)` is the set of frames behind PCB `p`: its
directory's page, its table pages, and the frames its tables map.

**Bounds.** `MCAddressSpace` has three PCBs, tables of 2 entries, one
heap table, 34 frames (3 at boot) and 14 kernel tables. The image is
one LOAD segment of exactly one page at the start of a table. The
inclusive end makes the loader map two pages, and it copies and
unmaps only one, so `ImagePages = <<2>>` and `ImageCopied = 1`. The
other page stays in the kernel's view.

The bitmap has two words. The tail lock leaves frame 61 (bit 29 of
word 1) as the only free frame above 31, so 30 frames are free. A
process takes ten frames, so three fit at once, and the third one
takes frame 61. Frame 61 does not exist: memory has 34 frames. The
frames that `unmap_process` leaks make repeated creation exhaust the
allocator and reach the panic. That gives 533 states, with symmetry
over the PCBs.

### `Vfs.tla`: the FAT file system and the file calls (modelled in part)

`vfs.cpp` keeps a file allocation table (`fat`), an array of clusters
(`mem`), and a root directory that is itself a cluster chain starting
at cluster 0. Every call loads the root, changes it and writes it back
with `save_root_folder`. The load is `LoadRootFolder`, which walks the
root chain the way `load_root_folder` does (one hop for the first
cluster, three hops per middle cluster, an EOF check on the last) and
halts where the code calls `_panic()`. `Call` wraps each system call's
operator with it: `exists_file` loads the root before any call does
its work, so a root chain that does not load halts that call.

State:

- `fat`, `mem`: the FAT and the clusters. `EofC`, `FreeC` and `TakenC`
  stand for `EOF_CLUSTER`, `FREE_CLUSTER` and `TAKEN_CLUSTER`.
- `dir`: the root directory as a sequence of `file_t` records (name,
  start cluster, size, `open` and `system` flags), in list order.
- `halted`: `_panic()` was reached.
- `wild`: a write through a NULL pointer or past a chain, which the
  code does not check. The model stops there (`Stopped`).
- `openFiles[p]`: the PCB's `open_files` list of names.
- `holds[p]`: a history variable. It holds the files `p` opened and
  has neither closed nor seen deleted. No guard reads it.

Each `vfs.cpp` function is an operator on a record of the store,
chained in the order the code calls them:

| Operator | Code |
|---|---|
| `GetFreeCluster`, `ExistsNFreeClusters`, `GetClusterCountNeeded` | the cluster helpers |
| `FreeAllOccupiedClusters`, `LinkFreeClusters`, `AttachEof` | freeing and linking chains |
| `SaveRootFolder`, `StoreRoot`, `Overflow`, `LoadRootFolder`, `LoadMiddle`, `Call` | `save_root_folder`, including the entry that runs past the last root cluster, and `load_root_folder` |
| `CreateFile`, `DeleteFile`, `Touch`, `Rm` | `create_file`, `delete_file`, `touch`, `rm` |
| `OpenFile`, `CloseFile`, `SetAsSystemFile` | the flag setters |
| `AppendData` | `append_data`: fill the last cluster from `size % CLUSTER_SIZE`, then link new clusters |
| `Write`, `CutTail` | `write`: copy the tail after the offset, cut the chain, append the buffer and then the tail |
| `Cp`, `CopyClusters` | `cp` |
| `FsInit`, `CreateDefaultFiles`, `CreateStdouts` | `fs_init` and the stdout files that `init_terminals` creates |

The actions are the system calls (`SysTouch`, `SysRm`, `SysCp`,
`SysWrite`, `SysFileAppend`, `SysOpen`, `SysClose`) and the
file-closing loop of `kill_process` (`Exit`). A write is guarded by the
caller's `open_files`, as in `sys_call_write`. Lengths are `uint32`
values modulo `WordSize`.

**Bounds.** `MCVfs` has 10 clusters of 2 bytes, 1-byte root entries,
the names `a` and `s` (a default file and a stdout, which is a system
file), buffers of 1 and 2 bytes, and files of at most 6 bytes. One
process has one open slot. Appends reach cluster boundaries, writes
insert into the middle of a chain, and `cp` replaces a destination.
The clusters can run out. The passing run uses `VIEW StructureView`,
which leaves out `mem`. No guard reads `mem` (the code copies bytes
but branches only on sizes and the FAT), so the view merges only
states with the same future steps. The two violation runs do not use
the view, so their traces are complete. The close run has two
processes with two open slots each.

### `CString.tla`: the string routines (modelled in part)

This module models the routines of `src/stdlib/src/string.cpp` that
the shell and the kernel's line delivery run. Each is an operator on
a buffer, which is a sequence of character codes. C index `i` is
element `i + 1`. The operators read and write exactly the bytes the
code does, so what lies past a terminator stays visible.

| Operator | Code |
|---|---|
| `Strlen`, `StrlenFrom`, `CStringAt` | `strlen` (of `buffer + i`) |
| `Strcmp`, `StrcmpFrom` | `strcmp(str1, str2)` |
| `StrcmpN`, `StrcmpNFrom` | `strcmp(str1, str2, n)`, which compares `n + 1` characters |
| `Strcpy` | `strcpy`: the loop copies the NUL, then `*dest = '\0'` writes a second NUL one byte past it |
| `Atoi`, `AtoiDigits` | `atoi`, with a leading `-` as the `uint32_t` `-1` |

Results are `uint32_t`, kept modulo `UWord = 2^16`. TLC's integers
are 32-bit and signed. The callers here only compare a result with 0,
and that comparison is the same modulo 2^16 as modulo 2^32.

### `Shell.tla`: the shell's command parser (modelled in part)

This module models one pass of `main()`'s loop in
`src/userspace/programs/shell.cpp`, as far as which call the line
makes. `ReadLine(prior, line)` is the `strcpy` of
`wake_process_waiting_for_keyboard`, which writes the line over the
buffer's earlier bytes. The buffer is declared outside the loop, so
it keeps the previous line.

- `ShellKeys` lists the keywords in the order the if-chain tests them.
- `Matches` is each branch's test: `strcmp(buffer, K)` for the exact
  keywords, and `strcmp(buffer, K, strlen(K) - 1)` for the others.
- `Dispatch` takes the first branch that matches.
- `ShellArgs`, `CpArgs` and `EchoArgs` extract the arguments at the
  offsets the code uses.
- `ShellCommand` gives the branch and its arguments, or `Unknown`, or
  `Empty` for an empty line.

The inputs are every prefix of every keyword followed by a few tails.
The tails are: nothing, a glued letter, a space, a digit, one or two
words, and the quoted forms of echo. The earlier buffer is either all
NUL or a long earlier line of `'1'`s. The parse does not depend on
the file system. `MCVfs` tabulates it once for each set of root
names, as the names a user types (`Typed`), and looks it up in every
state of `vfs_structure`.

### Planned modules, in order

1. **Composition of `Scheduler` with `AddressSpace`**, so that kills
   chosen by the scheduler free frames.
2. **`last_exit_code`** across terminals, in the system-call model.
3. **An abstract file store** that `Vfs` refines: files as byte
   sequences, with `read` and `cat` as actions.

## Runs

| Run | Config | Expect | Checks |
|---|---|---|---|
| `scheduler_safety` | `MCScheduler.cfg` | pass | `TypeOK`, `EveryProcessInOnePlace`, `PidTableMatchesProcesses`, `LatestIsLive`, `RescheduleKeepsOrder`, `RefinesAbstractScheduler` |
| `scheduler_liveness` | `MCSchedulerLive.cfg` | pass | `ReadyEventuallyRuns` |
| `keyboard_head_of_line` | `MCScheduler_KeyboardHeadIsFocused.cfg` | violation | `KeyboardHeadIsFocused` |
| `ctrl_c_stale_context` | `MCScheduler_QueuedContextIsSaved.cfg` | violation | `QueuedContextIsSaved` |
| `heap_safety` | `MCHeap.cfg` | pass | `TypeOK`, `ChainTilesHeap`, `LiveBlocksAllocated`, `RefinesAbstractHeap` |
| `elf_spec_scenario` | `MCElfLoader_SegmentBytesLoaded.cfg` | violation | `SegmentBytesLoaded` |
| `address_space` | `MCAddressSpace.cfg` | pass | `TypeOK`, `NoFrameInTwoSpaces` |
| `address_space_leak` | `MCAddressSpace_AddressSpaceReclaimed.cfg` | violation | `AddressSpaceReclaimed` |
| `wake_by_reused_pid` | `MCScheduler_WokenByOwnChild.cfg` | violation | `WokenByOwnChild` |
| `vfs_structure` | `MCVfs.cfg` | pass | `TypeOK`, `ChainsDisjoint`, `OpenFilesHaveHolder`, `StdoutsPersist`, `RootFolderLoads`, `ShellIgnoresStaleBuffer`, `ShellFollowsHelp` |
| `vfs_append_overwrite` | `MCVfs_SizeFitsChain.cfg` | violation | `SizeFitsChain` |
| `vfs_close_keeps_name` | `MCVfs_HeldFilesStayOpen.cfg` | violation | `HeldFilesStayOpen` |

### What the passing runs show

Every interleaving of the handlers above keeps the following true:

- **`EveryProcessInOnePlace`.** Each live user process is in exactly
  one place: on the CPU, in the ready list, or in one blocked list. Its
  PCB state says which. No list holds a freed PCB.
- **`PidTableMatchesProcesses`.** The pid bitmap matches the live PCBs,
  and no two live PCBs share a pid.
- **`LatestIsLive`.** `latest_running_non_idle_process[]` never points
  at a freed PCB. Ctrl+C would kill such a PCB a second time.
- **`RescheduleKeepsOrder`.** On every terminal switch,
  `reschedule_process` moves the processes of the new terminal to the
  front of each blocked list in their old order, and leaves the rest in
  theirs. Its first loop re-adds each process at the head, and the
  second loop walks the list backwards, so the two reversals cancel.
- **`RefinesAbstractScheduler`.** Every behaviour of the scheduler is a
  behaviour of `AbstractScheduler` under the mapping above. The CPU
  always goes to the head of the ready list, the ready list is FIFO, a
  blocked process is re-queued only when woken, and a process leaves
  only by being killed.
- **`ReadyEventuallyRuns`.** Under a periodic timer, a ready process
  gets the CPU unless it is killed or the kernel halts.

Every sequence of malloc and free on the heap keeps the following true:

- **`ChainTilesHeap`.** The blocks `heap_malloc` walks start at the
  heap's start, each begins where the previous one ends, and the last
  ends at the heap's end.
- **`LiveBlocksAllocated`.** The blocks marked in use are exactly those
  behind pointers callers hold, each large enough for its request.
- **`RefinesAbstractHeap`.** No allocation lies outside the heap or
  overlaps a live one (168K distinct states).

- **`NoFrameInTwoSpaces`.** The processes are created and killed in
  any order, up to the allocator's panic. Throughout, no frame backs
  two live address spaces, and every frame a live space uses is marked
  used in the bitmap. This holds while `unmap_process` frees the frames
  of a dead process and leaves the kernel's entries for its table
  pages and for the uncopied image page, and `allocate_frame` gives the
  freed frames to the next process.

  The stronger promise of spec 2, that exactly one entry references an
  occupied frame, does not hold. The kernel entry of the uncopied page
  references the same frame as the process's table. After the kill it
  references a freed frame, which the next process then gets.
  `address_space_leak` shows that entry surviving every exit.

Every sequence of file calls and exits keeps the following true
(40K distinct states under the view). The root's two files take three
clusters there, so both root loops run:

- **`ChainsDisjoint`.** Every file's chain and the root's chain end in
  an EOF cluster. No cluster is on two chains or marked free while on
  one. This covers the cuts and relinks of `write` and the
  replacement of a destination by `cp`.
- **`OpenFilesHaveHolder`.** A file marked open is in some process's
  `open_files`, so an exit closes it. No file stays open forever
  because its opener is gone.
- **`StdoutsPersist`.** A terminal's stdout file stays in the root
  folder as a system file. `rm` refuses it. `cp` onto it ignores that
  its `rm` and `touch` of the destination were refused, and copies
  into the existing entry.
- **`RootFolderLoads`.** Whatever sequence of calls led to the state,
  `load_root_folder` reads back the root chain that `save_root_folder`
  wrote: it does not panic, it returns the clusters of the chain from
  cluster 0 in order, and their number is what
  `get_cluster_count_needed` gives for the directory's size. The two
  functions count clusters differently (the loader hops three FAT
  entries per middle cluster, the saver links `clusters_needed - 2`
  of them), so an off-by-one in either breaks this. Two-byte entries
  in two-byte clusters leave cluster 0 with the count alone. The root
  of two files then takes three clusters, and each middle loop runs
  once; after an `rm`, with one file left, they run no iterations. A
  loader that looks two or four hops ahead panics on the initial
  root. The branch for a root that fits in cluster 0 is not reached
  at these sizes. Reaching it as well needs a third name, and that
  run has over a million states.

In every state of that run, for the names of the files in the root:

- **`ShellIgnoresStaleBuffer`.** Every line a user can type about
  those files makes `main()` take the same branch with the same
  arguments, whatever the buffer held before. A bare keyword has its
  argument read at `buffer + strlen(K) + 1`, one past the line's NUL.
  Only `strcpy`'s second NUL (string.cpp:118) keeps the previous
  line's bytes out of that argument. With a `strcpy` that writes one
  NUL, a bare `touch` after a longer line would create a file named by
  the old line's tail.
- **`ShellFollowsHelp`.** Each command that `printHelp()` documents,
  typed with those names, reaches its branch with exactly those names
  as arguments: `./f`, `touch f`, `cat f`, `rm f`, `cp f g`,
  `echo "t"` and `echo "t" > f`. The argument offsets skip exactly
  `K `, and `strcmp(buffer, K, strlen(K) - 1)` compares `strlen(K)`
  characters.

The loader's checks run with `CHECK_DEADLOCK FALSE`: the loader returns
after the last header.

### What the violation runs show (findings)

- **Keyboard head-of-line blocking** (scheduler.cpp:147).
  `block_process_on_keyboard` inserts at the head of the list, and Enter
  serves only the head, and only if it belongs to the focused terminal.
  When a background terminal's process blocks after the focused one's,
  Enter on the focused terminal is ignored.
- **Ctrl+C resumes a process from stale registers** (keyboard.cpp:38).
  `abort_current_cmd` re-queues the process it interrupted without
  saving its context.
- **A process woken by a stranger** (scheduler.cpp:94). The parent is
  found by pid. After the parent dies its pid is reused, so an orphan's
  exit wakes an unrelated waiting process and hands it the orphan's
  exit code. The shortest trace (10 steps) uses `fork`, which no shipped
  program calls. The same reuse is reachable with `test_wait` run from
  a shell, with more PCBs.

- **The spec's two-segment image is loaded wrongly**
  (elf_loader.cpp:128, 168). Spec 8 expects three pages with the
  segments' bytes. When `p_filesz` is a multiple of the page size,
  `remainder` is 0 and the final copy writes 0 bytes, so the last page
  of each segment stays empty (`SegmentBytesLoaded`). The inclusive
  end address also maps a fifth page, one past each segment.

- **An append overwrites a full last cluster** (vfs.cpp:585).
  `append_data` starts writing at `size % CLUSTER_SIZE` in the last
  data cluster. For a file of a whole number of clusters that offset is
  0, so the first bytes overwrite the start of the full cluster, and
  the size then grows past the clusters the chain holds. The trace
  appends one byte to the 3-byte default file, then one more.
- **Close leaves the name in `open_files`** (syscalls.cpp:98).
  `list_remove_data` compares the user's pointer with the kmalloc'd
  copies in the list, so it removes nothing. Process p opens and closes
  a file, q opens it, and p closes it again, under q. `kill_process`
  would do the same at p's exit.

Three more defects are stated as properties in the modules but are
not separate runs. `PROJECT.json` lists them as hazards:

- **A parent that waits forever** (syscalls.cpp:381). An unknown system
  call number kills the caller without waking its parent
  (`WaiterHasLiveChild`).
- **Malloc fails with enough free memory** (heap.cpp:43). The merge
  joins a free block with one free successor only. After three adjacent
  blocks are freed, a request that fits in them fails
  (`MallocFailsOnlyWhenFull`).
- **Segments that share a page, or start off a page boundary**
  (elf_loader.cpp:85, 114). A second segment starting on the first
  one's last page gets a fresh frame for that page and overwrites its
  entry, so the first segment's bytes there are lost. An unaligned
  `p_vaddr` puts every byte at the wrong address. `SegmentBytesLoaded`
  fails for both kinds of image. The run that checks it loads the
  spec's aligned image.
- **A frame past physical memory** (paging.cpp:51). The tail lock
  leaves free the bit `31 - physical_frames % 32`. That bit lies past
  memory whenever `physical_frames % 32 < 16`. The address_space run
  reaches this: its third process gets frame 61 of a 34-frame memory.
  No property says frames lie below `physical_frames`, because it
  would fail that passing run.

Two more loader defects show at the same boundaries:

- **One page too many** (elf_loader.cpp:168). `p_vaddr + p_filesz` is
  passed as an inclusive end address. A segment that ends on a page
  boundary gets an extra page and frame, and that page stays mapped in
  the kernel's view. On spec 8's image the loader maps 5 pages, not
  3. `MCAddressSpace`'s image has such a page.
- **An empty segment runs off the page list** (elf_loader.cpp:111).
  With `p_filesz = 0`, `pages_needed - 1` wraps to 2^32 - 1. The copy
  then dereferences the NULL that `list_get` returns. `CopySegment`
  models this as its `fault` result, and `Done` is then never reached.

- **`write` leaks a cluster and can lose its tail** (vfs.cpp:966,
  986). The old EOF cluster of an insertion stays marked EOF on no
  chain. The tail length is `CLUSTER_SIZE` short, or wraps, when the
  original size is a whole number of clusters.
- **Exited processes leak their page tables** (process.cpp:304).
  `unmap_process` frees the frames that the process's tables map, and
  the page directory's page. It frees neither the frames of the page
  tables themselves nor the kernel slots through which they were
  allocated. After one create and one kill, those frames are still in
  use. Every exit leaks more until the kernel panics.

## Bounds

| Run | Terminals | PCB slots | What the bounds allow |
|---|---|---|---|
| Safety | 2 | 4 | Idle, two shells and one program. Exec, fork and wait can happen on one terminal while the other reads, and pid reuse happens after a kill. 829K distinct states under the view, about a minute with the refinement check; five slots exceed 11M states. |
| Liveness | 1 | 3 | Idle, the shell and one program. 1.3K states. Liveness checking of larger instances ran for more than 10 minutes. |
| Violation runs | 2 | 5 | Two free PCBs, enough for an orphan and a reused pid. |
| Vfs | - | - | 11 clusters of 2 bytes, root entries of 2 bytes (the violation runs: 10 clusters, 1-byte entries), names `a` and `s`, buffers of 1 and 2 bytes, files up to 6 bytes. Appends cross cluster boundaries, writes insert mid-chain, the root spans three clusters, and the clusters run out. 40K states under the view, 10 s. |
| Heap | - | - | Heap of 10 units, header 1, requests 1, 2, 4: up to five live blocks, splits with and without room for a header, runs of three free blocks. 168K distinct states. |

The safety run's `VIEW` (`SafetyView`) makes two reductions, and
neither loses a state the invariants tell apart:

- **It leaves out the history variables `saved` and `parent`.** No
  guard reads them, so they cannot change which steps happen.
- **It folds together the halted states that still have live
  processes.** Only a fault's `_panic()` reaches those, from a running
  state that is identical except for `halted`. The invariants hold of
  both states or of neither.

Halts caused by the last process exiting stay distinct.

## Fairness

The only fairness is weak fairness of `TimerSwitch`. The PIT fires
periodically and its handler preempts the running process every
`TICKS_FOR_TASK_SWITCH` ticks whenever the kernel is up. No fairness is
assumed for system calls, keys or faults: a user may never press a key,
and a program may loop without making a call.

## Not modelled, and why

- Register contents, file names and output. The properties never tell
  them apart; `saved` keeps the register fact that matters.
- Hardware set-up (GDT, IDT, PIC, PIT programming), and the screen and
  mouse drivers. These are port I/O with no scheduler state.
- `read`, `cat`, `ls` and `get_file_size` of the VFS. They change no
  state. `delete_system_file` has no caller among the system calls.
- The VFS's use of the kernel heap (`kmalloc` of root copies and
  buffers). Its leaks are listed as hazards. The root entry overrun of
  the real sizes (25-byte entries in 64-byte clusters) is modelled by
  `Overflow`, but the MC sizes do not reach it.
- `paging_init`'s identity mappings of the kernel heap and the file
  system. They are boot set-up, abstracted to the frames used at boot.
- Switching CR3 and `heap_init` of the process heap. The first changes
  no allocator state, and the second is the `Heap` module.
- The loader's `eip` assignment and the `validate_elf` failure return.
  The built-in images are valid, and no property reads `eip`.
- Frees of pointers a caller does not hold, and requests near 2^32
  whose size plus header wraps. Both are listed as hazards.
- `list_create`, `list_free` and `list_print` of `list.cpp`.
  `list_create` and `list_free` only allocate and free the list head,
  which the model's empty sequence stands for. `list_print` is output.
  When a node's `kmalloc` fails, the add is silently dropped. That is
  listed as a hazard: the kernel heap is far larger than any list the
  model builds, so the failure is left out.
- The shared keyboard buffer, whose partial line survives a terminal
  switch, and its wrap at 64 bytes. Both need a model of the typed
  characters. The project's run budget is spent on the runs above.
- Defects that the run budget leaves as hazards, with no violation
  run: `heap_malloc`'s split when the size plus header wraps to 0
  (`heap.cpp:36`) makes a block its own successor, so every later
  allocation on that heap loops forever with interrupts off; a
  Ctrl+<key> shortcut returns a backspace (`keyboard.cpp:89`) and so
  erases the previously typed character. The frame past physical
  memory that `paging_init`'s tail lock leaves free is listed with
  the findings above.
- The shell's keyword test accepts any line that starts with the
  keyword, so `touchfoo` runs `touch("oo")`. The model reproduces
  this, and `printHelp` does not promise otherwise.
- `sys_call_open` `kmalloc`s `FILE_NAME_LEN` (16) bytes for the name
  and `strcpy`s it in. With the second NUL, a 15-character name writes
  17 bytes, and the last byte clears the low byte of the next heap
  block's `next` field. The shipped programs open only short names,
  and the kernel heap is not composed with `Vfs`.
- The other string and memory routines (`strncat`, `strcat`,
  `strncpy`, `memset`, ...) and the system-call wrappers. The wrappers
  are modelled by the calls they make. The others only write the
  buffers they are given, and no property reads those buffers.
- Faults and system calls while idle runs. `kill_running_process`
  would kill the idle PCB. The idle program ships only as a binary
  (`idle.bin.h`, not under src/), and the model assumes that it neither
  traps nor faults.
