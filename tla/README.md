# A TLA+ development of DosiOS

DosiOS is a 32-bit protected-mode kernel: a boot loader, tables and drivers, a
heap, a FAT-like file system on an ATA disk, and a shell that runs as the
kernel's main loop. There are no processes. One thread of control (`kmain`)
runs for ever; the only concurrency is the keyboard interrupt.

This directory holds modules that model the parts of the kernel with state,
configurations with which TLC checks them, and proofs which TLAPS checks.
`PROJECT.json` maps every definition to the lines it models, and lists the runs,
the hazards, the findings, the theorems, and for every property a mistake in
the code that breaks it. Paths below are relative to `src/`.

Check a run with `tlc -config MCHeap.cfg MCHeap` and a proof with
`tlapm HeapProofs.tla`.

## 1. Inventory

| Component | State it keeps | Operations | Hard behaviour |
|---|---|---|---|
| Heap (`Kernel/Memory/heap.c`) | a doubly linked list of headers inside the memory they manage | `malloc`, `calloc`, `realloc`, `free` | long histories of splits and merges; the last step of several failing |
| Keyboard ring (`Kernel/Drivers/keyboard.c`, `getchar` in `Kernel/System/stdio.c`) | `keybuff`, the 8-bit `key_head` and `key_tail` | `key_push` (interrupt), `key_pop` (kernel) | an interrupt inside `key_head++`; counters that wrap; overrun |
| Terminal and `getline` (`Kernel/Drivers/terminal.c`, `Kernel/System/stdio.c`) | cursor, screen cells, the line being typed | put a character, wrap, scroll, backspace, read a line | two copies of what was typed that nothing compares |
| File system (`Kernel/fs/fs.c`) | the FAT and its buffer, the root directory and its buffer, `root_entries`, directories and files in clusters | create, look up, read, write, list; delete, rename, copy, move, concatenate | several sectors change in one operation; buffers that are freed or stale; a reboot |
| Shell (`Kernel/kernel.c`) | the current path | `cf`, `cdir`, `write`, `cat`, `cd`, `cd ..`, `ls`, `cls`, `help` | checks and uses that look a path up differently |
| Fatal errors (`Kernel/System/errors.c`) | none: `panic` never returns | `panic` | whatever was half done stays so |
| ATA driver (`Kernel/Drivers/ata.c`, `Kernel/System/hal.c`) | registers of the drive, the interrupt flag | `ata_read`, `ata_write` | polling a device; a device that fails; turning interrupts on again |
| Interrupt dispatch (`Kernel/Tables/irqs.c`, `irq.asm`, `idt.c`) | handlers, the two PICs | install, dispatch, end of interrupt | a missing end of interrupt blocks all that follow |
| GDT, boot loader, build | constant tables | none after boot | none a model would reach |
| Formatted output and strings (`Kernel/System/stdio.c`, `Kernel/utils.c`) | none | `printf`, `str*`, `mem*` | blocks that overlap, missing NULs, boundaries of conversions |

How they interact. `kmain` prints a prompt, calls `getline`, which calls
`getchar` (it polls the ring), `putchar` (terminal) and `realloc` (heap), and
then runs one command of the file system to its end. The file system calls the
heap for its buffers and the ATA driver for its sectors, and `panic` when no
cluster is free. The keyboard interrupt may come at any moment at which interrupts
are enabled; its handler touches the ring and nothing else.

What makes each part correct:

* Heap: the headers stay one sorted list of blocks that do not overlap; what is
  handed out is disjoint and keeps its bytes; nothing leaks; a request is refused
  only when no block fits; every call returns.
* Keyboard: keys come out once and in order whatever the interrupt does; a full
  ring loses its oldest; a key that waits is read.
* Console: what `getline` returns is what the user sees.
* File system and shell: the sectors are a tree of files; a command changes the
  name it was given only; no cluster belongs to two files, and none leaks.
* ATA and interrupts: a transfer moves each word once, when the drive is ready;
  it returns whatever the drive does; every interrupt is acknowledged.
* Output and strings: `printf` shows its arguments; strings are joined and
  compared as wholes; a copy is exact when its blocks overlap.

## 2. Plan

Done, in this order:

1. `Heap`, then `HeapProofs`: everything else allocates from it.
2. `Allocator`, the abstract specification, and `HeapMemory`, the heap with its
   bytes, which implements it.
3. `KeyQueue` (abstract) and `Keyboard` (detailed), `KeyboardProofs`.
4. `Console`: terminal and `getline`.
5. `FileTree` (abstract), `FileSystem` (`fs.c`) and `Shell` (`kmain`), which
   implements it.
6. `Interrupts` (dispatch and end of interrupt) and `Ata` (the driver and its
   drive), which runs under the interrupts.

7. The rest of `fs.c`: `FileCalls` (delete, rename, copy, move, concatenate) and
   `Files`, a client that makes all calls of the file system.
8. Power failures between two writes of a command in `Shell`; a drive that fails in `Ata`.
9. `Utils`, `Printf` and `Library`.
10. The theorems of `LibraryProofs`, `ConsoleProofs`, `AtaProofs`, `TreeProofs`, `FileProofs` and `FilesProofs`, and the
    refinements of `HeapProofs` and `KeyboardProofs`.

Still to do:

11. A heap with sizes modulo 2^w; `getline` on a heap that is full; the reader
    interrupted while the ring is full.

## 3. Modules

### Heap, HeapProofs

`hdr` maps the address of each header to its fields `next`, `prev`, `size`,
`taken`. `pc` and `cur` follow the loops of a call: `CallMalloc`, `CallCalloc`
and `CallFree` start one, `ReallocInPlace`, `ReallocZero` and `ReallocMove` are
the ways into `realloc`, `MallocRefuse`, `TakeInitialHeader`, `StartScan`, `ScanNext`, `ScanTake`, `ScanAppend`
and `ScanFail` are the cases of `malloc`, `takeInitialHeader` and
`findUnusedHeader`, and `FreeMark`, `MergeNext`, `MergeNextDone`,
`MergePrev` and `MergePrevDone` are `free`. `req`, `ptr` and `res` are the parameters and the
result. `owned` is the client's side: the pointers it holds and the size it
asked for. The client frees and reallocates only what it holds, as the kernel's
code does where it is modelled.

Addresses and sizes are naturals. The heap's sums do not wrap for the sizes
that fit the assumption in the module's comment; the wrap near 2^32 is listed as a hazard.

A block that is a little larger than the request and cannot be split loses the
bytes that are too many (`TakeHeader`): the code sets the size by hand. This is
why `WellLinked` says that a block ends before the next header, not at it.

### Allocator, HeapMemory

`Allocator` is what callers rely on: disjoint blocks, zeroed when handed out,
that keep their bytes until they are freed. `HeapMemory` adds to `Heap` the
bytes of the arena: what headers hold (`"header"`), what `malloc` zeroes, what `free` fills with
0xDD, what `realloc` copies, and what the client writes. Each
memory action is a heap action together with the stores that belong to it, so that the run
of `HeapMemory` checks the properties of `Heap` as well.
`IsAllocator` maps the bytes of the blocks that are held to `Allocator`'s blocks.

### KeyQueue, Keyboard, KeyboardProofs

`KeyQueue` is a bounded queue in which a new key replaces the oldest. `Keyboard`
has the ring and its two counters. The kernel is built without optimisation, so
`keybuff[key_head++ % KEYBUFF_SIZE]` is a load, a store and a fetch
(`PopLoad`, `PopStore`, `PopFetch`), and the handler, which runs with interrupts
off, is one step (`KeyPress`). `c` is the local of `getchar`; a key without a
character is NUL and sends it round its loop. In `Next`, as in the code, a key may come at
any moment and any number of them.

The counters are `uint8_t`. They wrap at 256, which is not a multiple of 100,
and the test for a full ring subtracts them as ints. So the ring is not a queue
for every typist, and `TypistSpec` has one who keeps its limits, in two ways. `SteadyPress` is at
most `MaxUnread` keys ahead of the reader,
where `MaxUnread` is `COUNTER % KEYBUFF_SIZE` (56 in the kernel): the longest
run of counter values whose slots are distinct across the wrap. `BurstPress`
types without limit, overrunning the ring, but only while a command runs and
as long as the keys that wait do not lie across the wrap. Outside these two the
code does not keep the queue: a press in a full ring moves `key_head` while `key_pop` has the old
one loaded, and a burst across the wrap is never seen to be full and loses a whole cycle of the counters.
No comment in the code says otherwise. What is checked and proved of the queue is about this typist,
and says nothing of a ring that is full while the reader is in `key_pop`.

### Interrupts, Ata, AtaProofs

`Interrupts` follows a request from the device (`Timer`, `Scancode`, and the
drive's) over its acceptance (`Accept`: `irr` to `isr`, the interrupt flag off) to the
routine in `irq_routines` (`Routine`; only the keyboard has one), the end of
interrupt to the slave (`ToSlave`) and to the master with `iret` (`ToMaster`). Devices
raise requests between any two of these. The controllers, the timer, the keyboard
controller and the CPU's priority for a pending request are hardware, mapped as external.

`Ata` adds the thread in `ata_read` and `ata_write`: `Enter` (`cli`), the wait for
BSY and the registers (`SendCommand`), the wait behind the command of a read (`Answered`),
a word at a time with the check before each sector (`MoveWord`), and `sti` (`Finish`).
The drive (external) becomes busy with a command and behind each
sector and raises its line when it has or has stored a sector; the driver does not wait for its
line, which has no routine. Whenever it is busy it may give the command up (`DriveFails`) and
set ERR, which the driver does not read: the bit it waits for is
0x40, which is set after an error too, so it moves the words that are left from and to a
drive that does not have them, and returns. `TransferExact` therefore excepts the transfer
that failed, and no other. `asked` is a history variable: what the last write asks of each sector. The
first call is that of `init_fs`, with interrupts off since the boot loader.

`FileSystem` makes a transfer one step; `TransferExact` and `StoresAsAsked` are why it may.

### Console

The terminal is a value (row, column, cells) that `PutChar`, `PutBackspace`, `NewRow`
and `Scroll` transform. `getline`'s `line` changes next to it. A backspace in
column 0 takes the `size_t` column below 0, and `terminal_putentryat` takes it
as a `uint8_t`; both widths are constants. `screen` has the cells this index can
reach, those behind the last row included. `Output` stands for what a command
answers and for the prompt: characters and newlines, `printed` of them since the last
line, so that a line may start anywhere on the screen; then `CallGetline`.

The user of `Next` deletes whenever there is something to delete, as `getline` lets him. Over the left edge, behind a row
that is full, `getline` shortens its line (`stdio.c:43`) and the character stays on the screen: the column
goes below 0, and another cell is cleared, although `terminal.c:152` says "delete". From then on
line and screen differ, so the properties that compare them are checked and proved of the user of
`RowSpec`, who deletes within the row the cursor is in (`StaysInRow`).

### FileTree, FileSystem, FileCalls, Files, Shell, TreeProofs, FileProofs, FilesProofs

`FileSystem` has the state of `fs.c` and its functions. Space is counted in
directory entries; a unit of a sector is an entry, a byte, `Zero`, or `Junk`
(memory of something else). `Clusters` are those that have an entry in the FAT, which has 65,280, and a sector in
the image, which has 6,708 (`Makefile:13`). `fat` is the FAT and its buffer: every function that
changes the buffer writes it. The root directory is different: `diskRoot` is
the disk, `root` the buffer, `was_root_read` the flag. A path is the sequence of
its names; names with an extension and names without one are told apart as the
code does it, by the dot. A name of eight letters with an extension has no NUL in its entry, and
`make_full_filename` reads on behind it: `Misread` are the names that are another one when read back (`NameRead`).

`Navigate` follows `navigate_dir` name by name, with the buffer that
`current_file` points into (`holder`) apart from the one that was read last
(`buffer`), because from the third name on the first has been freed when the
size is read from it. A lookup compares every 22 bytes of its buffer with the name, whatever they are: one that comes
to bytes of a text before it finds its name (`ReadsText`) may find it in them. A function of `fs.c` is an operator from the state it is called in
to the state it returns in, so that functions that call each other are operators that
use each other: `Created` is `create_file` with `InitFirstCluster`,
`Entered` (`enter_file`, and the second write for the parent, `EditDirectory`) and
`CatFile`; `Written` is `write_file`. Each write of sectors (`Stored`) puts what the disk
then holds on a list, `writes`, which is what a power failure picks from.
`Resized` is what `fat_resize_file` does: its two branches that
change the chain compare the new size with itself.

`FileCalls` has the functions no command of the shell calls: `Deleted`, with
`FatDelete` and `RemoveDirEntry`, `Renamed`, `Copied`, `Moved`, `Concatenated`. `FatDelete` ends with
the write to the entry with the number EOC, which lies behind the table: it clears the size of the 22nd entry of
`root_buffer` (`Struck`). `KeptEntries` follows the two pointers of
`remove_dir_entry`. `Overlaid` is the copy of a new name over an old one.

`Files` is a client of all of these that keeps a record, `files`, of what its calls should have
left: path -> text. Its limits are guards: a new name no shorter than the old one (`rename_file`
does not clear the rest), a file that is the first of at most two to be deleted (`Removable`), a
size that is right for a copy (`Settled`: `cat` does not write the directory of
the file it appends to), and what fits in a cluster. `AsCalled` compares the record with what the
sectors amount to (`OnDisk`). `DeleteAny` deletes without that limit.

`Shell` has an action for each command and for the machine: `Boot` and
`SwitchOff`, and `PowerFails` (after any write to the disk within a command). `mode` is the machine's: `"off"`,
`"shell"`, or one of four in which the model ends, for good, because what the code does then is not followed:

* `"forged"`: a lookup has come to text where an entry should be (`Strays`);
* `"overrun"`: a lookup has left its buffer (`Strays`);
* `"nullfile"`: `write_file` has a NULL inode;
* `"full"`: the scan for a free cluster has left `Clusters`. The code does not panic there. It hands out sectors
  the image does not have and then, behind entry 65,279, what the memory behind `fat_buffer` holds: a mark made there is
  never written to the disk, so that the cluster is handed out again after the next boot. `panic` comes only at 65,535.

So what is checked and proved of any user is about behaviours up to the first of these. `CreateElsewhere` is `create_file` called by other code of the
kernel (`load_shell` puts its file in the root directory).

There are two users. `AnyCommand` types any command with any name.
`CarefulCommand` keeps limits, each of which is there because of
what the code does without it (the names are runs of section 5):

| Limit | Without it |
|---|---|
| below `dosi`, enters and lists only directories that are there | `shell_lookup`; and a lookup whose middle name is missing goes on from the root directory, so that a `write` there can overwrite a directory (`fs.c:273`) |
| files have an extension, directories have none | `write` on a file without one hands a NULL inode on (`fs.c:523`: `"nullfile"`); and `cd` accepts any name with an extension (`fs.c:268`) |
| a file and a directory fit in a cluster | `shell_clusters` |
| a name is used once in a directory | `create_file` does not look for it: a second entry hides behind the first |
| a name with an extension has less than eight letters before it | the file is created and no lookup finds it, as the name is read back as another (`fs.c:107`, `fs.c:143`) |

A text written over a directory is ruled out by the second line: without it, `write dosi` with the text `abcdefgh` makes
`cd abcdefgh` find an entry that was never created (`fs.c:314`), and the model ends in `"forged"`. `IsFileTree` maps the modes in which a
lookup has strayed or a NULL inode is used to states `FileTree` does not have, so that it fails if a command of this user gets there.

`FileTree` is what this user may expect: a tree that lives as long as the
machine runs.

### Utils, Printf, Library, LibraryProofs

In `Utils` a behaviour is one call. The functions of `utils.c` that write come down to one loop
(`job`) that fills or copies, upwards or downwards, a byte at a step, so that a
copy reads what it has already overwritten. `Init` takes every memory and every call
the kernel may make in it: copies upwards between blocks that are apart, `strcat` onto
memory that was cleared, as it writes no NUL (`make_full_filename` and `copy_file` call `calloc`). The functions
that only read (`strl`, `strcmp`, `startsWith`) are functions of the memory.

In `Printf` a behaviour is one call of `printf`, a step one character of its format. `argp`
goes over the words of the stack (`words`: the arguments, and what is behind them): it moves by two for a long and by four for a
long long, twice what they take. `FormatShown` says what any format prints: the conversions up to the first long or long
long show their own arguments, and those behind it a word further on for every long in front of them and two for
every long long (`WordsBefore`). The value of an `h` or `hh` is not cut to a short or a char: it is shown as the int
that was passed. The smallest int has no negation: `Magnitudes` has both outcomes, and
`FormatShown` leaves that number out.

`Library` runs either.

## 4. Runs that pass

| Run | States | What it shows |
|---|---|---|
| `heap` | 488,106 | the list, the disjointness of what is held, no leak, full merging, justified refusals; the heap with its bytes is an allocator, and no fill or copy reaches a header; each call returns |
| `keyboard` | 81,161 | for a typist within the limits of section 3, with an interrupt between any two steps of `key_pop`, across the wrap, the ring is a queue; an overrun during a command loses the oldest keys and no others; keys arrive |
| `ata` | 430,356 | each transfer moves the words of the sectors it addresses, unless the drive fails in it, and returns; each interrupt request is handled |
| `console` | 36,842 | the line is what the screen shows, through wraps and scrolling, for a user who deletes within a row |
| `library` | 711,782 | copies are exact, strings are joined and compared as wholes, every format shows the words its conversions read: their own arguments up to the first long |
| `files` | 135,182 | after any calls within the limits the sectors amount to the files and texts the calls should have left, and every file has a cluster of its own |
| `shell` | 11,239 | for the careful user the disk is a tree of files, and no cluster leaks while the machine runs; his lookups find entries |
| `shell_any` | 84,454 | for any user, any number of reboots, and power failures between any two writes, no cluster of the FAT is given to two files, until a lookup strays, a NULL inode is used or no cluster is free |

Bounds, and why they are enough:

* `heap`: an arena of 10 bytes with headers of 2. Requests of 0, 1, 3, 8 and 9
  reach every case: the exact fit, a rest too small to split, a rest that holds
  an empty block, the largest request that fits and one that does not. Up to
  five blocks lie side by side, enough for both merge loops to run more than once. The client writes one value.
* `keyboard`: a ring of 5 with counters modulo 13, so that `MaxUnread` is 3, and two
  keys besides NUL. The state graph is the whole cycle of the counters, so the wrap happens in every
  position of the ring, and a burst of 12 keys overruns the ring twice over.
* `ata`: sectors of 2 words, 3 addresses, transfers of 1 and 2 sectors. `UINT8`
  = 2 makes an address take two registers and the count 2 be 0 in its
  register; `UINT16` = 6 is the first even value above the longest transfer, as 65,536 is
  above 255 sectors. The timer and the keyboard raise 2 requests (`MaxRaised`), the drive any number.
* `console`: 3 rows of 3 columns, lines of at most 10 characters (`MaxLine`),
  so that a line alone fills the screen and scrolls, and at most 5 characters and newlines
  (`MaxPrinted`) before it, so that it starts in any row and column. `UINT8` = 8 and `SIZE_T` =
  32 keep the order of the real widths: the screen is narrower than the one and the one than the other.
* `library`: 7 bytes of memory with the values 0 and 1, in which two strings and a copy with an overlap
  lie in every way; formats of 2 conversions or characters (`MaxParts`), any lengths among them, over chars, shorts and ints of 4, 8 and
  16 values. The words are those at the edges of these types, any three in a row: the second part begins at one of the first five and takes at most two.
* `files`: 4 clusters of three units, two file names, one of which is longer, directories `dosi` in
  each other to a depth of 3 (`MaxDepth`), texts of one and two units.
* `shell`: 4 clusters of two units, the names `dosi`, `sub`, `txt1`, `txt2` and paths
  of three names: directories in directories, the size of a directory that grows
  twice, the root's entry next to nested ones, the last free cluster. `shell_any`: 3
  clusters, files that are empty or half a cluster larger than theirs, one file name that is misread, and
  files created in the root directory and in one that need not be there.

Deadlock is checked in `heap`, `ata` and `console`. In `keyboard` a typist may stop typing, and `getchar` then
polls an empty ring, which changes nothing. A call in `library` has an end. The runs of `Files` and `Shell` have the
modes in which the model ends.

Fairness is assumed in three places. `CallReturns` assumes that the kernel's only
thread goes on with the call it is in (weak fairness of `MStep`, the steps of a call, and not of making calls).
`KeysArrive` assumes weak fairness of the reader: `getchar` polls until it has a key, and a
command returns to `getline`. Nothing is assumed about the typist. `Ata` assumes weak
fairness of the thread within a call and of the first one, which `init_fs` always makes, of the
interrupt handler, which the CPU runs to its end, and of the drive, which answers a command or gives it up.

## 5. Findings

Each of these runs checks one statement of the repository and finds a behaviour that
violates it; `PROJECT.json` quotes the statement.

| Run | What happens |
|---|---|
| `shell_lookup` | a lookup of a name that is not there, two directories deep, runs past its buffer: the size it uses was read from freed memory |
| `files_delete` | `delete_file` takes other entries out of a directory than the one it was given |
| `shell_clusters` | a file never gets a second cluster |
| `shell_reboot` | each boot replaces the root directory that is on the disk |

## 6. Theorems

`HeapProofs` proves for every arena, every header size and every set of request
sizes (assumption `HeapAssumption`: they are naturals, the arena holds one header, and
the first header is not at NULL) that `Spec` implies each safety
property of the list: `TypeCorrect`, `ListSafety`, `NoOverlap`,
`NothingLeaks`, `FullyMerged`, `Drained`, `RefusalIsJustified`.

The argument is one inductive invariant, `HeapInv`:

* `TypeOK` and `WellLinked`; the lemmas `SplitEffect`, `TakeKeepsList`,
  `AppendKeepsList` and `AbsorbKeepsList` say what the four updates of the list
  leave of it, whatever step makes them;
* `OwnedBacked` (what is held is the payload of a taken block), from
  which `OwnedDisjoint` follows by the order of the list;
* `Accounted`, `Coalesced` and `RefusedOnlyWhenFull`, which need each other's
  help at the step that returns;
* `CallState`, what the locals of a call mean at each `pc`. It is why the
  invariant is inductive: in a scan `cur` is a header and no free
  header before it fits, so that a refusal is justified when the scan ends; in the
  merge loops it is the free block that is growing, so that two free neighbours
  can only be there.

`Invariance` is `Spec => []HeapInv`, with one lemma for each kind of step.
`DrainedHeapIsWhole` is not a conjunct: it follows from the others, as with nothing held
every block is free and free blocks have no free neighbours.

It also proves `HeadersIntact` and `IsAllocator` of `MSpec` from the same assumption, so that the refinement
holds in every heap: `Implementation` is `MSpec => IsAllocator`. Its invariant, `MemoryInv`, adds to `HeapInv` that
header bytes are intact and, in `CallBytes`, what a call has promised about bytes: a block that is handed out is
zeroed, and the block `realloc` copies is smaller than the one it copies to. From the list follows that headers and
payloads share no byte (`ListSeparate`), also of the list that a step leaves (`InvAfter`). `TakenBytes`, `PoisonBytes`, `CopiedBytes` and `StoreInside` say
of each kind of store that it stays in the payload it is for; what the client holds elsewhere is then the same function as
before, which is what the abstract step asks.

`KeyboardProofs` proves `TypeOK` of `Keyboard` for every ring size and every counter
width (`KeyboardAssumption`) and whatever is typed: the counters stay in range, and what the slots hold are keys. `Implementation` is
`TypistSpec => IsKeyQueue`: the typist keeps the limits of section 3 (`TypistAssumption`: `MaxUnread` is at most
`COUNTER % KEYBUFF_SIZE`, 56 in the kernel), and a ring that is full during `key_pop` is left out. Its invariant, `RingInv`, says that the head that `key_pop` has loaded is the
head in memory, and that the unread keys are no more than the ring holds and across the wrap no more than
`MaxUnread`. Then two counters between head and tail have different slots (`SlotsApart`), so a press writes beside the
unread keys (`Beside`) and is the abstract one (`PressIsPress`); of the three instructions of `key_pop` the store
is the abstract read (`StoreIsRead`) and the other two change nothing in the queue.

`LibraryProofs` proves the four properties of `Library`: for every memory size, every memory and every call
(`UtilsAssumption`) `MovedExactly`, `StringsJoined` and `ComparesExact`, and for every format, every width of the
types and every list of words (`PrintfAssumption`) `FormatShown`, which says of the parts behind a long that they show
other words than their own. The invariant of a call of `utils.c`,
`UtilsInv`, says what the loop has written after `k` bytes (`Written`, `Moved`) and that the rest of
the memory is as it was. It is inductive because a copy upwards reads behind what it has
written and a copy downwards in front of it (`Safe`), which `InvInit` shows of each function from its arguments.
`Argued` keeps which call it was: `Joined` follows from what was moved and from where the first NUL of each string is.
`strcmp` and `startsWith` are recursions over the memory, which have a value because a string has an end
(`ScanExists`, `ScanStops`).

The invariant of `printf`, `PrintfInv`, says that the format that is left is the end of the text of the parts (`IsLayout`, which
gives each part the place where its text begins): with `i - 1` parts printed and shown right (`AllShown`), `fmt` is
inside part `i`, as far as `state` and `length` say, and `argp` has moved over the words of the parts before it, a long or long long counted twice
(`Position`, `SumOf`). One step of a conversion prints a numeral; `NumeralOf` proves that the digits
which come out of repeated division are the numeral of the number in every radix above 1.

`ConsoleProofs` proves `TypeOK`, `LineShown` and `BlankBehindCursor` of `Console` for every screen, every width of
the integers that hold the cursor and every length of the line (`ConsoleAssumption`), for the user who deletes within the
row: they are theorems of `RowSpec`, and `Spec` has none of them (section 3). The three are inductive
together (`ConsoleInv`). A step that puts a character or begins a row may scroll, so that row, column and all cells
change at once; the proof sees of it only the number of cells by which all has moved up (`MovedUp`, a multiple of the
width or none): cursor and line move by the same number, and what comes in from below is blank.

`AtaProofs` proves `TypeOK`, `TransferExact` and `StoresAsAsked` of `Ata` for every sector size, every longest transfer
that the counters hold and every disk whose addresses fit the three registers (`AtaAssumption`; the sectors of the image do). Its invariant, `AtaInv`, says
where the drive stands: at which sector, how many are left, and that the counter `i` is the place of that sector plus
the words moved of it (`Progress`); that they are the right words (`Fetched`, `Sent`); and that between two
transfers the drive has at most the last sector of a write to store (`AtRest`), which is then what was
asked (`Storing`) though the next call has replaced parameters and buffer. `WordReady` is the argument why the driver needs no interrupt: it tests the status at multiples of the
sector size, and there, and only there, the drive can be busy. Nothing of it holds of a transfer after the drive has given up, but
`Failed`: the drive stands still.

`FileProofs` proves `TypeOK` and `OneOwner` of `Shell` for every disk, FAT, set of names and of texts
(`FileSystemAssumption`, `ShellAssumption`), for any commands, any number of boots and a power failure behind any
write. The theorems have two limits. One is assumed of the behaviour, `RootHasRoom`: the root directory gets no more entries than
`ROOT_ENTRIES`, which `fs.c` does not check. The other is in the model, which ends at the first lookup that strays and
when none of `Clusters` is free (section 3): a forged entry has a cluster that is not marked, and the marks behind the FAT
are not on the disk, so that `OneOwner` would not outlive either. The argument is about keys, the pairs of cluster and name of
the entries that are anywhere: on the disk, in the root buffer, in a directory's sectors, in a freed buffer that a lookup still
reads. A call moves entries from one buffer to another and changes their sizes, but not their keys (`Sound`, `States`, one
lemma for each function of `fs.c`); only `create_file` makes a new key, and its cluster was free in the
FAT (`CreatedSound`). The FAT is written before the directory, so on every disk that a power failure can leave the
cluster of a key is marked. The invariant, `ShellInv`, is `OneOwner` itself with the types of
all sectors (`ShellTypes`): it says that the keys have marked clusters and each cluster one name. `Navigate` is a recursive
function over the names of a path; that it has a value for every path (`LookupExists`) and that this is sound
(`LookupSound`) is proved by induction over sets of naturals (`InductionOnNat`, from `WFMin`), as the library's
induction theorem takes an operator and cannot be used here.

It also proves, for every disk, FAT, set of names and of texts and every depth of paths, `IsFileTree` and `NoLeak` of the
careful user (`ShellIsFileTree`, `CarefulNoLeak`; `UnitsAssumption` says that an entry is not taken for a byte, a zero or
NULL). The invariant is `CarefulInv`: at the prompt there are a tree `T` of paths and texts, an entry for each path and a place
for each entry, such that the state is tidy (`Tidy`, in `TreeProofs`) and the current directory is a path of `T`. A tidy
state has the entry of `dosi`, and no other, in the root directory; each entry has the name of its path and a marked cluster of its own; the
sector of a directory lists the entries of the paths below it from its first unit on, and zeros behind (`ListsBelow`); that of
a file holds its text and zeros (`HoldsText`). The tree is a variable of the argument and not `OnDisk`, which reads the sectors from the
root down: what a command reads and writes is then a statement about the one sector it names.

`TreeProofs` has the lemmas about the functions of `fs.c` in tidy states. A lookup finds
the entry of its path (`FindDir`, `FindFileDir`, by induction over the names: `Trail` is where it is after each), although
from the third name on it reads the size from freed memory: the name is there, so it stops in time. `CreatedTidy`, `WrittenTidy` and
`BootedTidy` say which tidy state a call leads to, and that the unreached clusters stay the same ones. The one that takes most is
`EditDirectoryIs`: the directory's sector is written, then its entry, from another buffer, to its parent, and when the parent
is the root directory to the buffer and the disk. `OnDiskIs` and `ReachedIs` say
that reading a tidy state gives its tree and its entries, so that the tree is what `FileTree` sees.

`FilesProofs` proves `TypeOK`, `AsCalled` and `OwnCluster` of `Files` for every disk, FAT, set of names and of texts and
every depth of paths. Three more assumptions are made: there is a cluster for the directory that `kmain` creates
(`FilesAssumption`; else the first call finds none before there is a tree), no name is misread (also there), and the bytes that `fat_delete_file` clears behind
the FAT are not those of the first entry of the root directory (`FileCallsAssumption`; they are those of the 22nd, and `Files` has one). The invariant,
`FilesInv`, is that the client's record `files` is the tree of a tidy state, and that no used cluster is without a path (`Holds`). Each
call has a lemma that says which tidy state it leads to: `ConcatenatedTidy`, `RenamedTidy`, `CopiedTidy` and `DeletedTidy`
here, `CreatedTidy` and `WrittenTidy` in `TreeProofs`; `move_file` is put together from two of them, as its copy leaves the
directory and the place of the file as they were. The limits of the calls are what these lemmas need. `remove_dir_entry` moves two
entries on for each one it keeps and never on in the new buffer, so that it leaves the right listing only when the
name is the first of one or two (`KeptEntriesIs`, `FirstOfTwo`); `rename_file` copies over the old name (`Covers`); after a `cat` the size in the entry is too small,
which `HoldsText` allows and a copy does not (`Settled`). Between the two halves of `delete_file` the state is not tidy, as the
cluster is free while its entry is still there: a tidy state is one that is `Listed` and `Used`, and
`FatDeleteIs` keeps the first while `RemovedListed` brings back the second for the paths that are left.
`AsCalled` and `OwnCluster` then follow from `OnDiskIs` and `ReachedIs`, the latter with a bijection from paths to clusters.

Only model-checked: liveness, which is out of this prover's reach (`CallReturns`, `KeysArrive`, `TransfersReturn`,
`RequestsServed`). Every invariant and every other property of a run that passes is a theorem.

## 7. Not modelled

* A heap whose sizes wrap, and a heap that is full under `getline` or the path string: in the plan above.
* Where the arena lies (`heap.h:16`): from 0x1000 on 4 MB, over video memory and the kernel's sections, to a page behind what is mapped.
* `load_shell` but for its `create_file`, `fat_clear_file`, `uread_file`, `strcpy`, `strncpy`,
  `irq_remove_handler`: no caller.
* GDT, boot loader, build files: constant tables, straight-line code, no state of
  the running kernel.
* Which characters commands print (`Printf` says what `printf` makes of a format, `Console` what the screen makes of
  characters), colours, and the setters of row and column.
* What a call does with a lookup that has strayed or with a NULL inode, and what the scan for a free cluster hands out
  behind `Clusters`: the model ends there.
* A name as a string: only that some names are read back as others. Names longer than 8.3, names with a slash in
  them, and the heap blocks that the file system leaks or gets as NULL.
