# fifth-kernel: a TLA+ model

A small RISC-V kernel (`src/src`): it parses the device tree, keeps a bitmap of
physical frames, builds Sv39 page tables, relocates itself to the upper half of
the address space with interrupts already on, and then loops printing, waiting
for the timer and making an ecall. This directory models it: the device tree parser,
the frame allocator, the page tables, the boot sequence and the traps, the ELF loader,
and the formatter all of them print with.

1. [The system](#1-the-system) (inventory)
2. [The modules](#2-the-modules) and how they correspond to the code
3. [The runs](#3-the-runs): what is checked, on what bounds, and what it shows
4. [Fairness](#4-fairness)
5. [The proofs](#5-the-proofs)
6. [What disagrees with its comments](#6-what-disagrees-with-its-comments)
7. [What is not modelled](#7-what-is-not-modelled)
8. [Plan](#8-plan)

## 1. The system

| Component | State | Operations | Talks to |
|---|---|---|---|
| Machine entry (`asm/init.S`, `main.c`, `priv.c`, `csr.c`) | mstatus.MPP, delegation, PMP, gp, sp, bss | `_start` → `kernel_start` → `set_priv_m` → `kernel_init` | runs once in machine mode, hands the blob's address over |
| Device tree parser (`fdt.c`, `string.c`) | `device_information`: RAM, blob, 64 `mapped_locations`; cell counts per depth | `print_fdt_info`, `parse_dt_struct` | read by frames and page tables |
| Frame allocator (`frame.c`, `mem.c`) | `frames`, one bit per 4 KiB frame, 1 GiB | `init_frames`, `allocate_first_frame`, `allocate_frame`, `allocate_n_frames`, `deallocate_frame`, `first_free_frame` | called by page tables |
| Page tables (`page.c`) | the tables in RAM, `ident_map_addr`, satp | `map_page`, `unmap_page`, `allocate_a_page`, `enable_paging`, `identity_map_memory`, `unmap_lower_half_kernel` | called by the boot sequence |
| Boot and relocation (`main.c`, `asm/post_relocation.S`) | pc, sp, gp, sscratch, the global offset pointers in the image | `kernel_init`, `kernel_main_hi`, `setup_post_relocation`, `modify_rodata_ptrs`, `kernel_main` | everything above |
| Traps and timer (`trap.c`, `asm/mtimer.S`) | stvec, sscratch, sstatus.SIE, mtimecmp, `counter` | `init_traps`, `enable_interrupts`, `naked_trap_handler`, `handle_interrupt`, `handle_trap` | strikes between any two instructions |
| ELF loader (`elf.c`) | the position in a file, the lowest address and the number of segments | `load_elf`, `load_exec_elf`, `elf_get_shent`, `elf_get_phent` | called once by `kernel_main`; prints |
| printf (`printf.c`), putchar | per call: the place in the format, `idx`, the array `buf` of a conversion | `printf`, `sprintf`, `snprintf` and their v-forms, all `_vsnprintf` | called everywhere, by the trap handlers too; `parse_dt_struct` uses the value returned |

There is one hart (`run.sh` passes `-smp 1`) and no scheduler. The concurrency is
between the kernel and its own interrupt handler; the hard parts are:

* **The hand-over to the high half.** The trap vector is high, the stacks are low,
  interrupts are on, and sscratch is relocated by swapping it into sp. At every
  instruction what is touched next must be mapped, for the kernel and for a handler
  that may start there.
* **Results that nobody looks at.** `enable_paging` ignores every result of
  `map_page`, nobody tests `allocate_first_frame` for -1, `kernel_init` ignores
  `print_fdt_info`. What fails shows up somewhere else, later.
* **Partial effects.** `map_page` links tables before it knows that the last entry
  is free, and makes an entry valid before there is a table behind it.
  `allocate_a_page` takes a frame before it has a place for it.
* **Limits.** A bitmap larger than RAM, a search without a bound, a bound in bytes
  where bits are meant, arrays of 32 and 64, cell counts of zero.
* **Progress.** Only the timer ends a `wfi`, and only the timer's handler arms it.
* **Formatting without a heap.** A number is built backwards in 32 characters, with
  zeros, prefix and sign competing for them, and sent off one character at a time while
  a trap handler may print too.

What makes each component correct:

* *Frames*: memory in use (image, blob, held frames) is marked; no frame has two
  owners; nothing is lost; RAM is used before the frames behind it.
* *Page tables*: the tables are a tree of fixed depth in frames of their own; a
  failing call changes nothing; a call changes the block it names and nothing else;
  pages handed out are private.
* *Boot*: nothing unmapped is ever touched; the final address space is the image
  high, the devices, the window on RAM, and nothing else.
* *Traps*: what is interrupted is resumed as it was; the main loop goes on for ever.
* *Device tree*: the regions recorded are those of the tree.
* *ELF loader*: it reads nothing outside a well-formed file, returns, and finds the
  segments to load.
* *printf*: what is printed reads back as what was passed; no array and no buffer is
  left; the value returned is the length; messages do not mix.

`PROJECT.json` lists under "hazards" the places in the code where each of these is
at risk, with the properties that watch them.

## 2. The modules

```
FramePool      Frames ──────────────┬──────────────┐            AddressSpace
    ▲             ▲                 │              │                ▲
    │ implements  │ EXTENDS         │ EXTENDS      │ EXTENDS        │ implements
    └────── FrameAllocator    FrameTheorems     PageTable ──────────┘
                  ▲                 ▲              ▲      implements
                  └── FrameAllocatorProofs        Boot ──────────────► BootPlan

    PageTable, FrameTheorems ◄── PageTableProofs ◄── PageTableRefinement
    Boot, PageTableRefinement ◄── BootProofs

    Fdt ◄── FdtProofs        Elf ◄── ElfProofs        Printf ◄── PrintfProofs
```

`device_information` is where Fdt ends and the others begin: FrameAllocator and
PageTable take RAM and the blob, Boot takes the regions as a constant, so that boards
can be chosen that no reasonable blob describes.

**Frames** has the bitmap as pure operators. The array of bytes is a function from
byte index to the set of its 1 bits; `FirstFreeFrame`, `AllocateFrame`,
`DeallocateFrame`, `AllocateNFrames`, `InitFrames` are the functions of `frame.c`
with the same arithmetic on bytes and bits. The search of `first_free_frame` has no
bound; a result past the array is `NumFrames`, because both callers treat all such
numbers alike. `allocate_frame`'s (size_t)-1 is `NoFrame`.

**FrameAllocator** is the allocator as a state machine: `frames` is the bitmap, `dev`
is `device_information` (the blob and RAM), `held` is a history of the frames that
callers have. Actions: `AllocateFirstFrame`, `Deallocate(f)` for a held frame (what
the only caller, `allocate_a_page`, does). **FramePool** is its abstraction: frames
available and frames taken.

**PageTable** is `page.c` over the bitmap of Frames, from the moment `enable_paging`
has allocated the root. `mem` is every page of RAM read as a table; an entry is empty,
a table or a leaf (the code always sets r, w and x together). A call is one step: the
kernel calls these functions one at a time and the handler calls none of them. Inside
a call, a *walk record* carries memory, bitmap and early return through the
iterations of the loop in the code's order (`MapWalk`, `NextTable`, `NewTable`,
`SetLeaf`; `UnmapWalk`, `FindTable`, `ClearEntry`), so a half finished call leaves
what the code leaves. `NextTable` returns early exactly where the code does.
Touching a page outside RAM faults, and the fault handler never returns: `halted`.
**AddressSpace** is the abstraction: a partial function from virtual to physical
pages, changed one block at a time. Its variable `call` says for which block: `last` of
PageTable records the operation, its result and the block of its arguments (for
`allocate_a_page`, which has none, the page it returns), taken from the call and not from
the tables, and the refinement mapping hands it over. So a call that changes another
block than the one it was asked to, or another physical page, is no step of AddressSpace.

**Boot** adds the processor to PageTable: `at` is the next step of the kernel, `cpu` has pc,
sp, gp, sscratch, stvec and SIE, the privilege mode and MPP, whether traps are delegated and
memory is opened by the PMP, and `x`, two values for all other registers: `moved` for those
that `setup_post_relocation` relocates if they hold an address of the low image, `shifted`
for fp, s2 and t0, to which it adds the distance whatever they hold. (It leaves a0, which is
the distance, tp, which nothing uses, and ra, which its next `call` overwrites; so does the
model.) What compiled code leaves in them is a constant, `Leftovers`; a handler leaves
something else there (`Clobbered`). `trap` is the trap being handled with the
`register_state_t` the handler saves: `regs.mepc` is the instruction to return to and its
page, which `handle_trap` changes for an ecall and the return goes by; `saved` is a history
of the registers at the moment of the trap, which no step reads. The steps are those of
`_start`, `kernel_start`, `set_priv_m`, `enable_paging`, `init_traps`, `kernel_main_hi`,
`setup_post_relocation`, `modify_rodata_ptrs`, `kernel_main` and the trap handler, in order;
the loops of `enable_paging` and `unmap_lower_half_kernel` are steps too, one for each call
of `map_page` or `unmap_page`, with `page` and `slot` as their variables. `Touches` says
which pages the next step needs, and the physical pages they must translate to; a step that
prints also jumps through the tables in `.rodata` (`JumpTargets`). A step whose pages are
not mapped, or that the mode does not allow (`Able`), cannot be taken, and `PageFault` hangs
the machine instead. Addresses are pages, so what a relocation does (add the distance
between the halves if the value lies in the low image) is arithmetic on pages. **BootPlan**
is its abstraction: an address space that is filled page by page, then switched on, then
left by its low half, which is taken away. It knows of no tables, registers, loops or
interrupts; the mapping translates every page through the tables and takes the half from the
pc (in a handler, from the pc saved).

**Fdt** is the device tree parser, a token per step: `node_index`, `node_arr` and the
two arrays of cell counts are the code's variables, `slots` is `mapped_locations`. The
blob is not stored: each step chooses the next token among those a tree with its
properties before its children may have, plus an `FDT_END_NODE` too many, a second
root, and `FDT_END` at any time. The history `open` is the stack of open nodes with
what they declared, `regions` what the tree gives its devices by the format's own
rules (`RegionsOf`), and `plain` whether the tree has had only the shapes the parser
is meant for (`Supported`). `Decode` is what the loop over the ranges reads instead,
always 64-bit numbers, past the end of the property if the counts are wrong
(`Beyond`). Element -1 of the arrays, which the end of the root reads, holds any
value of `Garbage`. Division by zero cells gives -1, as RISC-V's `div` does. All that is
said of the parser is said of such blobs: in none of them does a property stand before
the first node or behind a node's children, the root have a `reg`, or a `reg` end inside
a region.

**Elf** is `load_elf` and `load_exec_elf`, a turn of a loop per step. A file is what the
loader reads of it: which checks of the header it fails (`bad`), its type, place, count
and entry size of both tables, e_shstrndx, offsets of names, type and address of
segments. `Half` is the 16 bits of the counts and the loop counters. `reads` is a history
of the bytes the last step read; `size` and `WellFormed` say which belong to the file
(the loader is not told). `loads` and `lowest` are `load_segments` and `lowest_virt_addr`.

**Printf** is `_vsnprintf` and what it calls. An item of a format is what stands between
the `%` and its letter, with the argument passed for it; `Width`, `Precision`, `Flags`,
`Argument` and `Magnitude` read it in the code's order. `Ntoa` is `_ntoa_long` with
`_ntoa_format`: the array `buf` as a sequence, last digit first (`Quotients`, `Digits`,
`PadZeros`, `PutPrefix`, `PutSign`, each with its own test for room). `Text` is what an item
prints. `DenotesNumber` is a reader of that text, digit by digit, who knows nothing of `buf`;
`Fits` are the limits within which the reader finds what was passed.
The state is a stack of calls, the kernel's and that of a handler that interrupted it;
`Convert` reads an item, `Emit` is one `out(ch, buffer, idx++, maxlen)`, `Terminate` the
NUL, `Return` the return. A conversion touches only the call's own frame, so that
separating it from its output loses no interleaving. Characters are numbers: a digit is
its value, and upper and lower case are not told apart.

Modules named MC* give the constants small values. Operators commented "Mutant"
are wrong variants of the definition that follows them: each property has one that
breaks it (PROJECT.json, "mutants"), which shows that the property depends on the
code being as it is.

## 3. The runs

| Run | Result | What it shows |
|---|---|---|
| `device_tree` | holds | `CellsFollowTheTree`: every level has the cell counts of the innermost open node that declares any; `RegionsAreThoseOfTheTree`; `RecordedRegionsStay`: a slot once used is never overwritten |
| `frames` | holds | memory in use stays marked; only frames from `sizeof(frames)` up are lost; a frame past RAM is handed out only when RAM is full; the allocator implements FramePool |
| `frames_freed` | violated | frames are lost (section 6) |
| `page_table` | holds | after any sequence of calls of any size: a tree (`TablesFormATree`), private pages (`HandedOutPagesArePrivate`, `PagesAreHandedOutOnce`), no effects of failing calls (`FailedCallsChangeNothing`), no mapping redirected (`MappingsAreStable`) |
| `address_space` | holds | with pages and gigapages the tables implement AddressSpace: every change is that of the block the call was given, aligned or not, and of nothing else |
| `megapage`, `unmap_size` | violated | section 6 |
| `boot` | holds | `BootNeverFaults` on an adequate board; `OnlyAdequateBoardsRun`: any other hangs before the loop of `kernel_main`; `BootedAddressSpace`; `NoLowAddressIsLeft`; `TrapsAreTransparent` (the instruction, its page and all registers); `BootFollowsPlan` (the boot implements BootPlan); `MainLoopRuns`: it prints and sleeps again and again |
| `kernel_window` | violated | section 6 |
| `elf` | holds | `ReadsStayInFile` for a well-formed file; `SegmentsAreThoseToLoad`; `LoadElfReturns` with counts up to the largest |
| `elf_dynamic` | violated | section 6 |
| `printf` | holds | `ConversionsReadBack`: a number printed reads back as the value passed, in its field, if it is within the limits of `Fits` and only then; `BufSuffices`; `BufferIsRespected`; `ReturnsTheLength`; `OutputIsNotMixed` with a handler that prints between any two characters |

Bounds, and why they are enough:

* *Fdt.* Four nodes (`MaxNodes`), three levels, two slots: a node can follow a subtree
  that declared other counts, at depth one and two, and the slots run out. A tree
  deeper than `Levels` is not considered: the code has no test, and what lies behind
  its arrays is not its own. Cell counts are 0 and 2, garbage is 1, a cell is a digit
  below 10. The values of `reg` have a region at address zero, one of size zero and
  an empty one. `nodes` and the depth bound the blob; its properties are bounded by
  their appearing once per node.
* *FrameAllocator.* The bitmap has 4 bytes (32 frames), so the bound of
  `deallocate_frame` (4) lies inside the first byte, and byte and bit boundaries are
  crossed. At most 3 frames are held (`MaxHeld`); the histories differ in which
  frames were lost, so the bitmap still fills up completely. Four boards: RAM
  smaller, equal, larger than the bitmap; the blob behind the image, in the middle
  and at the end of RAM, on a size that is and one that is not a multiple of 4096.
* *PageTable.* Tables of 2 entries and three levels: 8 virtual pages, enough for two tables
  of each level and for each size of page. Four frames of RAM are free, one of them the
  root, so memory runs out between the two tables of one walk; the bitmap covers two frames
  past RAM (the kernel's covers 1 GiB), so calls run into a frame that is not there, and
  then into -1. Every interleaving of map, unmap and allocate_a_page over 3 addresses and 2
  ppns (one aligned to every size and one to none, in both runs), with satp written at any
  point between. Before memset a page holds leaves and pointers (`Stale`).
* *Boot.* Tables of 4 entries, 64 pages. RAM of 16 pages with an image of 3; the page behind
  the image is free, as in the real layout. Five device trees: regions of a page and less,
  an unused slot, overlapping regions, too many tables for RAM, and no CLINT. The stack and
  the trap stack share a page, as neighbours in .bss do. The counter is modulo 4. The other
  registers hold an address of the image, or none. The words of `.rodata` are pointers
  before other data, other data before a pointer, and data that looks like an address; the
  timer is armed, fired or out of reach at reset.
* *Elf.* A `Half` counts to 4, so the largest count is 3 and one more wraps: files with
  section headers of three bytes and program headers of two, tables missing or of every length
  up to 3, a file cut short, every check of the header failing, and segments of all kinds.
* *Printf.* Every size is a quarter of the kernel's: a long has 16 bits and `buf` 8
  characters, so that, as with 64 bits and 32 characters, a binary number overflows it
  and no other does. Items: every conversion with ten sets of flags, widths and
  precisions below, at and above the number of digits and the size of `buf`, and for
  each length the values where it wraps. Handlers interrupt a message of six items,
  twice, whose output is the console, nothing, or a buffer of size 0, 1, 5 or unlimited.

`BootNeverFaults` and `MainLoopRuns` are stated for an *adequate* board: one that has
the UART and the CLINT among its regions, frames for all tables, and an image whose
jump tables stand first in `.rodata` with a word behind them that is no address
(`PointersFirst`, the open question of the TODO at `main.c:21`). `MainLoopRuns` also needs a
timer that will fire. These are conditions on hardware and linker, not on the code;
device trees and images that fail them are in the run so that the fault paths are taken.
`OnlyAdequateBoardsRun` is about those: no result is tested and no condition checked, and yet
a kernel that gets to its loop has had the UART, frames for all tables and every pointer
moved, because without one of them it hangs before. (The CLINT is not among them: nothing
needs it until the first interrupt.)

## 4. Fairness

`LoadElfReturns` assumes weak fairness of the loader's steps: the kernel executes the call
it has begun. `MainLoopRuns` needs more. `SpecBoot` assumes

* weak fairness of the handler's steps, of a page fault, and of `Tick` (mtime reaches
  mtimecmp): the processor and its clock go on;
* strong fairness of the kernel's own steps. It is what the code's timing gives:
  `handle_interrupt` sets mtimecmp 1000000 ticks ahead, so that between two interrupts
  the interrupted code executes many instructions. The formula spells
  ENABLED out (`KernelIsNext`).

No fairness is assumed of `WakeUp` (an implementation may let `wfi` return early, and
need not): the loop runs because the handler rearms the timer. No code of the kernel
writes mtimecmp before the first interrupt, so `MainLoopRuns` excludes a timer that
never fires (or whose interrupt the hart does not delegate, section 7). It asks for both
a turn to begin and the `wfi` to be reached, again and again, so neither printing for ever
nor sleeping for ever will do.

## 5. The proofs

`FrameTheorems` has lemmas about the operators of Frames, for every size of bitmap:
what `first_free_frame` returns is the least clear bit (`FirstFreeFrameIsLeast`), and
which frames are marked after each operation (`AllocateFrameMarks`,
`DeallocateFrameClears`, `AllocateNFramesMarks`). They turn arithmetic on bytes and
bits into statements about sets of frames, once; nothing else needs it.

`FrameAllocatorProofs` proves for every bitmap, every set of boards and every bound on
holders:

| Theorem | Says |
|---|---|
| `TypeCorrect` | `Spec => []TypeOK` |
| `MemoryInUse` | `Spec => []MemoryInUseIsAllocated` |
| `LossesAreHigh` | `Spec => []LostFramesAreHigh` |
| `SpillsWhenFull` | `Spec => SpillsPastRamOnlyWhenFull` |
| `ImplementsPool` | `Spec => PoolSpec` |

The inductive invariant is `IInv == TypeOK /\ MemoryInUseIsAllocated /\
LostFramesAreHigh`. The conjuncts need each other: a frame can be freed without
clearing a mark of the image only because no caller holds a frame of the image, and
a frame can be handed out without having an owner already only because what is held
is marked. `Init => IInv` is where `page_of` and `pages` of `init_frames` are shown to
cover exactly the frames the image and the blob overlap.

`FdtProofs` proves for arrays, trees, slots and values of any size:

| Theorem | Says |
|---|---|
| `FdtTypeCorrect` | `Spec => []TypeOK`, with `Depth = node_index + 1` |
| `FdtCellsFollow` | `Spec => []CellsFollowTheTree` |
| `FdtRegionsSound` | `Spec => []RegionsAreThoseOfTheTree` |
| `FdtRegionsStay` | `Spec => RecordedRegionsStay` |

The invariant is `TypeOK /\ CellsFollowTheTree /\ RegionsInv`. `CellsFollowTheTree` is
inductive only as a statement about *all* levels, the ones below the open nodes
included, because a node that begins inherits from its array elements; lemmas
`InheritsBegin`, `InheritsEnd`, `InheritsDeclare` say how it survives. It gives the
counts with which a supported `reg` is decoded (`CellsOfTheParent`), and with these
the decoding agrees with the format (`DecodeReadsTheRegions`). `RegionsInv` adds to
`RegionsAreThoseOfTheTree` that what is yet to be recorded belongs to the tree too.

`ElfProofs` proves for files and counters of any size:

| Theorem | Says |
|---|---|
| `ElfTypeCorrect` | `Spec => []TypeOKElf`: the loop counters stay within their 16 bits |
| `LoaderReadsTheFile` | `Spec => []ReadsStayInFile` |
| `LoaderFindsItsSegments` | `Spec => []SegmentsAreThoseToLoad` |

The first rests on `NextHalf`: below a count that is a `Half`, adding one does not wrap.
The second splits a read into header, table entry and name; `EntryInTable` is the
arithmetic of the entry, index * size. For the third the invariant says what
`SegmentsAreThoseToLoad` says of the whole table of the entries before `i`
(`LoadsAmong`), and `TurnDescribes` is one turn of the loop.

`PrintfProofs` proves for arrays, lengths of integers, formats and outputs of any size:

| Theorem | Says |
|---|---|
| `PrintfTypeCorrect` | `Spec => []TypeOKPrintf` |
| `AllReadsBack` | `Spec => []ConversionsReadBack` |
| `BufAlwaysSuffices` | `Spec => []BufSuffices` |
| `SizeIsRespected` | `Spec => []BufferIsRespected` |
| `LengthIsReturned` | `Spec => []ReturnsTheLength` |
| `MessagesDoNotMix` | `Spec => []OutputIsNotMixed` |

Digits and readings are functions defined by recursion, and what they are must be proved by
induction. The library's theorems on induction take an operator as a parameter and cannot be
used; `SetInduction` and `Recursion` state them of sets and of functions instead, and come
from the library's theorem that the finite sets are well-founded under strict inclusion.
`QuotientsAre`, `RoundsAre` and `DigitsAre` then say what `value /= base` leaves and how
often, and that every digit is one: that is `PrintfTypeCorrect`.

`AllReadsBack` goes through the layout of a text (`NtoaLayout`, `NumberLayout`, `Places`):
spaces, sign, prefix, zeros, the digits kept, spaces, each part there or not by the tests
for room. `ReadsBack` is the arithmetic of the reader: digits d_m ... d_1 behind zeros read as
the number if nothing was left of it, and as less otherwise. `FitsKeeps` and `KeepsFits`
are the limits: within `Fits` no part is missing, and if no part is missing the number is within
`Fits`. One lemma for each part says that the reader sees it exactly if it is there
(`NumeralIs`, `SignsAreShown`, `DigitsAreShown`, `LetterIsShown`, `OctalIsShown`, `WidthIs`);
together they are `NumbersReadBack`, in both directions. The one exception is a space asked
for instead of a sign (`SpaceAsSign`), which may be lost where padding stands in its place.

`BufAlwaysSuffices` is a chain of lemmas, one for each writer of `buf` (`DigitsFit`,
`ZerosFit`, `PutFits`, `PadZerosFit`, `PutPrefixFits`, `PutSignFits`, `NtoaFits`). The next
two come from the invariant that every call in progress is a `GoodCall`: what is pending is
the end of the text and idx the place where it begins; the buffer holds the text before idx
as far as it fits, and a NUL once the call is done; nothing is written past the size.
Neither property alone is inductive: that a character lands where it belongs needs both.
`ConvertedIsGood`, `EmittedIsGood` and `TerminatedIsGood` say that each step keeps a call
good; an interrupt adds a good call and leaves the others as they are. `OutputIsNotMixed`
counts what the kernel's call has printed and what of it is on the console by ranks, so that
no sequence has to be filtered. `OutputInv` adds to it the good calls, that there are at
most two, and that the handler's characters are all on the console; a step either sends
nothing (`QuietStep`), or is a character of the kernel's call or of a handler's, whose place
and rank are the next ones (`KernelSends`, `HandlerSends`, `RankOfNext`).

`PageTableProofs` proves for tables, RAM and bitmaps of any size and every sequence of calls
of all sizes:

| Theorem | Says |
|---|---|
| `PageTableTypeCorrect` | `Spec => []TypeOK` |
| `TablesStayATree` | `Spec => []TablesFormATree` |
| `PagesArePrivate` | `Spec => []HandedOutPagesArePrivate` |
| `HandedOutOnce` | `Spec => PagesAreHandedOutOnce` |
| `FailuresAreClean` | `Spec => FailedCallsChangeNothing` |
| `MappingsStayPut` | `Spec => MappingsAreStable` |

The invariant is `IInv == TypeOK /\ TablesFormATree /\ DataInv /\ NothingHandedOutYet`. Of
`TablesFormATree`, `TablesAreAllocated` (the frames of tables, and boot memory, are marked in
the bitmap) makes the frame of a new table one that is no table yet (`NewFrame`), and
`ParentsAreUnique` (no two entries point to one table) makes a write to an entry change the
translation of the pages that read it and of no others (`WritingOneEntry`). `DataInv` says of
the pages handed out what `TablesAreAllocated` says of tables, so no table is ever put there.
`NothingHandedOutYet` (satp is written before a page is handed out) is needed because
`allocate_a_page` maps into the table of satp.

A call is a chain of walk records, so the invariant is stated of a record (`GoodWalk`), and
one lemma for each link says what it does: `NewTableLinks`, `NextTableStep`, `MapWalkStep`,
`SetLeafStep`, `FindTableStep`, `UnmapWalkStep`, `ClearEntryStep`. Between two links a walk
`Grows`: tables and marks are added, none goes, and no page translates differently
(`LinkingKeepsTranslation`, because a new table is empty). A walk is `Fresh` if it has
either done nothing or made a table. A walk that made a table stands at an empty one and
cannot fail any more. This is why errors are clean although `map_page` links tables before
it looks at the last entry.

`PageTableRefinement` proves `ImplementsSpace`: with pages and gigapages, `Spec => SpaceSpec`
under the mapping that translates every virtual page through the tables and hands over
the block of the last call's arguments. Because the abstract step must be that of this
block, the theorem says that the indices the walk uses lead to the entry of the page
the caller named, and to no other. A virtual page is its three indices (`VpnDigits`), so
the block named is what reads the one entry the call writes, and `WritingOneEntry` turns
the write into a change of the block. With megapages the statement is false: `map_page`
maps some other free block than the one named (section 6, run `megapage`), which would be
a step of an address space whose calls did not name their blocks, and is none of this
one; TLC finds that step when MAP_MEGAPAGE is added to `address_space`. So the theorem
excludes them. The module goes on with what the boot needs: in tables that hold pages only
(`Paged`), `map_page` of a page never stops on its way and `unmap_page` removes what it is
given (`MapPagePaged`, `UnmapPagePaged`); and if every table leads to a page of a set V
(`TablesFor`), a bitmap with `Enough` free frames for the first indices and the pairs
of indices of V never runs out while V is mapped (`FrameIsLeft`, `MapPageAccounted`).

`BootProofs` proves for every image, board, device tree, `.rodata` and moment of an
interrupt:

| Theorem | Says |
|---|---|
| `BootTypeCorrect` | `SpecBoot => []TypeOKBoot` |
| `TrapsTransparent` | `SpecBoot => TrapsAreTransparent` |
| `NothingStaysLow` | `SpecBoot => []NoLowAddressIsLeft` |
| `AddressSpaceAfterBoot` | `SpecBoot => []BootedAddressSpace` |
| `BootNeverHangs` | `SpecBoot => []BootNeverFaults` |
| `OthersNeverLoop` | `SpecBoot => []OnlyAdequateBoardsRun` |
| `ImplementsPlan` | `SpecBoot => BootFollowsPlan` |

The invariant has six parts.

* `IInv` of the page tables: every step of Boot is a call of PageTable, or leaves its
  variables alone.
* `TrapInv`: each step of the kernel finds its own values in pc, sp, gp, sscratch, stvec and
  the mode (`Registers`, a table with a line per register); inside a handler they are these
  values with sp and sscratch swapped, and saved (`InTrap`). It covers the three steps of
  `setup_post_relocation` where sscratch holds the kernel's stack. Of the other registers
  it says that from there on they are `Clean`, which the relocation makes them whatever they
  held (`CleanRegisters`; no sum with the distance lies in the low image, by the layout of
  the address space). It is inductive by itself and gives `TrapsTransparent` and
  `NothingStaysLow`.
* `LoopInv`: `page` and `slot` are within the bounds of the loop `at` stands in.
* `RodataInv`: a word has moved if and only if the kernel is past `modify_rodata_ptrs` and every
  word up to it was linked into low RAM.
* `SpaceInv`: the tables hold pages only, and what they translate is exactly `Done`, the set
  of pages the loops have come to less those taken away, each to its `Target`. Regions may
  overlap each other and the image: then `map_page` refuses, and what is there leads where
  the call would have led it (`MapCall`). This gives `AddressSpaceAfterBoot`, which needs no
  adequate board: without frames the kernel hangs before it comes so far.
* `FramesInv`: on an adequate board nothing hangs, and while paging is set up every marked
  frame is boot memory or a table that leads to a page of `Needed`.

`BootNeverHangs` follows from the last two: `RegistersAreServed` says that the addresses in
the registers are `Served` at the step (high ones always, low ones until the low half goes),
`ServedIsMapped` that these are in `Done` with the right target, `TouchedIsMapped` that this
is all a step, a handler or the entry to a handler touches, and `AdequateStays` that
the frames suffice.

`OthersNeverLoop` needs no adequate board either: it says what a kernel that has come to its
loop has shown of its board. The code looks at no result, so the argument is about
what would have hung. `FramesSufficed`: paging is turned on only by a kernel that did not
hang in the loops before, so all of `Needed` is mapped, so there were tables for it, each
in a frame of its own (`CompleteTablesNeedFrames`; `TablesAreEnough` counts the tables
that a set of mapped pages needs). `PrintingWorked`: `load_elf` prints when the low half has
gone, so the UART was mapped, and as `Done` is then the devices and the high half, it is
one of the devices; and a pointer of a jump table that was not relocated would have led to
a page that is gone (`PrintingNeedsPointers`).

`ImplementsPlan` needs no adequate board. Each call of `map_page` is BootPlan's `Map` or a
stutter, or gets stuck (`PlanMap`); the write of satp and the jump find every page in place
because `SpaceInv` says that `Done` is all of the plan at these steps (`PlanTurnOn`,
`PlanMoveHigh`); each call of `unmap_page` takes a low page (`PlanRemove`); and
`HalfByStep`, `HalfByNextStep` say in which half the pc is before and after each step, a trap
included. All other steps stutter.

Assumptions. `PageTableAssumption` and `RootFrameAssumption`: tables have at least two
entries, RAM is not empty, and `init_frames` leaves a frame of RAM for the root.
`BootAssumption`, `LayoutAssumption` and `RodataAssumption`: the types of the constants, the
order of image, devices, high half and window in the address space (`page.h:26-28` and
`linker.ld`), the image ending below the distance to the high half, and that `.rodata` is
loaded as it was linked, its jump tables leading into the image. `ElfAssumption` and
`PrintfAssumption` are the types of files, with tables below 2 GiB (`MaxInt`), and of
formats (an item of a number has its argument); `FrameBytesAssumption` (the bitmap is not
empty) and `BoardAssumption` (RAM, image and blob are aligned as the linker script and the
loader align them and lie within RAM); `FdtAssumption` (arrays have a level, cells are
digits below `Word`, counts and garbage are numbers). TLC evaluates them for its instances.

Only model-checked: the liveness properties `MainLoopRuns` and `LoadElfReturns`, which need
fairness and ENABLED, outside the prover's reach. Every invariant and every other property of
the runs that hold is a theorem. The properties of section 6 are violated, and there is
nothing to prove of them.

What the proofs changed in the model: two limits of `Fits` were too strict (the zero of an octal
prefix may be one of those the precision asks for; a prefix behind a precision does not
share the zeros of the width), and a lost `+` was not noticed by `DenotesNumber`. Definitions
by CASE whose arms overlapped, in Printf and Elf, are IF chains now: TLC takes the first arm,
the language any.

## 6. What disagrees with its comments

* `frame.c:7`: "enough data to allocate up to 1 GiB in frames". `deallocate_frame`
  (`frame.c:35`) tests against the size in *bytes*: frames from 128 MiB on are never
  freed. Run `frames_freed`: an allocation and a deallocation, and a frame is lost.
* `page.c:71`: "Map the page". For a megapage the walk starts at `vpn_arr[1]` and uses
  it twice; the address mapped is another one. Run `megapage`.
* `page.c:132`: unmapping with "the incorrect page size" is an error. The last entry is
  only tested for v, so a larger size than was mapped drops a subtree. Run `unmap_size`.
* `page.c:176`, `180`: "kernel pages". The loop includes the page behind the image, which is
  the root page table. Run `kernel_window`.
* `elf.c:147`, `150`: "ELF is DYNAMIC", "ELF file is not an executable". The test before them
  (`elf.c:146`) is inverted: a dynamic file gets the second message, and relocatable and
  core files the first. Run `elf_dynamic`.

Without a run of their own, because no comment promises otherwise or the kernel never
does it:

* `printf.c:244`: with `#` and without a precision, digits that fill the width are dropped
  for the prefix (`%#4x` of 0x1234 prints 0x34, `%#05x` of it 0x234). `Fits` states exactly
  when, and `AllReadsBack` proves that this, and a lack of room in `buf`, is all that spoils
  a number.
* `printf.c:230`: the precision of a number is ignored with the `-` flag.
* `printf.h:69` says that sprintf returns the number of characters "WRITTEN into the buffer";
  with a NULL buffer none is written and the length is returned, which
  `parse_dt_struct` relies on.

## 7. What is not modelled

* **Floating point in printf** (`_ftoa`, `_etoa`): the kernel prints no double, and TLA+ has
  none. **`fctprintf`**: nobody calls it. The width of idx and of the value returned: a text
  of 2^31 characters.
* **Console, build, `add.S`, `memcpy`, `memset`**: a store, a sum, two loops, or no part of
  the kernel.
* **ELF fields that are only printed**, and `elf_get_str` and `load_dynamic_elf`, which return
  nullptr. **Overflow in the place of an entry** (`elf.c:8`, `:16`): `index * e_shentsize` is a
  product of two 16-bit numbers in a 32-bit `int`, so that it overflows in a well-formed file
  too, if a table has 2 GiB or more; the sum with e_shoff only in a file that is not
  well-formed. Elf computes without width, for files with tables of at most `MaxInt`
  bytes (`ElfAssumption`). The one file the kernel loads is a test program inside its image.
* **More harts** (`asm/init.S:13` lets 32 run on, with one stack): `run.sh` starts one.
* **A blob without magic number** (`main.c:56` ignores the result): Fdt stops there with
  nothing recorded; the boards of Boot and FrameAllocator have RAM and a blob.
* **Device tree blob**: its bytes, alignment of tokens, names beyond the prefixes that
  count, and the list of reserved blocks, which is only printed. A node of more than
  `Levels` levels.
* **Which words `.rodata` holds**: it depends on the linked image. Boot considers several.
* **Megapages in `address_space`**: they do not implement it, because the block they change
  is not the one the call names (section 6); they are in `page_table`, where the tree
  and stability still hold.
* **Interrupts other than the timer.** `sie` = 0xFF (`trap.c:153`) enables bits 0 to 7: the
  timer interrupts of supervisor and machine, 5 and 7, and the software interrupts, 1 and 3.
  Nothing in the kernel raises a software interrupt (it writes no `sip` and no `msip`), and
  external interrupts, 9 and 11, stay disabled. Nested traps: sstatus.SIE is clear in a
  handler.
* **What the hart does with `mideleg`** (`main.c:91-93`). The register is WARL, and the
  privileged specification lets a hart refuse to delegate the machine's own timer interrupt,
  which is the one mtimecmp causes. Then no timer interrupt ever reaches the kernel: in Boot
  that is a timer that is "never" due, for which `MainLoopRuns` promises nothing. That the
  bit is taken is an assumption on the platform, and `MainLoopRuns` is worth as much as it
  is.
* **TLB**: `map_page` and `unmap_page` end with `sfence.vma`, and before satp is written
  nothing is cached; translation is by the tables as they are.

## 8. Plan

In order of importance; all of it is done but the last.

1. Frames, FrameAllocator, FramePool; run `frames`; IInv and its theorems.
2. PageTable, AddressSpace; runs `page_table`, `address_space`.
3. Boot with traps, the machine-mode entry and `.rodata`; run `boot`.
4. FrameTheorems, FrameAllocatorProofs.
5. Fdt, FdtProofs; run `device_tree`.
6. Elf, ElfProofs; runs `elf`, `elf_dynamic`.
7. Printf, PrintfProofs; run `printf`.
8. PageTableProofs: types, the tree, private pages, clean failures, stable mappings.
9. PageTableRefinement: the tables implement AddressSpace.
10. BootProofs: registers and traps, the address space, no fault on an adequate board.
11. OutputIsNotMixed without `SelectSeq`, so that it can be proved.
12. BootPlan and its refinement; induction, types and the reader of PrintfProofs.
13. The block of a call in the refinement of AddressSpace; the other registers and boards that
    are not adequate in Boot.
14. *Left:* what Boot and FrameAllocator take as given of the device tree (regions below the
    high half, RAM and blob present), stated of Fdt's result.
