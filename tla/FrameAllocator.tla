--------------------------- MODULE FrameAllocator ---------------------------
(***************************************************************************)
(* The frame allocator of src/frame.c as a state machine: init_frames at   *)
(* boot, then any sequence of allocate_first_frame and deallocate_frame    *)
(* calls by kernel code that frees only what it was given.                 *)
(*                                                                         *)
(* `dev` is device_information as the device tree parser left it.  `held`  *)
(* is a history variable: the frames callers were given and have not freed.*)
(***************************************************************************)
EXTENDS Frames

CONSTANTS
  KernelStart,  \* kernel_start_addr, kernel_end_addr: the image, from the
  KernelEnd,    \* linker script, both multiples of 4096
  Boards,       \* the device_information records considered
  MaxHeld       \* bound on the frames held at once (limits the model only)

(***************************************************************************)
(* What a board guarantees: the kernel image and the blob lie in RAM, the  *)
(* part of RAM they lie in is covered by the bitmap, and the loader put    *)
(* the blob on a page boundary.  (QEMU's virt board aligns it to 2 MiB.)   *)
(***************************************************************************)
WellFormedBoard(d) ==
  /\ d \in [ram_start : Nat, ram_size : Nat, dtb : Nat, dtb_size : Nat]
  /\ d.ram_start % 4096 = 0 /\ d.dtb % 4096 = 0
  /\ d.ram_start <= KernelStart
  /\ KernelEnd <= d.ram_start + d.ram_size
  /\ d.ram_start <= d.dtb
  /\ d.dtb + d.dtb_size <= d.ram_start + d.ram_size

ASSUME BoardAssumption ==
  /\ KernelStart \in Nat /\ KernelEnd \in Nat /\ KernelStart <= KernelEnd
  /\ KernelStart % 4096 = 0 /\ KernelEnd % 4096 = 0
  /\ \A d \in Boards : WellFormedBoard(d)
  /\ MaxHeld \in Nat

VARIABLES frames, dev, held

vars == <<frames, dev, held>>

RamFrames(d) == d.ram_size \div 4096

Init ==
  /\ dev \in Boards
  /\ frames = InitFrames(dev, KernelStart, KernelEnd)
  /\ held = {}

\* allocate_first_frame(): the caller owns the result unless it is NoFrame.
AllocateFirstFrame ==
  LET f == FirstFreeFrame(frames)
  IN  /\ Cardinality(held) < MaxHeld
      /\ frames' = AllocateFrame(frames, f)
      /\ held' = held \cup ({AllocateFrameResult(f)} \ {NoFrame})
      /\ UNCHANGED dev

Deallocate(f) ==
  /\ frames' = DeallocateFrame(frames, f)
  /\ held' = held \ {f}
  /\ UNCHANGED dev

Next ==
  \/ AllocateFirstFrame
  \/ \E f \in held : Deallocate(f)

Spec == Init /\ [][Next]_vars

-----------------------------------------------------------------------------

TypeOK ==
  /\ frames \in Bitmap
  /\ dev \in Boards
  /\ held \subseteq Frame

\* Frame f shares a byte with the address range [start, end).
Overlaps(d, f, start, end) ==
  /\ start < d.ram_start + 4096 * (f + 1)
  /\ d.ram_start + 4096 * f < end

BootMemory(d) ==
  {f \in Frame : \/ Overlaps(d, f, KernelStart, KernelEnd)
                 \/ Overlaps(d, f, d.dtb, d.dtb + d.dtb_size)}

(***************************************************************************)
(* The allocator never loses track of memory in use: in every state each   *)
(* frame that holds a byte of the kernel image or of the device tree blob, *)
(* and each frame some caller holds, is marked in the bitmap, and no       *)
(* caller holds a frame of the image or the blob.  (init_frames computes   *)
(* the marks with page_of and pages; allocate and deallocate with /8, %8.) *)
(***************************************************************************)
MemoryInUseIsAllocated ==
  /\ BootMemory(dev) \cup held \subseteq Allocated(frames)
  /\ BootMemory(dev) \cap held = {}

(***************************************************************************)
(* Frames are lost only above the bound of deallocate_frame: a frame that  *)
(* is marked but is neither boot memory nor held is at least FrameBytes.   *)
(***************************************************************************)
LostFramesAreHigh ==
  \A f \in Allocated(frames) \ (BootMemory(dev) \cup held) : f >= FrameBytes

(***************************************************************************)
(* The bitmap covers 1 GiB whatever the size of RAM.  Because the search   *)
(* is first-fit, a caller is handed a frame beyond RAM only when every     *)
(* frame of RAM is marked.                                                 *)
(***************************************************************************)
SpillsPastRamOnlyWhenFull ==
  [][\A f \in held' \ held :
        f >= RamFrames(dev) =>
          \A g \in Frame : g < RamFrames(dev) => IsAllocated(frames, g)]_vars

(***************************************************************************)
(* The allocator implements the abstract pool: every frame handed out was  *)
(* available, so two callers never own the same frame.                     *)
(***************************************************************************)
Pool == INSTANCE FramePool WITH avail <- Frame \ Allocated(frames),
                                taken <- held
PoolSpec == Pool!Spec

(***************************************************************************)
(* The comment on `frames` (frame.c:7) promises "enough data to allocate   *)
(* up to 1 GiB in frames": a frame that was given back should be usable    *)
(* again, so every marked frame is boot memory or held.                    *)
(***************************************************************************)
FreedFramesAreFree ==
  Allocated(frames) \subseteq BootMemory(dev) \cup held
=============================================================================
