------------------------ MODULE FrameAllocatorProofs ------------------------
(***************************************************************************)
(* The properties of the frame allocator, for a bitmap of any size, any    *)
(* boards the assumptions admit and any bound on the frames held.          *)
(*                                                                         *)
(* The inductive invariant is the conjunction of the three invariants: an  *)
(* allocation keeps frames apart because what is in use is marked, and     *)
(* that stays so because a frame is cleared only when its holder frees it. *)
(***************************************************************************)
EXTENDS FrameAllocator, FrameTheorems

IInv == TypeOK /\ MemoryInUseIsAllocated /\ LostFramesAreHigh

-----------------------------------------------------------------------------
\* After init_frames exactly the boot memory is marked.
LEMMA InitFramesMarksBootMemory ==
  ASSUME NEW d \in Boards
  PROVE  /\ InitFrames(d, KernelStart, KernelEnd) \in Bitmap
         /\ Allocated(InitFrames(d, KernelStart, KernelEnd)) = BootMemory(d)
<1> DEFINE zero == [i \in 0..(FrameBytes - 1) |-> {}]
           size == KernelEnd - KernelStart
           k == PageOf(KernelStart - d.ram_start)
           t == PageOf(d.dtb - d.ram_start)
           kernel == AllocateNFrames(zero, k, Pages(size))
           both == AllocateNFrames(kernel, t, Pages(d.dtb_size))
<1>1. /\ d.ram_start \in Nat /\ d.dtb \in Nat /\ d.dtb_size \in Nat
      /\ d.ram_start % 4096 = 0 /\ d.dtb % 4096 = 0
      /\ d.ram_start <= KernelStart /\ d.ram_start <= d.dtb
      /\ KernelStart \in Nat /\ KernelStart % 4096 = 0
      /\ size \in Nat /\ KernelStart + size = KernelEnd
  BY BoardAssumption DEF WellFormedBoard
<1>2. zero \in Bitmap /\ Allocated(zero) = {}
  BY FrameNumbers DEF Bitmap, Allocated, IsAllocated
<1>3. /\ k \in Int /\ Pages(size) \in Int
      /\ \A f \in Frame : f \in k..(k + Pages(size) - 1)
                            <=> Overlaps(d, f, KernelStart, KernelEnd)
  <2>1. Frame \subseteq Nat
    BY FrameBytesAssumption DEF Frame, NumFrames
  <2>2. k \in Int /\ Pages(size) \in Int
    BY <1>1 DEF PageOf, Pages
  <2> HIDE DEF size
  <2>3. \A f \in Frame : f \in k..(k + Pages(size) - 1)
                           <=> Overlaps(d, f, KernelStart, KernelStart + size)
    <3> SUFFICES ASSUME NEW f \in Nat
                 PROVE  f \in k..(k + Pages(size) - 1)
                          <=> Overlaps(d, f, KernelStart, KernelStart + size)
      BY <2>1
    <3>1. /\ KernelStart \in Nat /\ d.ram_start \in Nat /\ size \in Nat
          /\ d.ram_start <= KernelStart
          /\ d.ram_start % 4096 = 0 /\ KernelStart % 4096 = 0
      BY <1>1
    <3> QED
      BY <3>1 DEF PageOf, Pages, Overlaps
  <2> QED
    BY <1>1, <2>2, <2>3
<1>4. /\ t \in Int /\ Pages(d.dtb_size) \in Int
      /\ \A f \in Frame : f \in t..(t + Pages(d.dtb_size) - 1)
                            <=> Overlaps(d, f, d.dtb, d.dtb + d.dtb_size)
  <2>1. Frame \subseteq Nat
    BY FrameBytesAssumption DEF Frame, NumFrames
  <2>2. t \in Int /\ Pages(d.dtb_size) \in Int
    BY <1>1 DEF PageOf, Pages
  <2>3. /\ d.dtb \in Nat /\ d.ram_start \in Nat /\ d.dtb_size \in Nat
        /\ d.ram_start <= d.dtb
        /\ d.ram_start % 4096 = 0 /\ d.dtb % 4096 = 0
    BY <1>1
  <2>4. ASSUME NEW f \in Frame
        PROVE  f \in t..(t + Pages(d.dtb_size) - 1)
                 <=> Overlaps(d, f, d.dtb, d.dtb + d.dtb_size)
    BY <2>1, <2>3 DEF PageOf, Pages, Overlaps
  <2> QED
    BY <2>2, <2>4
<1>5. InitFrames(d, KernelStart, KernelEnd) = both
  BY DEF InitFrames
<1> HIDE DEF zero, k, t, size
<1>6. kernel \in Bitmap
      /\ Allocated(kernel) = Frame \cap (k..(k + Pages(size) - 1))
  BY <1>2, <1>3, AllocateNFramesMarks
<1> HIDE DEF kernel
<1>7. both \in Bitmap
      /\ Allocated(both) = (Frame \cap (k..(k + Pages(size) - 1)))
           \cup (Frame \cap (t..(t + Pages(d.dtb_size) - 1)))
  BY <1>4, <1>6, AllocateNFramesMarks
<1> HIDE DEF both
<1> QED
  BY <1>3, <1>4, <1>5, <1>7 DEF BootMemory

-----------------------------------------------------------------------------
\* What one call does to the bitmap and to the frames held.

LEMMA AllocateFirstFrameStep ==
  ASSUME IInv, AllocateFirstFrame
  PROVE  LET f == FirstFreeFrame(frames)
         IN  /\ frames' \in Bitmap /\ dev' = dev
             /\ \A g \in Frame : g < f => g \in Allocated(frames)
             /\ \/ /\ f \in Frame \ Allocated(frames)
                   /\ Allocated(frames') = Allocated(frames) \cup {f}
                   /\ held' = held \cup {f}
                \/ Allocated(frames') = Allocated(frames) /\ held' = held
<1> DEFINE f == FirstFreeFrame(frames)
<1>1. frames \in Bitmap
  BY DEF IInv, TypeOK
<1>2. /\ f \in Nat
      /\ f \in Frame => f \notin Allocated(frames)
      /\ f \notin Frame => f = NumFrames
      /\ \A g \in Frame : g < f => g \in Allocated(frames)
  BY <1>1, FirstFreeFrameIsLeast
<1>3. frames' = AllocateFrame(frames, f) /\ dev' = dev
      /\ held' = held \cup ({AllocateFrameResult(f)} \ {NoFrame})
  BY DEF AllocateFirstFrame
<1> HIDE DEF f
<1>4. /\ frames' \in Bitmap
      /\ Allocated(frames') = Allocated(frames) \cup ({f} \cap Frame)
  BY <1>1, <1>2, <1>3, AllocateFrameMarks
<1>5. CASE f \in Frame
  <2>1. AllocateFrameResult(f) = f /\ f # NoFrame
    BY <1>5, FrameBytesAssumption
    DEF AllocateFrameResult, NoFrame, Frame, NumFrames
  <2>2. held' = held \cup {f} /\ Allocated(frames') = Allocated(frames) \cup {f}
    BY <1>3, <1>4, <1>5, <2>1
  <2> QED
    BY <1>2, <1>3, <1>4, <1>5, <2>2 DEF f
<1>6. CASE f \notin Frame
  <2>1. AllocateFrameResult(f) = NoFrame
    BY <1>2, <1>6, FrameBytesAssumption DEF AllocateFrameResult, NumFrames
  <2>2. held' = held /\ Allocated(frames') = Allocated(frames)
    BY <1>3, <1>4, <1>6, <2>1
  <2> QED
    BY <1>2, <1>3, <1>4, <2>2 DEF f
<1> QED
  BY <1>5, <1>6

LEMMA DeallocateStep ==
  ASSUME IInv, NEW f \in held, Deallocate(f)
  PROVE  /\ frames' \in Bitmap /\ dev' = dev /\ held' = held \ {f}
         /\ f \in Frame
         /\ Allocated(frames') =
              IF f < FrameBytes THEN Allocated(frames) \ {f} ELSE Allocated(frames)
<1>1. frames \in Bitmap /\ f \in Frame /\ f \in Nat
  BY FrameBytesAssumption DEF IInv, TypeOK, Frame, NumFrames
<1> QED
  BY <1>1, DeallocateFrameClears DEF Deallocate

-----------------------------------------------------------------------------
\* The initial state satisfies the invariant: only boot memory is marked.
LEMMA InitIInv == Init => IInv
<1> SUFFICES ASSUME Init  PROVE IInv
  OBVIOUS
<1>1. /\ dev \in Boards /\ held = {}
      /\ frames \in Bitmap /\ Allocated(frames) = BootMemory(dev)
  BY InitFramesMarksBootMemory DEF Init
<1> QED
  BY <1>1 DEF IInv, TypeOK, MemoryInUseIsAllocated, LostFramesAreHigh

\* Every call preserves the invariant.
LEMMA NextIInv == IInv /\ [Next]_vars => IInv'
<1> SUFFICES ASSUME IInv, [Next]_vars  PROVE IInv'
  OBVIOUS
<1> USE DEF IInv, TypeOK, MemoryInUseIsAllocated, LostFramesAreHigh
<1>1. CASE AllocateFirstFrame
  <2> DEFINE f == FirstFreeFrame(frames)
  <2>1. /\ frames' \in Bitmap /\ dev' = dev
        /\ \/ /\ f \in Frame \ Allocated(frames)
              /\ Allocated(frames') = Allocated(frames) \cup {f}
              /\ held' = held \cup {f}
           \/ Allocated(frames') = Allocated(frames) /\ held' = held
    BY <1>1, AllocateFirstFrameStep
  <2>2. BootMemory(dev)' = BootMemory(dev) /\ Allocated(frames)' = Allocated(frames')
    BY <2>1 DEF BootMemory, Overlaps
  <2> HIDE DEF f
  <2> QED
    BY <2>1, <2>2
<1>2. ASSUME NEW f \in held, Deallocate(f)  PROVE IInv'
  <2>1. /\ frames' \in Bitmap /\ dev' = dev /\ held' = held \ {f}
        /\ f \in Frame
        /\ Allocated(frames') =
             IF f < FrameBytes THEN Allocated(frames) \ {f} ELSE Allocated(frames)
    BY <1>2, DeallocateStep
  <2>2. BootMemory(dev)' = BootMemory(dev) /\ Allocated(frames)' = Allocated(frames')
    BY <2>1 DEF BootMemory, Overlaps
  <2>3. f \in Int /\ FrameBytes \in Int
    BY <2>1, FrameBytesAssumption DEF Frame
  <2> QED
    BY <2>1, <2>2, <2>3
<1>3. CASE UNCHANGED vars
  <2>1. /\ frames' = frames /\ dev' = dev /\ held' = held
        /\ BootMemory(dev)' = BootMemory(dev)
        /\ Allocated(frames)' = Allocated(frames)
    BY <1>3 DEF vars, BootMemory, Overlaps
  <2> QED
    BY <2>1
<1> QED
  BY <1>1, <1>2, <1>3 DEF Next

(***************************************************************************)
(* The invariant holds in every state.                                     *)
(***************************************************************************)
THEOREM Invariance == Spec => []IInv
BY InitIInv, NextIInv, PTL DEF Spec

(***************************************************************************)
(* The bitmap, the board and the frames held have their types.             *)
(***************************************************************************)
THEOREM TypeCorrect == Spec => []TypeOK
BY Invariance, PTL DEF IInv

(***************************************************************************)
(* The kernel image, the device tree blob and every frame a caller holds   *)
(* stay marked, and no caller is ever given a frame of the image or blob.  *)
(***************************************************************************)
THEOREM MemoryInUse == Spec => []MemoryInUseIsAllocated
BY Invariance, PTL DEF IInv

(***************************************************************************)
(* Only frames from sizeof(frames) up are ever lost.                       *)
(***************************************************************************)
THEOREM LossesAreHigh == Spec => []LostFramesAreHigh
BY Invariance, PTL DEF IInv

-----------------------------------------------------------------------------
(***************************************************************************)
(* A caller is given a frame beyond RAM only when all of RAM is marked.    *)
(***************************************************************************)
THEOREM SpillsWhenFull == Spec => SpillsPastRamOnlyWhenFull
<1> DEFINE A == \A f \in held' \ held :
                  f >= RamFrames(dev) =>
                    \A g \in Frame : g < RamFrames(dev) => IsAllocated(frames, g)
<1>1. IInv /\ [Next]_vars => [A]_vars
  <2> SUFFICES ASSUME IInv, Next, NEW f \in held' \ held, f >= RamFrames(dev),
                      NEW g \in Frame, g < RamFrames(dev)
               PROVE  IsAllocated(frames, g)
    OBVIOUS
  <2>1. AllocateFirstFrame
    BY DEF Next, Deallocate
  <2>2. /\ \A h \in Frame : h < FirstFreeFrame(frames) => h \in Allocated(frames)
        /\ f = FirstFreeFrame(frames) /\ f \in Frame
    BY <2>1, AllocateFirstFrameStep
  <2>3. RamFrames(dev) \in Int
    BY BoardAssumption DEF IInv, TypeOK, WellFormedBoard, RamFrames
  <2>4. g < f
    BY <2>2, <2>3, FrameBytesAssumption DEF Frame, NumFrames
  <2> QED
    BY <2>2, <2>4 DEF Allocated
<1> QED
  BY <1>1, Invariance, PTL DEF Spec, SpillsPastRamOnlyWhenFull

(***************************************************************************)
(* The allocator implements the abstract pool of frames: a frame handed    *)
(* out was available, so two callers never own the same frame.             *)
(***************************************************************************)
THEOREM ImplementsPool == Spec => PoolSpec
<1>1. Init => Pool!Init
  BY DEF Init, Pool!Init
<1>2. IInv /\ [Next]_vars => [Pool!Next]_<<Frame \ Allocated(frames), held>>
  <2> SUFFICES ASSUME IInv, [Next]_vars
               PROVE  [Pool!Next]_<<Frame \ Allocated(frames), held>>
    OBVIOUS
  <2> DEFINE avail == Frame \ Allocated(frames)
  <2>1. CASE AllocateFirstFrame
    <3> DEFINE f == FirstFreeFrame(frames)
    <3>1. \/ /\ f \in Frame \ Allocated(frames)
             /\ Allocated(frames') = Allocated(frames) \cup {f}
             /\ held' = held \cup {f}
          \/ Allocated(frames') = Allocated(frames) /\ held' = held
      BY <2>1, AllocateFirstFrameStep
    <3> HIDE DEF f
    <3>2. CASE f \in avail /\ avail' = avail \ {f} /\ held' = held \cup {f}
      BY <3>2 DEF Pool!Next, Pool!Take
    <3>3. CASE avail' = avail /\ held' = held
      BY <3>3
    <3> QED
      BY <3>1, <3>2, <3>3
  <2>2. ASSUME NEW f \in held, Deallocate(f)
        PROVE  Pool!Next
    <3>1. /\ held' = held \ {f} /\ f \in Frame
          /\ Allocated(frames') =
               IF f < FrameBytes THEN Allocated(frames) \ {f} ELSE Allocated(frames)
      BY <2>2, DeallocateStep
    <3>2. avail' = avail \/ avail' = avail \cup {f}
      BY <3>1
    <3> QED
      BY <3>1, <3>2, <2>2 DEF Pool!Next, Pool!GiveBack
  <2>3. CASE UNCHANGED vars
    BY <2>3 DEF vars, Allocated, IsAllocated
  <2> QED
    BY <2>1, <2>2, <2>3 DEF Next
<1> QED
  BY <1>1, <1>2, Invariance, PTL DEF Spec, PoolSpec, Pool!Spec
=============================================================================
