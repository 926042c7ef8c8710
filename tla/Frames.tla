------------------------------- MODULE Frames -------------------------------
(***************************************************************************)
(* The physical frame bitmap of src/frame.c as pure operators: `frames` is *)
(* an array of sizeof(frames) bytes, one bit per 4 KiB frame of RAM, frame *)
(* f being bit f % 8 of byte f / 8.  A byte is modelled as the set of its  *)
(* bits that are 1.  The state machines that own a bitmap use these        *)
(* operators; the widths 8 and 4096 are the code's.                        *)
(***************************************************************************)
EXTENDS Integers, FiniteSetsExt

CONSTANT FrameBytes     \* sizeof(frames): 32768 in the kernel

ASSUME FrameBytesAssumption == FrameBytes \in Nat \ {0}

Bits == 0..7
NumFrames == 8 * FrameBytes
Frame == 0..(NumFrames - 1)
Bitmap == [0..(FrameBytes - 1) -> SUBSET Bits]

\* What allocate_frame returns for a frame past the bitmap: (size_t)-1.
NoFrame == -1

IsAllocated(b, f) == (f % 8) \in b[f \div 8]
Allocated(b) == {f \in Frame : IsAllocated(b, f)}

\* Mutant: the byte scan starts at 1.
FirstFreeFrameSkipsByteZero(b) ==
  LET notFull == {i \in DOMAIN b \ {0} : b[i] # Bits}
      i == Min(notFull)
  IN  IF notFull = {} THEN NumFrames ELSE 8 * i + Min(Bits \ b[i])

(***************************************************************************)
(* first_free_frame().  It scans bytes for one that is not 0xFF, then the  *)
(* bits of that byte.  Neither loop is bounded by the array: with every    *)
(* frame allocated the scan runs on into whatever follows `frames` in      *)
(* .bss, and returns 8*i+j for some i >= FrameBytes.  Every caller passes  *)
(* the result to allocate_frame or deallocate_frame, which treat all       *)
(* numbers from NumFrames up alike, so NumFrames stands for them.          *)
(***************************************************************************)
FirstFreeFrame(b) ==
  LET notFull == {i \in DOMAIN b : b[i] # Bits}
      i == Min(notFull)
  IN  IF notFull = {} THEN NumFrames ELSE 8 * i + Min(Bits \ b[i])

(***************************************************************************)
(* allocate_frame(frame): the new bitmap, and the value returned.          *)
(***************************************************************************)
AllocateFrame(b, f) ==
  IF f >= NumFrames THEN b ELSE [b EXCEPT ![f \div 8] = @ \cup {f % 8}]

\* Mutant: the bounds check is dropped from the result.
AllocateFrameResultUnchecked(f) == f

AllocateFrameResult(f) == IF f >= NumFrames THEN NoFrame ELSE f

\* Mutants: byte and bit index swapped; the whole byte cleared.
DeallocateFrameSwapped(b, f) ==
  IF f >= FrameBytes THEN b ELSE [b EXCEPT ![f % 8] = @ \ {f \div 8}]
DeallocateFrameWholeByte(b, f) ==
  IF f >= FrameBytes THEN b ELSE [b EXCEPT ![f \div 8] = {}]

(***************************************************************************)
(* deallocate_frame(frame).  The guard compares the frame with             *)
(* sizeof(frames), the number of bytes, not with the number of bits: a     *)
(* frame from FrameBytes up is left allocated.                             *)
(***************************************************************************)
DeallocateFrame(b, f) ==
  IF f >= FrameBytes THEN b ELSE [b EXCEPT ![f \div 8] = @ \ {f % 8}]

(***************************************************************************)
(* allocate_n_frames(start, count): allocate_frame on each of the frames   *)
(* start, ..., start+count-1; those past the bitmap are skipped one by one.*)
(***************************************************************************)
AllocateNFrames(b, start, count) ==
  [i \in DOMAIN b |->
     b[i] \cup {j \in Bits : 8 * i + j \in start..(start + count - 1)}]

(***************************************************************************)
(* page_of (src/mem.c), pages and frame_to_phys_addr, the last one as a    *)
(* physical page number: frame_to_phys_addr(f)/4096 when RAM starts at     *)
(* page ramPage.  For NoFrame the 64-bit sum wraps to the page before RAM. *)
(***************************************************************************)
PagesRoundsDown(bytes) == bytes \div 4096     \* mutant of Pages
FrameToPpnWithoutBase(ramPage, f) == f         \* mutant of FrameToPpn
PageOf(addr) == addr \div 4096
Pages(bytes) == (bytes + 4095) \div 4096
FrameToPpn(ramPage, f) == ramPage + f

(***************************************************************************)
(* init_frames(): clear the bitmap, then allocate the frames of the kernel *)
(* image and of the device tree blob.  d is device_information.            *)
(***************************************************************************)
InitFrames(d, kernelStart, kernelEnd) ==
  LET zero == [i \in 0..(FrameBytes - 1) |-> {}]
      kernel == AllocateNFrames(zero, PageOf(kernelStart - d.ram_start),
                                Pages(kernelEnd - kernelStart))
  IN  AllocateNFrames(kernel, PageOf(d.dtb - d.ram_start), Pages(d.dtb_size))
=============================================================================
