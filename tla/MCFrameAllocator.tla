-------------------------- MODULE MCFrameAllocator --------------------------
(***************************************************************************)
(* Small boards for TLC: a bitmap of 4 bytes (32 frames, of which          *)
(* deallocate_frame reaches frames 0..3), the kernel image in the first    *)
(* two frames of RAM as the linker script has it, and the blob at the end  *)
(* of RAM, in the middle, or right behind the image.                       *)
(***************************************************************************)
EXTENDS FrameAllocator

MCKernelStart == 16 * 4096
MCKernelEnd == 18 * 4096

Board(ramPages, dtbPage, dtbSize) ==
  [ram_start |-> 16 * 4096, ram_size |-> ramPages * 4096,
   dtb |-> dtbPage * 4096, dtb_size |-> dtbSize]

MCBoards ==
  { Board(8, 22, 4096 + 1),     \* RAM smaller than the bitmap
    Board(8, 19, 4096),
    Board(32, 24, 2 * 4096),    \* exactly as large
    Board(40, 18, 1) }          \* larger than the bitmap
=============================================================================
