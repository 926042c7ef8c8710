---------------------------- MODULE FrameTheorems ----------------------------
(***************************************************************************)
(* What the operators of the frame bitmap (src/frame.c) return, for a      *)
(* bitmap of any size.  The proofs about the state machines that own a     *)
(* bitmap cite these lemmas and never look inside it.                      *)
(***************************************************************************)
EXTENDS Frames, WellFoundedInduction, TLAPS

\* Min is what its name says on every set of natural numbers with an element.
LEMMA MinOfNats ==
  ASSUME NEW S \in SUBSET Nat, S # {}
  PROVE  Min(S) \in S /\ \A y \in S : Min(S) <= y
<1> DEFINE R == {ss \in Nat \X Nat : ss[1] < ss[2]}
<1>1. IsWellFoundedOn(R, Nat)
  BY NatLessThanWellFounded, Zenon DEF OpToRel
<1>2. PICK x \in S : \A y \in S : <<y, x>> \notin R
  BY <1>1, WFMin
<1>3. ASSUME NEW y \in S  PROVE x <= y
  <2>1. <<y, x>> \in Nat \X Nat /\ <<y, x>>[1] = y /\ <<y, x>>[2] = x
    OBVIOUS
  <2> QED
    BY <1>2, <2>1
<1> QED
  BY <1>3 DEF Min

\* The frames are numbered by their byte and bit: f = 8 * (f / 8) + f % 8.
LEMMA FrameNumbers ==
  /\ \A f \in Frame : f \div 8 \in 0..(FrameBytes - 1) /\ f % 8 \in Bits
  /\ \A i \in 0..(FrameBytes - 1), j \in Bits :
       /\ 8 * i + j \in Frame
       /\ (8 * i + j) \div 8 = i /\ (8 * i + j) % 8 = j
BY FrameBytesAssumption DEF Frame, NumFrames, Bits

\* first_free_frame returns the least free frame, or NumFrames if none is.
LEMMA FirstFreeFrameIsLeast ==
  ASSUME NEW b \in Bitmap
  PROVE  /\ FirstFreeFrame(b) \in Nat
         /\ FirstFreeFrame(b) \in Frame => FirstFreeFrame(b) \notin Allocated(b)
         /\ FirstFreeFrame(b) \notin Frame =>
              FirstFreeFrame(b) = NumFrames /\ Allocated(b) = Frame
         /\ \A g \in Frame : g < FirstFreeFrame(b) => g \in Allocated(b)
<1> DEFINE notFull == {i \in DOMAIN b : b[i] # Bits}
           i == Min(notFull)
           j == Min(Bits \ b[i])
<1>1. DOMAIN b = 0..(FrameBytes - 1) /\ \A k \in DOMAIN b : b[k] \subseteq Bits
  BY DEF Bitmap
<1>2. CASE notFull = {}
  <2>1. FirstFreeFrame(b) = NumFrames
    BY <1>2 DEF FirstFreeFrame
  <2>2. Allocated(b) = Frame
    BY <1>1, <1>2, FrameNumbers DEF Allocated, IsAllocated
  <2> QED
    BY <2>1, <2>2, FrameBytesAssumption DEF NumFrames, Frame
<1>3. CASE notFull # {}
  <2> notFull \in SUBSET Nat
    BY <1>1, FrameBytesAssumption
  <2>1. i \in notFull /\ \A k \in notFull : i <= k
    <3> HIDE DEF notFull
    <3> QED
      BY <1>3, MinOfNats
  <2>2. b[i] \subseteq Bits /\ b[i] # Bits
    <3> HIDE DEF i
    <3> QED
      BY <1>1, <2>1
  <2>3. j \in Bits \ b[i] /\ \A k \in Bits \ b[i] : j <= k
    <3> DEFINE clear == Bits \ b[i]
    <3>1. clear \in SUBSET Nat /\ clear # {}
      <4> HIDE DEF i
      <4> QED
        BY <2>2 DEF Bits
    <3> HIDE DEF clear
    <3>2. Min(clear) \in clear /\ \A k \in clear : Min(clear) <= k
      BY <3>1, MinOfNats
    <3> QED
      BY <3>2 DEF clear
  <2>4. FirstFreeFrame(b) = 8 * i + j
    BY <1>3 DEF FirstFreeFrame
  <2> HIDE DEF i, j
  <2>5. 8 * i + j \in Frame /\ 8 * i + j \notin Allocated(b)
    BY <1>1, <2>1, <2>3, FrameNumbers DEF Allocated, IsAllocated
  <2>6. ASSUME NEW g \in Frame, g < 8 * i + j  PROVE g \in Allocated(b)
    <3>1. /\ g \in Nat /\ g = 8 * (g \div 8) + (g % 8)
          /\ i \in Nat /\ j \in 0..7 /\ g % 8 \in 0..7
          /\ g \div 8 \in 0..(FrameBytes - 1)
      BY <2>1, <2>3, <1>1, FrameBytesAssumption DEF Frame, NumFrames, Bits
    <3>2. g \div 8 < i \/ (g \div 8 = i /\ g % 8 < j)
      BY <2>6, <3>1
    <3>3. CASE g \div 8 < i
      <4>1. g \div 8 \in DOMAIN b /\ g \div 8 \notin notFull
        BY <3>1, <3>3, <1>1, <2>1
      <4>2. b[g \div 8] = Bits
        BY <4>1
      <4> QED
        BY <4>2, <3>1 DEF Allocated, IsAllocated, Bits
    <3>4. CASE g \div 8 = i /\ g % 8 < j
      BY <3>1, <3>4, <1>1, <2>3 DEF Allocated, IsAllocated, Bits
    <3> QED
      BY <3>2, <3>3, <3>4
  <2> QED
    BY <2>4, <2>5, <2>6 DEF Frame
<1> QED
  BY <1>2, <1>3

\* allocate_frame marks the frame it is given, if the bitmap has it.
LEMMA AllocateFrameMarks ==
  ASSUME NEW b \in Bitmap, NEW f \in Nat
  PROVE  /\ AllocateFrame(b, f) \in Bitmap
         /\ Allocated(AllocateFrame(b, f)) = Allocated(b) \cup ({f} \cap Frame)
<1>1. CASE f \notin Frame
  BY <1>1, FrameBytesAssumption DEF AllocateFrame, Frame, NumFrames
<1>2. CASE f \in Frame
  <2> DEFINE c == [b EXCEPT ![f \div 8] = @ \cup {f % 8}]
  <2>1. AllocateFrame(b, f) = c
    BY <1>2, FrameBytesAssumption DEF AllocateFrame, Frame, NumFrames
  <2>2. c \in Bitmap
    BY <1>2, FrameNumbers DEF Bitmap
  <2>3. ASSUME NEW g \in Frame
        PROVE  g \in Allocated(c) <=> g \in Allocated(b) \/ g = f
    <3>1. g \div 8 \in DOMAIN b /\ f \div 8 \in DOMAIN b
      BY <1>2, FrameNumbers DEF Bitmap
    <3>2. g = f <=> (g \div 8 = f \div 8 /\ g % 8 = f % 8)
      BY <1>2, FrameBytesAssumption DEF Frame, NumFrames
    <3> QED
      BY <3>1, <3>2 DEF Allocated, IsAllocated
  <2> QED
    BY <2>1, <2>2, <2>3, <1>2 DEF Allocated
<1> QED
  BY <1>1, <1>2

\* deallocate_frame clears the frame it is given, if it is below sizeof(frames).
LEMMA DeallocateFrameClears ==
  ASSUME NEW b \in Bitmap, NEW f \in Nat
  PROVE  /\ DeallocateFrame(b, f) \in Bitmap
         /\ Allocated(DeallocateFrame(b, f)) =
              IF f < FrameBytes THEN Allocated(b) \ {f} ELSE Allocated(b)
<1>1. CASE f >= FrameBytes
  BY <1>1, FrameBytesAssumption DEF DeallocateFrame
<1>2. CASE f < FrameBytes
  <2> DEFINE c == [b EXCEPT ![f \div 8] = @ \ {f % 8}]
  <2> f \in Frame
    BY <1>2, FrameBytesAssumption DEF Frame, NumFrames
  <2>1. DeallocateFrame(b, f) = c
    BY <1>2, FrameBytesAssumption DEF DeallocateFrame
  <2>2. c \in Bitmap
    BY FrameNumbers DEF Bitmap
  <2>3. ASSUME NEW g \in Frame
        PROVE  g \in Allocated(c) <=> g \in Allocated(b) /\ g # f
    <3>1. g \div 8 \in DOMAIN b /\ f \div 8 \in DOMAIN b
      BY FrameNumbers DEF Bitmap
    <3>2. g = f <=> (g \div 8 = f \div 8 /\ g % 8 = f % 8)
      BY FrameBytesAssumption DEF Frame, NumFrames
    <3> QED
      BY <3>1, <3>2 DEF Allocated, IsAllocated
  <2> QED
    BY <2>1, <2>2, <2>3, <1>2, FrameBytesAssumption DEF Allocated
<1> QED
  BY <1>1, <1>2, FrameBytesAssumption

\* allocate_n_frames marks the frames of its range that the bitmap has.
LEMMA AllocateNFramesMarks ==
  ASSUME NEW b \in Bitmap, NEW start \in Int, NEW count \in Int
  PROVE  /\ AllocateNFrames(b, start, count) \in Bitmap
         /\ Allocated(AllocateNFrames(b, start, count)) =
              Allocated(b) \cup (Frame \cap (start..(start + count - 1)))
<1> DEFINE c == AllocateNFrames(b, start, count)
<1>1. /\ DOMAIN b = 0..(FrameBytes - 1)
      /\ \A i \in DOMAIN b : b[i] \subseteq Bits
      /\ c = [i \in DOMAIN b |->
               b[i] \cup {j \in Bits : 8 * i + j \in start..(start + count - 1)}]
  BY DEF Bitmap, AllocateNFrames
<1>2. c \in Bitmap
  BY <1>1 DEF Bitmap
<1>3. ASSUME NEW g \in Frame
      PROVE  g \in Allocated(c) <=>
               g \in Allocated(b) \/ g \in start..(start + count - 1)
  <2>1. /\ g \div 8 \in DOMAIN b /\ g % 8 \in Bits
        /\ 8 * (g \div 8) + (g % 8) = g
    BY <1>1, FrameNumbers, FrameBytesAssumption DEF Frame, NumFrames
  <2>2. c[g \div 8] = b[g \div 8] \cup
          {j \in Bits : 8 * (g \div 8) + j \in start..(start + count - 1)}
    BY <1>1, <2>1
  <2> HIDE DEF c
  <2> QED
    BY <2>1, <2>2 DEF Allocated, IsAllocated
<1> HIDE DEF c
<1>4. Allocated(c) = Allocated(b) \cup (Frame \cap (start..(start + count - 1)))
  BY <1>3 DEF Allocated
<1> QED
  BY <1>2, <1>4 DEF c
=============================================================================
