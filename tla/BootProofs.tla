----------------------------- MODULE BootProofs -----------------------------
(***************************************************************************)
(* The boot of the kernel, for every size of image, RAM and tables, every  *)
(* device tree and every moment at which the timer interrupt strikes.      *)
(***************************************************************************)
EXTENDS Boot, PageTableRefinement, SequenceTheorems

-----------------------------------------------------------------------------
(***************************************************************************)
(* The registers.  Each step of the kernel finds its own values in them;   *)
(* a handler finds them with sp and sscratch swapped, and has saved them.  *)
(***************************************************************************)
Others == [moved : Nat, shifted : Nat]

Cpu == [pc : Nat, sp : Nat, gp : Nat, sscratch : Nat, stvec : Nat,
        sie : BOOLEAN, x : Others, mode : 0..3, mpp : 0..3,
        delegated : BOOLEAN, pmp : BOOLEAN]

\* No address of the low image.
Clean(x) == ~InImage(x.moved) /\ ~InImage(x.shifted)

InMachineMode == {"start", "kernel_start", "set_priv"}

\* The steps up to the one that installs the handler, and those that run low.
Untrapped == InMachineMode \cup Mapping \cup {"write_satp", "print_satp", "init_traps"}
RunningLow == Untrapped \cup {"enable_interrupts", "jump"}

StackPage(step) ==
  IF step = "start" THEN 0
  ELSE IF step \in RunningLow \cup {"swap_in", "relocate_sp"} THEN KernelPage + Stack
  ELSE IF step = "add_sp" THEN KernelPage + TrapStack
  ELSE IF step = "swap_out" THEN HighPage + TrapStack
  ELSE HighPage + Stack

GlobalPage(step) ==
  IF step = "start" THEN 0
  ELSE IF step \in RunningLow \cup {"swap_in", "add_sp", "swap_out", "relocate_sp",
                                    "relocate_gp"}
       THEN KernelPage + Global
  ELSE HighPage + Global

ScratchPage(step) ==
  IF step \in Untrapped THEN 0
  ELSE IF step \in {"enable_interrupts", "jump", "swap_in"} THEN KernelPage + TrapStack
  ELSE IF step \in {"add_sp", "swap_out"} THEN KernelPage + Stack
  ELSE HighPage + TrapStack

Registers(c, step) ==
  /\ c \in Cpu
  /\ c.pc = (IF step \in RunningLow THEN KernelPage ELSE HighPage) + Text
  /\ c.sp = StackPage(step)
  /\ c.gp = GlobalPage(step)
  /\ c.sscratch = ScratchPage(step)
  /\ c.stvec = IF step \in Untrapped THEN 0 ELSE HighPage + Text
  /\ c.sie <=> step \notin Untrapped \cup {"enable_interrupts"}
  /\ c.delegated <=> step \notin {"start", "kernel_start"}
  /\ c.pmp <=> step \notin InMachineMode
  /\ c.mode = IF step \in InMachineMode THEN MachineMode ELSE SupervisorMode
  /\ step \in Relocated => Clean(c.x)

SavedRegs == [mepc : [at : Steps, pc : Nat], x : Others]

Trap == [cause : {"timer", "ecall"}, regs : SavedRegs, done : BOOLEAN, saved : Cpu]

\* Where a trap that interrupted the current step returns to.
Resume ==
  IF trap.cause = "ecall" THEN IF trap.done THEN "print" ELSE "ecall"
  ELSE IF at = "asleep" THEN "ecall" ELSE at

InTrap ==
  /\ trap \in Trap
  /\ Registers(trap.saved, at) /\ trap.saved.sie
  /\ trap.cause = "ecall" => at = "ecall"
  /\ trap.regs = [mepc |-> [at |-> Resume, pc |-> trap.saved.pc], x |-> trap.saved.x]
  /\ cpu.x \in {trap.saved.x, Clobbered}
  /\ cpu = [trap.saved EXCEPT !.pc = trap.saved.stvec, !.sp = trap.saved.sscratch,
                              !.sscratch = trap.saved.sp, !.sie = FALSE, !.x = cpu.x]

TrapInv ==
  /\ at \in Steps
  /\ trap # NoTrap => InTrap
  /\ trap = NoTrap => Registers(cpu, at)

LEMMA TrapIsNotNoTrap ==
  ASSUME NEW t \in Trap
  PROVE  t # NoTrap
<1>1. t.cause # "none"
  BY DEF Trap
<1>2. NoTrap.cause = "none"
  BY DEF NoTrap
<1> QED
  BY <1>1, <1>2

LEMMA Halves ==
  /\ KernelPage \in Nat /\ KernelPages \in Nat /\ HighPage \in Nat
  /\ KernelPage # 0 /\ KernelPage + KernelPages < HighPage
  /\ KernelPage + KernelPages <= HighPage - KernelPage
BY BootAssumption, LayoutAssumption DEF Vpn, KernelEndPage

LEMMA Offsets ==
  /\ Text \in Nat /\ Stack \in Nat /\ TrapStack \in Nat /\ Global \in Nat
  /\ Text < KernelPages /\ Stack < KernelPages
  /\ TrapStack < KernelPages /\ Global < KernelPages
<1>1. \A o \in ImageOffset : o \in Nat /\ o < KernelPages
  BY Halves DEF ImageOffset
<1> QED
  BY <1>1, BootAssumption

\* What relocation, and a handler, leave in the other registers.
LEMMA CleanRegisters ==
  /\ Clobbered \in Others /\ Clean(Clobbered)
  /\ \A x \in Others : RelocateOthers(x) \in Others /\ Clean(RelocateOthers(x))
<1>1. Clobbered \in Others /\ Clean(Clobbered)
  BY Halves DEF Clobbered, Others, Clean, InImage
<1>2. ASSUME NEW n \in Nat
      PROVE  /\ Relocate(n) \in Nat /\ ~InImage(Relocate(n))
             /\ n + Diff \in Nat /\ ~InImage(n + Diff)
  BY Halves DEF Relocate, InImage, Diff, KernelEndPage
<1>3. ASSUME NEW x \in Others
      PROVE  RelocateOthers(x) \in Others /\ Clean(RelocateOthers(x))
  <2>1. x.moved \in Nat /\ x.shifted \in Nat
    BY DEF Others
  <2> QED
    BY <1>2, <2>1 DEF RelocateOthers, Others, Clean
<1> QED
  BY <1>1, <1>3

\* Each register holds a page in every step.
LEMMA RegisterPages ==
  ASSUME NEW step
  PROVE  /\ StackPage(step) \in Nat /\ GlobalPage(step) \in Nat
         /\ ScratchPage(step) \in Nat
BY Halves, Offsets DEF StackPage, GlobalPage, ScratchPage

LEMMA TrapInvInit == InitBoot => TrapInv
<1> SUFFICES ASSUME InitBoot  PROVE TrapInv
  OBVIOUS
<1>1. PICK x \in Leftovers :
        /\ at = "start" /\ trap = NoTrap
        /\ cpu = [pc |-> KernelPage + Text, sp |-> 0, gp |-> 0, sscratch |-> 0,
                  stvec |-> 0, sie |-> FALSE, x |-> x, mode |-> MachineMode,
                  mpp |-> UserMode, delegated |-> FALSE, pmp |-> FALSE]
  BY DEF InitBoot
<1>2. cpu \in Cpu
  <2>1. KernelPage + Text \in Nat /\ x \in Others
    BY Halves, Offsets, BootAssumption DEF Others
  <2> QED
    BY <1>1, <2>1 DEF Cpu, MachineMode, UserMode
<1>3. Registers(cpu, at)
  BY <1>1, <1>2 DEF Registers, StackPage, GlobalPage, ScratchPage, RunningLow, Untrapped,
     InMachineMode, Mapping, MachineMode, Relocated, InMain
<1> QED
  BY <1>1, <1>3 DEF TrapInv, Steps


\* A step of the kernel that writes registers.
LEMMA RegisterStep ==
  ASSUME TrapInv, NEW a, NEW b \in Steps, At(a), Goto(b), trap' = trap,
         Registers(cpu, a) => Registers(cpu', b)
  PROVE  TrapInv'
BY TrapIsNotNoTrap DEF TrapInv, At, Goto, InTrap

LEMMA BootSteps ==
  ASSUME TrapInv, Start \/ KernelStart \/ SetPriv \/ EnablePaging \/ GoLive \/ PrintSatp
                  \/ InitTraps \/ EnableInterrupts \/ JumpHigh
  PROVE  TrapInv'
<1> USE DEF Steps, RunningLow, Untrapped, InMachineMode, Mapping, Relocated, InMain
<1>1. CASE Start
  <2>1. At("start") /\ Goto("kernel_start") /\ trap' = trap
    BY <1>1 DEF Start
  <2>2. Registers(cpu, "start") => Registers(cpu', "kernel_start")
    <3> SUFFICES ASSUME Registers(cpu, "start")  PROVE Registers(cpu', "kernel_start")
      OBVIOUS
    <3>1. KernelPage + Stack \in Nat /\ KernelPage + Global \in Nat
      BY Halves, Offsets
    <3>2. /\ cpu' \in Cpu /\ cpu'.sp = KernelPage + Stack /\ cpu'.gp = KernelPage + Global
          /\ \A f \in DOMAIN cpu \ {"sp", "gp"} : cpu'[f] = cpu[f]
      BY <1>1, <3>1 DEF Start, Registers, Cpu
    <3> QED
      BY <3>2 DEF Registers, Cpu, StackPage, GlobalPage, ScratchPage
  <2> QED
    BY <2>1, <2>2, RegisterStep
<1>2. CASE KernelStart
  <2>1. At("kernel_start") /\ Goto("set_priv") /\ trap' = trap
    BY <1>2 DEF KernelStart
  <2>2. Registers(cpu, "kernel_start") => Registers(cpu', "set_priv")
    BY <1>2 DEF KernelStart, Registers, Cpu, StackPage, GlobalPage, ScratchPage
  <2> QED
    BY <2>1, <2>2, RegisterStep
<1>3. CASE SetPriv
  <2>1. At("set_priv") /\ Goto("map_low") /\ trap' = trap
    BY <1>3 DEF SetPriv
  <2>2. Registers(cpu, "set_priv") => Registers(cpu', "map_low")
    <3> SUFFICES ASSUME Registers(cpu, "set_priv")  PROVE Registers(cpu', "map_low")
      OBVIOUS
    <3> DEFINE c == SetMpp(cpu, 1)
    <3>1. cpu \in Cpu /\ cpu' = [c EXCEPT !.pmp = TRUE, !.mode = c.mpp]
      BY <1>3 DEF SetPriv, Registers
    <3>2. 1 % 4 = 1 /\ 1 \in 0..3
      OBVIOUS
    <3>3. c = [cpu EXCEPT !.mpp = 1]
      BY <3>2 DEF SetMpp
    <3>4. /\ c \in Cpu /\ c.mpp = 1
          /\ \A f \in DOMAIN cpu \ {"mpp"} : c[f] = cpu[f]
      BY <3>1, <3>2, <3>3 DEF Cpu
    <3> HIDE DEF c
    <3>5. /\ cpu' \in Cpu /\ cpu'.pmp = TRUE /\ cpu'.mode = SupervisorMode
          /\ \A f \in DOMAIN c \ {"pmp", "mode"} : cpu'[f] = c[f]
      BY <3>1, <3>2, <3>4 DEF Cpu, SupervisorMode
    <3>6. \A f \in DOMAIN cpu \ {"mpp", "pmp", "mode"} : cpu'[f] = cpu[f]
      BY <3>1, <3>4, <3>5 DEF Cpu
    <3> QED
      BY <3>1, <3>5, <3>6 DEF Registers, Cpu, StackPage, GlobalPage, ScratchPage
  <2> QED
    BY <2>1, <2>2, RegisterStep
<1>4. CASE EnablePaging
  <2>1. \E a, b \in Mapping \cup {"write_satp"} :
          At(a) /\ Goto(b) /\ cpu' = cpu /\ trap' = trap
    BY <1>4 DEF EnablePaging, MapKernelLow, MapKernelHigh, MapDevice, NextLocation,
                MapWindow, EnterSlot, Goto, At
  <2>2. \A a, b \in Mapping \cup {"write_satp"} : Registers(cpu, a) => Registers(cpu, b)
    BY DEF Registers, StackPage, GlobalPage, ScratchPage
  <2> QED
    BY <2>1, <2>2, RegisterStep
<1>5. CASE GoLive
  <2>1. At("write_satp") /\ Goto("print_satp") /\ cpu' = cpu /\ trap' = trap
    BY <1>5 DEF GoLive
  <2>2. Registers(cpu, "write_satp") => Registers(cpu, "print_satp")
    BY DEF Registers, StackPage, GlobalPage, ScratchPage
  <2> QED
    BY <2>1, <2>2, RegisterStep
<1>6. CASE PrintSatp
  <2>1. At("print_satp") /\ Goto("init_traps") /\ cpu' = cpu /\ trap' = trap
    BY <1>6 DEF PrintSatp
  <2>2. Registers(cpu, "print_satp") => Registers(cpu, "init_traps")
    BY DEF Registers, StackPage, GlobalPage, ScratchPage
  <2> QED
    BY <2>1, <2>2, RegisterStep
<1>7. CASE InitTraps
  <2>1. At("init_traps") /\ Goto("enable_interrupts") /\ trap' = trap
    BY <1>7 DEF InitTraps
  <2>2. Registers(cpu, "init_traps") => Registers(cpu', "enable_interrupts")
    <3> SUFFICES ASSUME Registers(cpu, "init_traps")
                 PROVE  Registers(cpu', "enable_interrupts")
      OBVIOUS
    <3>1. cpu \in Cpu /\ cpu.pc = KernelPage + Text
      BY DEF Registers
    <3>2. /\ cpu.pc - Text + TrapStack = KernelPage + TrapStack
          /\ KernelPage + TrapStack \in Nat /\ HighPage + Text \in Nat
      BY <3>1, Halves, Offsets
    <3>3. /\ cpu' \in Cpu /\ cpu'.stvec = HighPage + Text
          /\ cpu'.sscratch = KernelPage + TrapStack
          /\ \A f \in DOMAIN cpu \ {"stvec", "sscratch"} : cpu'[f] = cpu[f]
      BY <1>7, <3>1, <3>2 DEF InitTraps, Cpu
    <3> QED
      BY <3>3 DEF Registers, Cpu, StackPage, GlobalPage, ScratchPage
  <2> QED
    BY <2>1, <2>2, RegisterStep
<1>8. CASE EnableInterrupts
  <2>1. At("enable_interrupts") /\ Goto("jump") /\ trap' = trap
    BY <1>8 DEF EnableInterrupts
  <2>2. Registers(cpu, "enable_interrupts") => Registers(cpu', "jump")
    BY <1>8 DEF EnableInterrupts, Registers, Cpu, StackPage, GlobalPage, ScratchPage
  <2> QED
    BY <2>1, <2>2, RegisterStep
<1>9. CASE JumpHigh
  <2>1. At("jump") /\ Goto("swap_in") /\ trap' = trap
    BY <1>9 DEF JumpHigh
  <2>2. Registers(cpu, "jump") => Registers(cpu', "swap_in")
    <3>1. cpu.pc = KernelPage + Text => Home(cpu.pc) + Diff = HighPage + Text
      BY Halves, Offsets DEF Home, Diff
    <3> QED
      BY <1>9, <3>1, Halves, Offsets
      DEF JumpHigh, Registers, Cpu, StackPage, GlobalPage, ScratchPage
  <2> QED
    BY <2>1, <2>2, RegisterStep
<1> QED
  BY <1>1, <1>2, <1>3, <1>4, <1>5, <1>6, <1>7, <1>8, <1>9

LEMMA RelocationSteps ==
  ASSUME TrapInv, SwapIn \/ AddSp \/ SwapOut \/ RelocateSp \/ RelocateGp
  PROVE  TrapInv'
<1> USE DEF Steps, RunningLow, Untrapped, InMachineMode, Mapping, Relocated, InMain
<1>0. /\ KernelPage + Stack + Diff = HighPage + Stack
      /\ KernelPage + TrapStack + Diff = HighPage + TrapStack
      /\ KernelPage + Global + Diff = HighPage + Global
      /\ InImage(KernelPage + Stack) /\ InImage(KernelPage + Global)
      /\ HighPage + Stack \in Nat /\ HighPage + TrapStack \in Nat
      /\ HighPage + Global \in Nat
  BY Halves, Offsets DEF Diff, InImage, KernelEndPage
<1>1. CASE SwapIn
  <2>1. At("swap_in") /\ Goto("add_sp") /\ trap' = trap
    BY <1>1 DEF SwapIn
  <2>2. ASSUME Registers(cpu, "swap_in")  PROVE Registers(cpu', "add_sp")
    <3>1. /\ cpu' \in Cpu /\ cpu'.sp = cpu.sscratch /\ cpu'.sscratch = cpu.sp
          /\ \A f \in DOMAIN cpu \ {"sp", "sscratch"} : cpu'[f] = cpu[f]
      BY <1>1, <2>2 DEF SwapIn, Registers, Cpu
    <3> QED
      BY <2>2, <3>1 DEF Registers, Cpu, StackPage, GlobalPage, ScratchPage
  <2> QED
    BY <2>1, <2>2, RegisterStep
<1>2. CASE AddSp
  <2>1. At("add_sp") /\ Goto("swap_out") /\ trap' = trap
    BY <1>2 DEF AddSp
  <2>2. ASSUME Registers(cpu, "add_sp")  PROVE Registers(cpu', "swap_out")
    <3>1. cpu \in Cpu /\ cpu.sp = KernelPage + TrapStack
      BY <2>2 DEF Registers, StackPage
    <3>2. /\ cpu' \in Cpu /\ cpu'.sp = HighPage + TrapStack
          /\ \A f \in DOMAIN cpu \ {"sp"} : cpu'[f] = cpu[f]
      BY <1>2, <1>0, <3>1 DEF AddSp, Cpu
    <3> QED
      BY <2>2, <3>2 DEF Registers, Cpu, StackPage, GlobalPage, ScratchPage
  <2> QED
    BY <2>1, <2>2, RegisterStep
<1>3. CASE SwapOut
  <2>1. At("swap_out") /\ Goto("relocate_sp") /\ trap' = trap
    BY <1>3 DEF SwapOut
  <2>2. ASSUME Registers(cpu, "swap_out")  PROVE Registers(cpu', "relocate_sp")
    <3>1. /\ cpu' \in Cpu /\ cpu'.sp = cpu.sscratch /\ cpu'.sscratch = cpu.sp
          /\ \A f \in DOMAIN cpu \ {"sp", "sscratch"} : cpu'[f] = cpu[f]
      BY <1>3, <2>2 DEF SwapOut, Registers, Cpu
    <3> QED
      BY <2>2, <3>1 DEF Registers, Cpu, StackPage, GlobalPage, ScratchPage
  <2> QED
    BY <2>1, <2>2, RegisterStep
<1>4. CASE RelocateSp
  <2>1. At("relocate_sp") /\ Goto("relocate_gp") /\ trap' = trap
    BY <1>4 DEF RelocateSp
  <2>2. ASSUME Registers(cpu, "relocate_sp")  PROVE Registers(cpu', "relocate_gp")
    <3>1. cpu \in Cpu /\ cpu.sp = KernelPage + Stack
      BY <2>2 DEF Registers, StackPage
    <3>2. /\ cpu' \in Cpu /\ cpu'.sp = HighPage + Stack
          /\ \A f \in DOMAIN cpu \ {"sp"} : cpu'[f] = cpu[f]
      BY <1>4, <1>0, <3>1 DEF RelocateSp, Relocate, Cpu
    <3> QED
      BY <2>2, <3>2 DEF Registers, Cpu, StackPage, GlobalPage, ScratchPage
  <2> QED
    BY <2>1, <2>2, RegisterStep
<1>5. CASE RelocateGp
  <2>1. At("relocate_gp") /\ Goto("kernel_main") /\ trap' = trap
    BY <1>5 DEF RelocateGp
  <2>2. ASSUME Registers(cpu, "relocate_gp")  PROVE Registers(cpu', "kernel_main")
    <3>1. cpu \in Cpu /\ cpu.gp = KernelPage + Global /\ cpu.x \in Others
      BY <2>2 DEF Registers, GlobalPage, Cpu
    <3> DEFINE x == RelocateOthers(cpu.x)
    <3>2. x \in Others /\ Clean(x)
      BY <3>1, CleanRegisters
    <3>3. cpu' = [cpu EXCEPT !.gp = HighPage + Global, !.x = x]
      BY <1>5, <1>0, <3>1 DEF RelocateGp, Relocate, Cpu
    <3> HIDE DEF x
    <3>4. /\ cpu' \in Cpu /\ cpu'.gp = HighPage + Global /\ cpu'.x = x
          /\ \A f \in DOMAIN cpu \ {"gp", "x"} : cpu'[f] = cpu[f]
      BY <1>0, <3>1, <3>2, <3>3 DEF Cpu
    <3> QED
      BY <2>2, <3>2, <3>4 DEF Registers, Cpu, StackPage, GlobalPage, ScratchPage
  <2> QED
    BY <2>1, <2>2, RegisterStep
<1> QED
  BY <1>1, <1>2, <1>3, <1>4, <1>5

\* The steps of kernel_main leave the registers alone.
LEMMA MainSteps ==
  ASSUME TrapInv, KernelMain \/ UnmapLowerHalf \/ LoadElf \/ PrintCounter \/ Wfi \/ WakeUp
  PROVE  TrapInv'
<1>1. \E a, b \in Relocated : At(a) /\ Goto(b) /\ cpu' = cpu /\ trap' = trap
  BY DEF KernelMain, UnmapLowerHalf, LoadElf, PrintCounter, Wfi, WakeUp, Goto, InMain,
         Relocated
<1>2. \A a, b \in Relocated : Registers(cpu, a) => Registers(cpu, b)
  BY DEF Registers, StackPage, GlobalPage, ScratchPage, InMain, RunningLow, Untrapped,
         InMachineMode, Mapping, Relocated
<1>3. Relocated \subseteq Steps
  BY DEF InMain, Relocated, Steps
<1> QED
  BY <1>1, <1>2, <1>3, RegisterStep

\* The hardware's part of a trap, and the handler's first instruction.
LEMMA TakeTrapStep ==
  ASSUME TrapInv, trap = NoTrap, cpu.sie, NEW cause \in {"timer", "ecall"},
         cause = "ecall" => at = "ecall",
         TakeTrap(cause, IF at = "asleep" THEN "ecall" ELSE at)
  PROVE  TrapInv'
<1> DEFINE m == IF at = "asleep" THEN "ecall" ELSE at
<1>1. /\ at \in Steps /\ Registers(cpu, at) /\ cpu \in Cpu /\ m \in Steps
  BY DEF TrapInv, Registers, Steps
<1>2. /\ at' = at
      /\ trap' = [cause |-> cause, done |-> FALSE, saved |-> cpu,
                  regs |-> [mepc |-> [at |-> m, pc |-> cpu.pc], x |-> cpu.x]]
      /\ cpu' = [cpu EXCEPT !.pc = cpu.stvec, !.sp = cpu.sscratch,
                            !.sscratch = cpu.sp, !.sie = FALSE]
  BY DEF TakeTrap, Regs
<1>3. trap' \in Trap /\ trap'.saved = cpu
  <2>1. [mepc |-> [at |-> m, pc |-> cpu.pc], x |-> cpu.x] \in SavedRegs
    BY <1>1 DEF SavedRegs, Cpu
  <2> QED
    BY <1>1, <1>2, <2>1 DEF Trap
<1>4. trap'.regs = [mepc |-> [at |-> Resume', pc |-> trap'.saved.pc], x |-> trap'.saved.x]
  BY <1>1, <1>2 DEF Resume
<1>5. cpu'.x = cpu.x
  BY <1>1, <1>2 DEF Cpu
<1>6. cpu' = [trap'.saved EXCEPT !.pc = trap'.saved.stvec, !.sp = trap'.saved.sscratch,
                                 !.sscratch = trap'.saved.sp, !.sie = FALSE, !.x = cpu'.x]
  BY <1>1, <1>2, <1>3, <1>5, ZenonT(30) DEF Cpu
<1>7. InTrap'
  BY <1>1, <1>2, <1>3, <1>4, <1>5, <1>6 DEF InTrap
<1> QED
  BY <1>1, <1>2, <1>3, <1>7, TrapIsNotNoTrap DEF TrapInv

\* The handler: it may use every register it has saved.
LEMMA HandlerSteps ==
  ASSUME TrapInv, HandleInterrupt \/ HandleEcall
  PROVE  TrapInv'
<1>1. /\ at' = at /\ at \in Steps /\ trap # NoTrap /\ InTrap
      /\ cpu' = [cpu EXCEPT !.x = Clobbered]
  <2>1. trap.cause # "none"
    BY DEF HandleInterrupt, HandleEcall
  <2> QED
    BY <2>1 DEF HandleInterrupt, HandleEcall, TrapInv, NoTrap
<1>2. trap \in Trap /\ trap.saved \in Cpu
  BY <1>1 DEF InTrap, Trap
<1>3. \/ trap' = [trap EXCEPT !.done = TRUE] /\ trap.cause = "timer"
      \/ trap' = [trap EXCEPT !.done = TRUE, !.regs.mepc.at = "print"] /\ trap.cause = "ecall"
  BY DEF HandleInterrupt, HandleEcall
<1> DEFINE printing == [mepc |-> [at |-> "print", pc |-> trap.regs.mepc.pc], x |-> trap.regs.x]
<1>4. /\ trap' \in Trap /\ trap'.saved = trap.saved /\ trap'.cause = trap.cause
      /\ trap'.done = TRUE
      /\ trap'.regs = IF trap.cause = "ecall" THEN printing ELSE trap.regs
  <2>1. "print" \in Steps /\ TRUE \in BOOLEAN
    BY DEF Steps
  <2>2. CASE trap' = [trap EXCEPT !.done = TRUE] /\ trap.cause = "timer"
    BY <1>2, <2>2 DEF Trap
  <2>3. CASE trap' = [trap EXCEPT !.done = TRUE, !.regs.mepc.at = "print"] /\ trap.cause = "ecall"
    <3>1. trap.regs \in SavedRegs
      BY <1>2 DEF Trap
    <3>2. trap' = [trap EXCEPT !.done = TRUE,
                               !.regs = [trap.regs EXCEPT
                                           !.mepc = [trap.regs.mepc EXCEPT !.at = "print"]]]
      BY <1>2, <2>3, <3>1 DEF Trap, SavedRegs
    <3>3. [trap.regs EXCEPT !.mepc = [trap.regs.mepc EXCEPT !.at = "print"]] = printing
      BY <3>1 DEF SavedRegs
    <3>4. printing \in SavedRegs
      BY <2>1, <3>1 DEF SavedRegs
    <3> HIDE DEF Steps, printing, SavedRegs
    <3> QED
      BY <1>2, <2>1, <2>3, <3>2, <3>3, <3>4 DEF Trap
  <2> QED
    BY <1>3, <2>2, <2>3
<1>5. trap'.regs = [mepc |-> [at |-> Resume', pc |-> trap'.saved.pc], x |-> trap'.saved.x]
  BY <1>1, <1>4 DEF InTrap, Resume
<1>6. /\ cpu'.x = Clobbered
      /\ cpu' = [trap'.saved EXCEPT !.pc = trap'.saved.stvec, !.sp = trap'.saved.sscratch,
                                    !.sscratch = trap'.saved.sp, !.sie = FALSE, !.x = cpu'.x]
  <2> DEFINE c(x) == [trap.saved EXCEPT !.pc = trap.saved.stvec, !.sp = trap.saved.sscratch,
                                        !.sscratch = trap.saved.sp, !.sie = FALSE, !.x = x]
  <2>1. cpu = c(cpu.x)
    BY <1>1 DEF InTrap
  <2>2. [c(cpu.x) EXCEPT !.x = Clobbered] = c(Clobbered) /\ c(Clobbered).x = Clobbered
    BY <1>2 DEF Cpu
  <2>3. cpu' = c(Clobbered) /\ cpu'.x = Clobbered
    BY <1>1, <2>1, <2>2
  <2> QED
    BY <1>4, <2>3
<1>7. InTrap'
  BY <1>1, <1>4, <1>5, <1>6 DEF InTrap
<1> QED
  BY <1>1, <1>4, <1>7, TrapIsNotNoTrap DEF TrapInv

\* The way back: everything is as it was saved.
LEMMA ReturnStep ==
  ASSUME TrapInv, ReturnFromTrap
  PROVE  /\ TrapInv' /\ trap # NoTrap /\ trap' = NoTrap
         /\ cpu' = trap.saved /\ trap.saved.sie
         /\ at' = IF trap.cause = "ecall" THEN "print"
                  ELSE IF at = "asleep" THEN "ecall" ELSE at
<1>1. /\ trap # NoTrap /\ trap.done /\ trap' = NoTrap /\ at' = trap.regs.mepc.at
      /\ cpu' = [cpu EXCEPT !.pc = trap.regs.mepc.pc, !.sp = cpu.sscratch,
                            !.sscratch = cpu.sp, !.sie = TRUE, !.x = trap.regs.x]
  BY DEF ReturnFromTrap, Goto
<1>2. InTrap /\ at \in Steps /\ trap \in Trap /\ trap.saved \in Cpu /\ Registers(trap.saved, at)
  BY <1>1 DEF TrapInv, InTrap, Trap
<1>3. at' = IF trap.cause = "ecall" THEN "print"
            ELSE IF at = "asleep" THEN "ecall" ELSE at
  BY <1>1, <1>2 DEF InTrap, Resume
<1>4. cpu' = trap.saved
  <2> DEFINE s == trap.saved
  <2>1. /\ cpu = [s EXCEPT !.pc = s.stvec, !.sp = s.sscratch,
                           !.sscratch = s.sp, !.sie = FALSE, !.x = cpu.x]
        /\ trap.regs.x = s.x /\ trap.regs.mepc.pc = s.pc /\ s.sie = TRUE
    BY <1>2 DEF InTrap, Cpu
  <2> HIDE DEF s
  <2>2. s \in Cpu
    BY <1>2 DEF s
  <2>3. cpu.sscratch = s.sp /\ cpu.sp = s.sscratch
    BY <2>1, <2>2 DEF Cpu
  <2>4. cpu' = [cpu EXCEPT !.pc = s.pc, !.sp = s.sp, !.sscratch = s.sscratch,
                           !.sie = TRUE, !.x = s.x]
    BY <1>1, <2>1, <2>3 DEF s
  <2> QED
    BY <2>1, <2>2, <2>4, ZenonT(30) DEF Cpu, s
<1>5. at' \in Steps /\ Registers(trap.saved, at')
  <2>1. \A a, b \in InMain : Registers(trap.saved, a) => Registers(trap.saved, b)
    BY DEF Registers, StackPage, GlobalPage, ScratchPage, InMain, RunningLow, Untrapped,
           InMachineMode, Mapping, Relocated
  <2>2. trap.cause = "ecall" => at = "ecall"
    BY <1>2 DEF InTrap
  <2>3. {"print", "asleep", "ecall"} \subseteq InMain \cap Steps
    BY DEF InMain, Steps
  <2> QED
    BY <1>2, <1>3, <2>1, <2>2, <2>3
<1>6. trap.saved.sie
  BY <1>2 DEF InTrap
<1> QED
  BY <1>1, <1>3, <1>4, <1>5, <1>6 DEF TrapInv

LEMMA TrapInvStep ==
  ASSUME TrapInv, [NextBoot]_bootVars
  PROVE  TrapInv'
<1>1. ASSUME UNCHANGED <<at, cpu, trap>>  PROVE TrapInv'
  BY <1>1 DEF TrapInv, InTrap, Resume
<1>2. CASE Kernel
  <2>1. CASE Ecall
    <3>1. At("ecall") /\ at = "ecall" /\ trap = NoTrap
      BY <2>1 DEF Ecall, At
    <3>2. cpu.sie
      BY <3>1 DEF TrapInv, Registers, Untrapped, InMachineMode, Mapping
    <3>3. TakeTrap("ecall", IF at = "asleep" THEN "ecall" ELSE at)
      BY <2>1, <3>1 DEF Ecall
    <3> QED
      BY <3>1, <3>2, <3>3, TakeTrapStep
  <2> QED
    BY <1>2, <2>1, BootSteps, RelocationSteps, MainSteps DEF Kernel
<1>3. CASE WakeUp
  BY <1>3, MainSteps
<1>4. CASE Handler
  <2>1. CASE Interrupt
    <3>1. trap = NoTrap /\ cpu.sie /\ TakeTrap("timer", IF at = "asleep" THEN "ecall" ELSE at)
      BY <2>1 DEF Interrupt, InterruptDue
    <3> QED
      BY <3>1, TakeTrapStep
  <2> QED
    BY <1>4, <2>1, HandlerSteps, ReturnStep DEF Handler
<1>5. CASE PageFault \/ Tick \/ HangForEver \/ UNCHANGED bootVars
  <2>1. UNCHANGED <<at, cpu, trap>>
    BY <1>5 DEF PageFault, Tick, HangForEver, bootVars, machine
  <2> QED
    BY <1>1, <2>1
<1> QED
  BY <1>2, <1>3, <1>4, <1>5 DEF NextBoot

\* The registers are those each step and each handler expects.
THEOREM RegistersInvariant == SpecBoot => []TrapInv
<1> QED
  BY TrapInvInit, TrapInvStep, PTL DEF SpecBoot

(***************************************************************************)
(* Only the end of a handler ends a trap.                                  *)
(***************************************************************************)
LEMMA TrapEnds ==
  ASSUME TrapInv, [NextBoot]_bootVars, trap # NoTrap, trap' = NoTrap
  PROVE  ReturnFromTrap
<1>1. trap' # trap
  OBVIOUS
<1>2. ~Ecall /\ ~Interrupt
  BY DEF Ecall, Interrupt, InterruptDue, At
<1>3. ~HandleInterrupt /\ ~HandleEcall
  <2>1. ASSUME HandleInterrupt \/ HandleEcall  PROVE FALSE
    <3>1. trap \in Trap
      BY DEF TrapInv, InTrap
    <3>2. trap'.done = TRUE \/ trap'.cause = trap.cause
      BY <2>1, <3>1 DEF HandleInterrupt, HandleEcall, Trap
    <3>3. trap'.cause = trap.cause
      BY <2>1, <3>1 DEF HandleInterrupt, HandleEcall, Trap
    <3>4. trap.cause # "none"
      BY <3>1 DEF Trap
    <3> QED
      BY <3>3, <3>4 DEF NoTrap
  <2> QED
    BY <2>1
<1>4. Kernel => Ecall
  BY <1>1 DEF Kernel, Start, KernelStart, SetPriv, EnablePaging, MapKernelLow, MapKernelHigh,
         MapDevice, NextLocation, MapWindow, GoLive, PrintSatp, InitTraps, EnableInterrupts,
         JumpHigh, SwapIn, AddSp, SwapOut, RelocateSp, RelocateGp, KernelMain,
         UnmapLowerHalf, LoadElf, PrintCounter, Wfi
<1>5. ~(WakeUp \/ PageFault \/ Tick \/ HangForEver \/ UNCHANGED bootVars)
  BY <1>1 DEF WakeUp, PageFault, Tick, HangForEver, bootVars, machine
<1> QED
  BY <1>2, <1>3, <1>4, <1>5 DEF NextBoot, Handler

(***************************************************************************)
(* What a trap interrupts is resumed with the registers it had, whichever  *)
(* stacks sp and sscratch pointed to: naked_trap_handler and handle_trap   *)
(* of src/trap.c, at every step of the boot.                               *)
(***************************************************************************)
THEOREM TrapsTransparent == SpecBoot => TrapsAreTransparent
<1>1. ASSUME TrapInv, [NextBoot]_bootVars
      PROVE  [(trap # NoTrap /\ trap' = NoTrap) =>
                /\ cpu' = [trap.saved EXCEPT !.sie = TRUE]
                /\ at' = IF trap.cause = "ecall" THEN "print"
                         ELSE IF at = "asleep" THEN "ecall" ELSE at]_bootVars
  <2> SUFFICES ASSUME trap # NoTrap, trap' = NoTrap
               PROVE  /\ cpu' = [trap.saved EXCEPT !.sie = TRUE]
                      /\ at' = IF trap.cause = "ecall" THEN "print"
                               ELSE IF at = "asleep" THEN "ecall" ELSE at
    OBVIOUS
  <2>1. ReturnFromTrap
    BY <1>1, TrapEnds
  <2>2. /\ cpu' = trap.saved /\ trap.saved.sie
        /\ at' = IF trap.cause = "ecall" THEN "print"
                 ELSE IF at = "asleep" THEN "ecall" ELSE at
    BY <1>1, <2>1, ReturnStep
  <2>3. trap.saved \in Cpu
    BY <1>1 DEF TrapInv, InTrap, Trap
  <2>4. [trap.saved EXCEPT !.sie = TRUE] = trap.saved
    BY <2>2, <2>3 DEF Cpu
  <2> QED
    BY <2>2, <2>4
<1> QED
  BY <1>1, RegistersInvariant, PTL DEF SpecBoot, TrapsAreTransparent

-----------------------------------------------------------------------------
(***************************************************************************)
(* The loops of enable_paging and unmap_lower_half_kernel, and the data    *)
(* no step or only handle_interrupt writes.                                *)
(***************************************************************************)
LoopInv ==
  /\ locations \in Locations
  /\ page \in Nat /\ slot \in Nat
  /\ timer \in {"armed", "fired", "never"}
  /\ counter \in 0..(CounterMod - 1)
  /\ at \in InMachineMode => page = KernelPage
  /\ at \in {"map_low", "map_high", "unmap"} => page \in LowImage
  /\ at = "map_devices" => slot \in DOMAIN locations /\ page >= StartPage(locations[slot])
  /\ at = "map_window" => page \in Ram

\* A region's pages are numbers.
LEMMA RegionPages ==
  ASSUME LoopInv, NEW n \in DOMAIN locations
  PROVE  /\ StartPage(locations[n]) \in Nat /\ EndPage(locations[n]) \in Nat
         /\ Unused(locations[n]) => StartPage(locations[n]) = 0
<1>1. locations \in Seq([address : Nat, size : Nat])
  BY BootAssumption DEF LoopInv
<1>2. locations[n] \in [address : Nat, size : Nat]
  BY <1>1, ElementOfSeq, LenProperties
<1>3. locations[n].address \in Nat /\ locations[n].size \in Nat
  BY <1>2
<1> QED
  BY <1>3 DEF StartPage, EndPage, Unused

LEMMA RamIsNotEmpty == RamPage \in Ram /\ RamPage \in Nat /\ RamPages \in Nat \ {0}
BY PageTableAssumption, RootFrameAssumption, FrameBytesAssumption DEF Ram, Frame, NumFrames

LEMMA LoopInvInit == InitBoot => LoopInv
<1> SUFFICES ASSUME InitBoot  PROVE LoopInv
  OBVIOUS
<1>1. 0 \in 0..(CounterMod - 1)
  BY BootAssumption
<1>2. /\ locations \in Locations /\ at = "start" /\ page = KernelPage /\ slot = 1
      /\ timer \in TimerAtReset /\ counter = 0
  BY DEF InitBoot
<1> QED
  BY <1>1, <1>2, BootAssumption DEF LoopInv, InMachineMode

LEMMA EnterSlotLoop ==
  ASSUME LoopInv, NEW n \in Nat, EnterSlot(n), UNCHANGED <<locations, timer, counter>>
  PROVE  LoopInv'
<1>1. CASE n \in DOMAIN locations
  <2>1. page' = StartPage(locations[n]) /\ slot' = n /\ at' = "map_devices"
    BY <1>1 DEF EnterSlot, Goto
  <2>2. page' \in Nat
    BY <1>1, <2>1, RegionPages
  <2> QED
    BY <1>1, <2>1, <2>2 DEF LoopInv, InMachineMode
<1>2. CASE n \notin DOMAIN locations
  <2>1. page' = RamPage /\ slot' = n /\ at' = "map_window"
    BY <1>2 DEF EnterSlot, Goto
  <2> QED
    BY <2>1, RamIsNotEmpty DEF LoopInv, InMachineMode
<1> QED
  BY <1>1, <1>2

LEMMA LoopInvStep ==
  ASSUME TrapInv, LoopInv, [NextBoot]_bootVars
  PROVE  LoopInv'
<1>0. KernelPage \in LowImage /\ KernelEndPage \in Nat
  BY Halves DEF LowImage, KernelEndPage
<1>1. ASSUME UNCHANGED <<locations, loop, timer, counter, at>>  PROVE LoopInv'
  BY <1>1 DEF LoopInv, loop
<1>2. ASSUME UNCHANGED <<locations, loop, timer, counter>>,
             at' \notin {"start", "kernel_start", "set_priv", "map_low", "map_high", "unmap",
                         "map_devices", "map_window"}
      PROVE  LoopInv'
  BY <1>2 DEF LoopInv, loop, InMachineMode
<1>3. CASE Start \/ KernelStart \/ SetPriv
  <2>1. /\ UNCHANGED <<locations, loop, timer, counter>> /\ at \in InMachineMode
        /\ at' \in {"kernel_start", "set_priv", "map_low"}
    BY <1>3 DEF Start, KernelStart, SetPriv, Goto, At, InMachineMode
  <2> QED
    BY <1>0, <2>1 DEF LoopInv, loop, InMachineMode
<1>4. CASE MapKernelLow
  <2>1. UNCHANGED <<locations, loop, timer, counter>> /\ at = "map_low" /\ at' = "map_high"
    BY <1>4 DEF MapKernelLow, Goto, At
  <2> QED
    BY <2>1 DEF LoopInv, loop, InMachineMode
<1>5. CASE MapKernelHigh
  <2>1. /\ UNCHANGED <<locations, timer, counter>> /\ page \in LowImage
        /\ IF page = KernelEndPage THEN EnterSlot(1)
           ELSE page' = page + 1 /\ at' = "map_low" /\ slot' = slot
    BY <1>5 DEF MapKernelHigh, Goto, At, LoopInv
  <2>2. page # KernelEndPage => page + 1 \in LowImage /\ page + 1 \in Nat
    BY <1>0, <2>1, Halves DEF LowImage
  <2> QED
    BY <2>1, <2>2, EnterSlotLoop DEF LoopInv, InMachineMode
<1>6. CASE MapDevice
  <2>1. UNCHANGED <<locations, slot, timer, counter, at>> /\ page' = page + 1
        /\ at = "map_devices"
    BY <1>6 DEF MapDevice, At
  <2>2. StartPage(locations[slot]) \in Nat
    BY <2>1, RegionPages DEF LoopInv
  <2> QED
    BY <2>1, <2>2 DEF LoopInv, InMachineMode
<1>7. CASE NextLocation
  <2>1. UNCHANGED <<locations, timer, counter>> /\ EnterSlot(slot + 1) /\ slot + 1 \in Nat
    BY <1>7 DEF NextLocation, LoopInv
  <2> QED
    BY <2>1, EnterSlotLoop
<1>8. CASE MapWindow
  <2>1. /\ UNCHANGED <<locations, slot, timer, counter>> /\ page' = page + 1 /\ page \in Ram
        /\ at' = IF page + 1 = RamPage + RamPages THEN "write_satp" ELSE "map_window"
    BY <1>8 DEF MapWindow, Goto, At, LoopInv
  <2>2. page + 1 \in Nat /\ (page + 1 # RamPage + RamPages => page + 1 \in Ram)
    BY <2>1, RamIsNotEmpty DEF Ram
  <2> QED
    BY <2>1, <2>2 DEF LoopInv, InMachineMode
<1>9. CASE KernelMain
  <2>1. /\ UNCHANGED <<locations, slot, timer>> /\ counter' = 69 % CounterMod
        /\ page' = KernelPage /\ at' = "unmap"
    BY <1>9 DEF KernelMain, Goto
  <2>2. 69 % CounterMod \in 0..(CounterMod - 1)
    BY BootAssumption
  <2> QED
    BY <1>0, <2>1, <2>2, Halves DEF LoopInv, InMachineMode
<1>10. CASE UnmapLowerHalf
  <2>1. /\ UNCHANGED <<locations, slot, timer, counter>> /\ page' = page + 1 /\ page \in LowImage
        /\ at' = IF page = KernelEndPage THEN "load_elf" ELSE "unmap"
    BY <1>10 DEF UnmapLowerHalf, Goto, At, LoopInv
  <2>2. page + 1 \in Nat /\ (page # KernelEndPage => page + 1 \in LowImage)
    BY <1>0, <2>1, Halves DEF LowImage
  <2> QED
    BY <2>1, <2>2 DEF LoopInv, InMachineMode
<1>11. CASE GoLive \/ PrintSatp \/ InitTraps \/ EnableInterrupts \/ JumpHigh \/ SwapIn \/ AddSp
            \/ SwapOut \/ RelocateSp \/ RelocateGp \/ LoadElf \/ PrintCounter \/ Wfi \/ WakeUp
  BY <1>2, <1>11 DEF GoLive, PrintSatp, InitTraps, EnableInterrupts, JumpHigh, SwapIn, AddSp,
     SwapOut, RelocateSp, RelocateGp, LoadElf, PrintCounter, Wfi, WakeUp, Goto
<1>12. CASE Ecall \/ Interrupt \/ HandleEcall
  BY <1>1, <1>12 DEF Ecall, Interrupt, TakeTrap, HandleEcall
<1>13. CASE HandleInterrupt
  <2>1. (counter + 1) % CounterMod \in 0..(CounterMod - 1)
    BY BootAssumption DEF LoopInv
  <2>2. /\ UNCHANGED <<locations, loop, at>> /\ timer' = "armed"
        /\ counter' = (counter + 1) % CounterMod
    BY <1>13 DEF HandleInterrupt
  <2> QED
    BY <2>1, <2>2 DEF LoopInv, loop
<1>14. CASE ReturnFromTrap
  <2>1. UNCHANGED <<locations, loop, timer, counter>> /\ at' \in {at, "print", "ecall"}
    BY <1>14, ReturnStep DEF ReturnFromTrap
  <2> QED
    BY <1>1, <1>2, <2>1
<1>15. CASE Tick
  <2>1. UNCHANGED <<locations, loop, counter, at>> /\ timer' = "fired"
    BY <1>15 DEF Tick
  <2> QED
    BY <2>1 DEF LoopInv, loop
<1>16. CASE PageFault \/ HangForEver \/ UNCHANGED bootVars
  BY <1>1, <1>16 DEF PageFault, HangForEver, bootVars, machine
<1> QED
  BY <1>3, <1>4, <1>5, <1>6, <1>7, <1>8, <1>9, <1>10, <1>11, <1>12, <1>13, <1>14, <1>15, <1>16
  DEF NextBoot, Kernel, EnablePaging, Handler

\* The data of PageTable keep their invariant: the boot calls its actions.
LEMMA PageTableInvStep ==
  ASSUME IInv, LoopInv, [NextBoot]_bootVars
  PROVE  IInv'
<1>0. MAP_PAGE \in MapType /\ pt \in {NULL, pt} /\ NULL \in {NULL, pt}
  BY DEF MapType
<1>1. ASSUME UNCHANGED vars  PROVE IInv'
  BY <1>1, StutterIInv
<1>2. CASE EnablePaging
  <2>1. CASE NextLocation
    BY <1>1, <2>1 DEF NextLocation
  <2>2. ASSUME NEW ppn \in Nat, NEW vpn \in Nat, CallMapPage(pt, ppn, vpn, MAP_PAGE)
        PROVE  IInv'
    BY <1>0, <2>2, CallMapPageIInv
  <2>3. CASE MapKernelLow
    BY <2>2, <2>3 DEF MapKernelLow, LoopInv
  <2>4. CASE MapKernelHigh
    <3>1. HighPage + page - KernelPage \in Nat
      BY <2>4, Halves DEF MapKernelHigh, At, LoopInv
    <3> QED
      BY <2>2, <2>4, <3>1 DEF MapKernelHigh, LoopInv
  <2>5. CASE MapDevice
    BY <2>2, <2>5 DEF MapDevice, LoopInv
  <2>6. CASE MapWindow
    <3>1. WindowPage + page \in Nat
      BY BootAssumption DEF LoopInv
    <3> QED
      BY <2>2, <2>6, <3>1 DEF MapWindow, LoopInv
  <2> QED
    BY <1>2, <2>1, <2>3, <2>4, <2>5, <2>6 DEF EnablePaging
<1>3. CASE UnmapLowerHalf
  BY <1>0, <1>3, CallUnmapPageIInv DEF UnmapLowerHalf, LoopInv
<1>4. CASE GoLive
  BY <1>4, WriteSatpIInv DEF GoLive
<1>5. CASE PageFault
  <2>1. halted' = TRUE /\ UNCHANGED <<frames, mem, pt, satp, level, data, last>>
    BY <1>5 DEF PageFault
  <2> QED
    BY <2>1 DEF IInv, TypeOK, TablesFormATree, DataInv, NothingHandedOutYet
<1>6. CASE Start \/ KernelStart \/ SetPriv \/ PrintSatp \/ InitTraps \/ EnableInterrupts
           \/ JumpHigh \/ SwapIn \/ AddSp \/ SwapOut \/ RelocateSp \/ RelocateGp
           \/ KernelMain \/ LoadElf \/ PrintCounter \/ Wfi \/ WakeUp
  BY <1>1, <1>6 DEF Start, KernelStart, SetPriv, PrintSatp, InitTraps, EnableInterrupts,
     JumpHigh, SwapIn, AddSp, SwapOut, RelocateSp, RelocateGp, KernelMain, LoadElf,
     PrintCounter, Wfi, WakeUp
<1>7. CASE Ecall \/ Handler \/ Tick \/ HangForEver \/ UNCHANGED bootVars
  BY <1>1, <1>7 DEF Ecall, Handler, Interrupt, TakeTrap, HandleInterrupt, HandleEcall,
     ReturnFromTrap, Tick, HangForEver, bootVars
<1> QED
  BY <1>2, <1>3, <1>4, <1>5, <1>6, <1>7 DEF NextBoot, Kernel

THEOREM BootInvariance == SpecBoot => [](IInv /\ TrapInv /\ LoopInv)
<1>1. InitBoot => IInv /\ TrapInv /\ LoopInv
  BY InitIInv, TrapInvInit, LoopInvInit DEF InitBoot
<1>2. IInv /\ TrapInv /\ LoopInv /\ [NextBoot]_bootVars => (IInv /\ TrapInv /\ LoopInv)'
  BY PageTableInvStep, TrapInvStep, LoopInvStep
<1> QED
  BY <1>1, <1>2, PTL DEF SpecBoot

(***************************************************************************)
(* Everything keeps its type through the boot: no register leaves the      *)
(* range of an address, no index its array, the counter its width.         *)
(***************************************************************************)
THEOREM BootTypeCorrect == SpecBoot => []TypeOKBoot
<1>1. IInv /\ TrapInv /\ LoopInv => TypeOKBoot
  <2> SUFFICES ASSUME IInv, TrapInv, LoopInv  PROVE TypeOKBoot
    OBVIOUS
  <2>1. cpu \in Cpu
    <3>1. CASE trap = NoTrap
      BY <3>1 DEF TrapInv, Registers
    <3>2. CASE trap # NoTrap
      <4>1. /\ trap.saved \in Cpu /\ cpu.x \in Others
            /\ cpu = [trap.saved EXCEPT !.pc = trap.saved.stvec, !.sp = trap.saved.sscratch,
                                        !.sscratch = trap.saved.sp, !.sie = FALSE, !.x = cpu.x]
        BY <3>2, CleanRegisters DEF TrapInv, InTrap, Trap, Cpu
      <4> DEFINE s == trap.saved
      <4>2. [s EXCEPT !.pc = s.stvec, !.sp = s.sscratch, !.sscratch = s.sp,
                      !.sie = FALSE, !.x = cpu.x] \in Cpu
        <5> HIDE DEF s
        <5> QED
          BY <4>1 DEF Cpu, s
      <4> QED
        BY <4>1, <4>2
    <3> QED
      BY <3>1, <3>2
  <2> QED
    BY <2>1 DEF TypeOKBoot, IInv, TrapInv, LoopInv, Cpu, Others
<1> QED
  BY <1>1, BootInvariance, PTL

(***************************************************************************)
(* Behind setup_post_relocation no register holds an address of the low    *)
(* image, whatever the compiled code left in it, whether it was swapped,   *)
(* relocated or saved by a trap meanwhile: src/asm/post_relocation.S and   *)
(* naked_trap_handler of src/trap.c.                                       *)
(***************************************************************************)
THEOREM NothingStaysLow == SpecBoot => []NoLowAddressIsLeft
<1>1. TrapInv => NoLowAddressIsLeft
  <2> SUFFICES ASSUME TrapInv, at \in Relocated
               PROVE  /\ \A a \in Addresses(cpu) : ~InImage(a)
                      /\ trap # NoTrap =>
                           \A a \in {trap.regs.mepc.pc, trap.regs.x.moved,
                                    trap.regs.x.shifted} : ~InImage(a)
    BY DEF NoLowAddressIsLeft
  <2>1. ASSUME NEW o \in ImageOffset  PROVE ~InImage(HighPage + o)
    BY Halves DEF InImage, ImageOffset, KernelEndPage
  <2>2. ASSUME NEW c, Registers(c, at)
        PROVE  /\ ~InImage(c.pc) /\ ~InImage(c.sp) /\ ~InImage(c.gp)
               /\ ~InImage(c.sscratch) /\ ~InImage(c.stvec) /\ Clean(c.x)
    BY <2>1, <2>2, BootAssumption
    DEF Registers, StackPage, GlobalPage, ScratchPage, RunningLow, Untrapped, InMachineMode,
        Mapping, Relocated, InMain
  <2>3. CASE trap = NoTrap
    BY <2>2, <2>3 DEF TrapInv, Addresses, Clean
  <2>4. CASE trap # NoTrap
    <3> DEFINE s == trap.saved
    <3>1. /\ s \in Cpu /\ Registers(s, at)
          /\ trap.regs = [mepc |-> [at |-> Resume, pc |-> s.pc], x |-> s.x]
          /\ cpu.x \in {s.x, Clobbered}
          /\ cpu = [s EXCEPT !.pc = s.stvec, !.sp = s.sscratch, !.sscratch = s.sp,
                             !.sie = FALSE, !.x = cpu.x]
      BY <2>4 DEF TrapInv, InTrap, Trap
    <3> HIDE DEF s
    <3>2. /\ cpu.pc = s.stvec /\ cpu.sp = s.sscratch /\ cpu.sscratch = s.sp
          /\ cpu.gp = s.gp /\ cpu.stvec = s.stvec
      BY <3>1 DEF Cpu
    <3>3. Clean(cpu.x)
      BY <2>2, <3>1, CleanRegisters
    <3> QED
      BY <2>2, <3>1, <3>2, <3>3 DEF Addresses, Clean
  <2> QED
    BY <2>3, <2>4
<1> QED
  BY <1>1, RegistersInvariant, PTL

-----------------------------------------------------------------------------
(***************************************************************************)
(* .rodata: a word has moved when kernel_main is past modify_rodata_ptrs   *)
(* and all words up to it were linked to addresses of low RAM.             *)
(***************************************************************************)
Moved == InMain \cup {"unmap"}

Word == [pointer : BOOLEAN, linked : Nat, value : Nat]

LinkedLow(k) ==
  \A j \in 1..k : rodata[j].linked \in KernelPage..(RamPage + RamPages - 1)

RodataInv ==
  /\ \A k \in DOMAIN rodata : 1..k \subseteq DOMAIN rodata /\ k \in Nat \ {0}
  /\ \A k \in DOMAIN rodata :
       /\ rodata[k] \in Word
       /\ rodata[k].pointer => rodata[k].linked \in KernelPage..(KernelEndPage - 1)
       /\ rodata[k].value = IF at \in Moved /\ LinkedLow(k) THEN rodata[k].linked + Diff
                            ELSE rodata[k].linked

LEMMA RodataInvInit == InitBoot => RodataInv
<1> SUFFICES ASSUME InitBoot  PROVE RodataInv
  OBVIOUS
<1>1. rodata \in Rodata /\ at = "start"
  BY DEF InitBoot
<1>2. /\ rodata \in Seq(Word)
      /\ \A n \in DOMAIN rodata :
           /\ rodata[n].value = rodata[n].linked
           /\ rodata[n].pointer => rodata[n].linked \in KernelPage..(KernelEndPage - 1)
  BY <1>1, RodataAssumption DEF Word
<1>3. Len(rodata) \in Nat /\ DOMAIN rodata = 1..Len(rodata)
  BY <1>2, LenProperties
<1>4. \A k \in DOMAIN rodata : rodata[k] \in Word
  BY <1>2, <1>3, ElementOfSeq
<1> QED
  BY <1>1, <1>2, <1>3, <1>4 DEF RodataInv, Moved, InMain

\* All steps but modify_rodata_ptrs leave .rodata alone.
LEMMA StepsLeaveRodata ==
  ASSUME TrapInv, [NextBoot]_bootVars
  PROVE  KernelMain \/ (rodata' = rodata /\ (at' \in Moved <=> at \in Moved))
<1>1. CASE EnablePaging
  BY <1>1 DEF EnablePaging, MapKernelLow, MapKernelHigh, MapDevice, NextLocation, MapWindow,
     EnterSlot, Goto, At, Moved, InMain
<1>2. CASE Start \/ KernelStart \/ SetPriv \/ GoLive \/ PrintSatp \/ InitTraps \/ EnableInterrupts
           \/ JumpHigh \/ SwapIn \/ AddSp \/ SwapOut \/ RelocateSp \/ RelocateGp
  BY <1>2 DEF Start, KernelStart, SetPriv, GoLive, PrintSatp, InitTraps, EnableInterrupts,
     JumpHigh, SwapIn, AddSp, SwapOut, RelocateSp, RelocateGp, Goto, At, Moved, InMain
<1>3. CASE UnmapLowerHalf \/ LoadElf \/ PrintCounter \/ Wfi \/ WakeUp
  BY <1>3 DEF UnmapLowerHalf, LoadElf, PrintCounter, Wfi, WakeUp, Goto, At, Moved, InMain
<1>4. CASE ReturnFromTrap
  <2>1. /\ rodata' = rodata /\ InTrap
        /\ at' = IF trap.cause = "ecall" THEN "print"
                 ELSE IF at = "asleep" THEN "ecall" ELSE at
    BY <1>4, ReturnStep DEF ReturnFromTrap, TrapInv
  <2>2. trap.cause = "ecall" => at = "ecall"
    BY <2>1 DEF InTrap
  <2> QED
    BY <2>1, <2>2 DEF Moved, InMain
<1>5. CASE Ecall \/ Interrupt \/ HandleInterrupt \/ HandleEcall \/ PageFault \/ Tick \/ HangForEver
           \/ UNCHANGED bootVars
  BY <1>5 DEF Ecall, Interrupt, TakeTrap, HandleInterrupt, HandleEcall, PageFault, Tick,
     HangForEver, bootVars, machine
<1> QED
  BY <1>1, <1>2, <1>3, <1>4, <1>5 DEF NextBoot, Kernel, Handler

LEMMA RodataInvStep ==
  ASSUME TrapInv, RodataInv, [NextBoot]_bootVars
  PROVE  RodataInv'
<1>1. CASE rodata' = rodata /\ (at' \in Moved <=> at \in Moved)
  BY <1>1 DEF RodataInv, LinkedLow
<1>2. CASE KernelMain
  <2>1. at = "kernel_main" /\ at' = "unmap" /\ rodata' = ModifyRodata(rodata)
    BY <1>2 DEF KernelMain, At, Goto
  <2>2. at \notin Moved /\ at' \in Moved
    BY <2>1 DEF Moved, InMain
  <2>3. Diff \in Nat
    BY Halves DEF Diff
  <2>4. ASSUME NEW k \in DOMAIN rodata
        PROVE  (\A j \in 1..k : InLowRam(rodata[j])) <=> LinkedLow(k)
    BY <2>2 DEF RodataInv, InLowRam, LinkedLow
  <2>5. DOMAIN rodata' = DOMAIN rodata
    BY <2>1 DEF ModifyRodata
  <2>6. ASSUME NEW k \in DOMAIN rodata
        PROVE  /\ rodata'[k] \in Word
               /\ rodata'[k].pointer = rodata[k].pointer
               /\ rodata'[k].linked = rodata[k].linked
               /\ rodata'[k].value = IF LinkedLow(k) THEN rodata[k].linked + Diff
                                     ELSE rodata[k].linked
    <3>1. rodata'[k] = IF LinkedLow(k) THEN [rodata[k] EXCEPT !.value = @ + Diff] ELSE rodata[k]
      BY <2>1, <2>4 DEF ModifyRodata
    <3>2. rodata[k] \in Word /\ rodata[k].value = rodata[k].linked
      BY <2>2 DEF RodataInv
    <3>3. rodata[k].value + Diff \in Nat
      BY <2>3, <3>2 DEF Word
    <3> QED
      BY <3>1, <3>2, <3>3 DEF Word
  <2>7. ASSUME NEW k \in DOMAIN rodata  PROVE LinkedLow(k)' <=> LinkedLow(k)
    BY <2>6 DEF RodataInv, LinkedLow
  <2> QED
    BY <2>2, <2>5, <2>6, <2>7 DEF RodataInv
<1> QED
  BY <1>1, <1>2, StepsLeaveRodata

-----------------------------------------------------------------------------
(***************************************************************************)
(* The address space.  `Done` is the set of pages that are mapped, at any  *)
(* step: what the loops of enable_paging have come to, less what the loop  *)
(* of unmap_lower_half_kernel has taken away.                              *)
(***************************************************************************)
MappingImage == {"map_low", "map_high"}
BeforePaging == InMachineMode \cup Mapping \cup {"write_satp"}

SlotPages(n) ==
  IF Unused(locations[n]) THEN {} ELSE StartPage(locations[n])..EndPage(locations[n])

DoneLow ==
  {v \in LowImage :
     /\ at \notin InMachineMode
     /\ at = "map_low" => v < page
     /\ at = "map_high" => v <= page}

DoneHigh ==
  {v \in HighImage :
     /\ at \notin InMachineMode
     /\ at \in MappingImage => v < HighPage + page - KernelPage}

SlotsBefore(n) == UNION {SlotPages(k) : k \in {k \in DOMAIN locations : k < n}}

Below(S, p) == {v \in S : v < p}

DoneDevices ==
  IF at \in InMachineMode \cup MappingImage THEN {}
  ELSE IF at = "map_devices" THEN SlotsBefore(slot) \cup Below(SlotPages(slot), page)
  ELSE Devices

DoneWindow ==
  {v \in RamWindow :
     /\ at \notin InMachineMode \cup MappingImage \cup {"map_devices"}
     /\ at = "map_window" => v < WindowPage + page}

Removed ==
  IF at \in InMain THEN LowImage ELSE IF at = "unmap" THEN Below(LowImage, page) ELSE {}

Done == (DoneLow \cup DoneHigh \cup DoneDevices \cup DoneWindow) \ Removed

Serves(m, D) ==
  \A v \in Vpn : Translate(m, pt, v) = IF v \in D THEN Target(v) ELSE Fault

SpaceInv ==
  /\ satp = IF at \in BeforePaging THEN NULL ELSE pt
  /\ ~halted \/ satp = pt => Paged(Walk) /\ Serves(mem, Done)

\* The layout, as the bounds the proofs use.
LEMMA Layout ==
  /\ KernelPage \in Nat /\ KernelPages \in Nat /\ KernelPages > 0 /\ HighPage \in Nat
  /\ WindowPage \in Nat /\ RamPage \in Nat /\ RamPages \in Nat /\ RamPages > 0 /\ RamPage > 1
  /\ KernelEndPage = KernelPage + KernelPages /\ KernelEndPage < HighPage
  /\ Diff = HighPage - KernelPage
  /\ HighPage + KernelPages < WindowPage + RamPage
  /\ \A v \in Nat : v < WindowPage + RamPage + RamPages => v \in Vpn
<1>1. /\ WindowPage \in Nat /\ RamPage > 1
      /\ HighPage + KernelPages < WindowPage + RamPage
      /\ WindowPage + RamPage + RamPages <= Fanout * Fanout * Fanout
  BY BootAssumption, LayoutAssumption, PageTableAssumption
<1>2. Fanout * Fanout * Fanout \in Nat
  BY PageTableAssumption
<1>3. \A v \in Nat : v < Fanout * Fanout * Fanout => v \in Vpn
  BY <1>2 DEF Vpn
<1>4. KernelEndPage < HighPage
  BY Halves DEF KernelEndPage
<1>5. RamPage \in Nat /\ RamPages \in Nat /\ RamPages > 0
  BY RamIsNotEmpty
<1>6. KernelPages \in Nat /\ KernelPages > 0 /\ KernelPage \in Nat /\ HighPage \in Nat
  BY BootAssumption DEF Vpn
<1>7. \A v \in Nat : v < WindowPage + RamPage + RamPages => v \in Vpn
  <2> SUFFICES ASSUME NEW v \in Nat, v < WindowPage + RamPage + RamPages
               PROVE  v < Fanout * Fanout * Fanout
    BY <1>3
  <2> DEFINE all == Fanout * Fanout * Fanout
  <2>1. all \in Nat /\ WindowPage + RamPage + RamPages <= all
    BY <1>1, <1>2
  <2> HIDE DEF all
  <2>2. v < all
    BY <1>1, <1>5, <2>1
  <2> QED
    BY <2>2 DEF all
<1> QED
  BY <1>1, <1>4, <1>5, <1>6, <1>7 DEF KernelEndPage, Diff

\* The pages of the devices lie below the high half.
LEMMA DevicesAreLow ==
  ASSUME LoopInv, NEW n \in DOMAIN locations, NEW v \in SlotPages(n)
  PROVE  v \in Nat /\ v < HighPage /\ v \in Devices
<1>1. /\ ~Unused(locations[n]) /\ v \in StartPage(locations[n])..EndPage(locations[n])
      /\ StartPage(locations[n]) \in Nat /\ EndPage(locations[n]) \in Nat
  BY RegionPages DEF SlotPages
<1>2. EndPage(locations[n]) < HighPage
  BY <1>1, LayoutAssumption DEF LoopInv
<1>3. v \in Devices
  BY <1>1 DEF Devices
<1> QED
  BY <1>1, <1>2, <1>3, Layout

LEMMA DevicesBySlot ==
  Devices = UNION {SlotPages(n) : n \in DOMAIN locations}
BY DEF Devices, SlotPages

LEMMA NeededIsVirtual == LoopInv => Needed \subseteq Vpn
<1> SUFFICES ASSUME LoopInv, NEW v \in Needed  PROVE v \in Vpn
  OBVIOUS
<1>1. CASE v \in LowImage \cup HighImage \cup RamWindow
  <2>1. v \in Nat /\ v < WindowPage + RamPage + RamPages
    BY <1>1, Layout DEF LowImage, HighImage, RamWindow
  <2> QED
    BY <2>1, Layout
<1>2. CASE v \in Devices
  <2>1. PICK n \in DOMAIN locations : v \in SlotPages(n)
    BY <1>2, DevicesBySlot
  <2>2. v \in Nat /\ v < HighPage
    BY <2>1, DevicesAreLow
  <2> QED
    BY <2>2, Layout
<1> QED
  BY <1>1, <1>2 DEF Needed

\* What a step maps: an image, a device or a page of the window.
LEMMA Targets ==
  /\ \A v \in Nat : v < HighPage => Target(v) = v
  /\ \A p \in LowImage : /\ HighPage + p - KernelPage \in HighImage
                         /\ Target(HighPage + p - KernelPage) = p
  /\ \A p \in Ram : WindowPage + p \in RamWindow /\ Target(WindowPage + p) = p
<1>1. ASSUME NEW v \in Nat, v < HighPage  PROVE Target(v) = v
  BY <1>1, Layout DEF Target, HighImage, RamWindow
<1>2. ASSUME NEW p \in LowImage
      PROVE  HighPage + p - KernelPage \in HighImage /\ Target(HighPage + p - KernelPage) = p
  BY <1>2, Layout DEF Target, HighImage, LowImage
<1>3. ASSUME NEW p \in Ram
      PROVE  WindowPage + p \in RamWindow /\ Target(WindowPage + p) = p
  BY <1>3, Layout DEF Target, HighImage, RamWindow, Ram
<1> QED
  BY <1>1, <1>2, <1>3

-----------------------------------------------------------------------------
\* How each step moves `Done`.

LEMMA DoneMapLow ==
  ASSUME LoopInv, MapKernelLow
  PROVE  Done' = Done \cup {page} /\ page \in LowImage
<1>1. at = "map_low" /\ at' = "map_high" /\ page' = page /\ page \in LowImage /\ page \in Nat
  BY DEF MapKernelLow, At, Goto, loop, LoopInv
<1>2. \A v \in LowImage : v \in Nat
  BY Layout DEF LowImage
<1>3. DoneLow' = DoneLow \cup {page}
  <2>1. DoneLow = {v \in LowImage : v < page}
    BY <1>1 DEF DoneLow, InMachineMode
  <2>2. DoneLow' = {v \in LowImage : v <= page}
    BY <1>1 DEF DoneLow, InMachineMode
  <2>3. \A v \in LowImage : v <= page <=> v < page \/ v = page
    BY <1>1, <1>2
  <2> QED
    BY <1>1, <2>1, <2>2, <2>3
<1>4. DoneHigh' = DoneHigh
  BY <1>1 DEF DoneHigh, InMachineMode, MappingImage
<1>5. DoneDevices' = {} /\ DoneDevices = {} /\ DoneWindow' = {} /\ DoneWindow = {}
  BY <1>1 DEF DoneDevices, DoneWindow, MappingImage
<1>6. Removed = {} /\ Removed' = {}
  BY <1>1 DEF Removed, InMain
<1> QED
  BY <1>1, <1>3, <1>4, <1>5, <1>6 DEF Done

\* Entering a slot maps nothing: what lies before it is what was mapped.
LEMMA EnterSlotDone ==
  ASSUME LoopInv, NEW n \in Nat \ {0}, EnterSlot(n), locations' = locations
  PROVE  /\ Done' = LowImage \cup HighImage \cup SlotsBefore(n)
         /\ \A k \in DOMAIN locations : k \in Nat \ {0}
<1>1. DOMAIN locations = 1..Len(locations) /\ Len(locations) \in Nat
  BY BootAssumption, LenProperties DEF LoopInv
<1>2. \/ /\ n \in DOMAIN locations /\ slot' = n
         /\ at' = "map_devices" /\ page' = StartPage(locations[n])
      \/ n \notin DOMAIN locations /\ at' = "map_window" /\ page' = RamPage
  BY DEF EnterSlot, Goto
<1>3. DoneLow' = LowImage /\ DoneHigh' = HighImage /\ Removed' = {}
  BY <1>2 DEF DoneLow, DoneHigh, Removed, InMachineMode, MappingImage, InMain
<1>4. DoneWindow' = {}
  <2> SUFFICES ASSUME NEW v \in RamWindow, at' = "map_window", page' = RamPage,
                      v < WindowPage + page'
               PROVE  FALSE
    BY <1>2 DEF DoneWindow
  <2> QED
    BY Layout DEF RamWindow
<1>5. DoneDevices' = SlotsBefore(n)
  <2>1. SlotsBefore(n) \subseteq Devices
    BY DevicesBySlot DEF SlotsBefore
  <2>2. CASE n \in DOMAIN locations
    <3>1. slot' = n /\ at' = "map_devices" /\ page' = StartPage(locations[n])
      BY <1>2, <2>2
    <3>2. \A v \in SlotPages(n) : ~(v < StartPage(locations[n]))
      BY <2>2, RegionPages DEF SlotPages
    <3>3. DoneDevices' = SlotsBefore(n) \cup Below(SlotPages(n), page')
      BY <3>1 DEF DoneDevices, InMachineMode, MappingImage, SlotPages, SlotsBefore, Below
    <3>4. Below(SlotPages(n), page') = {}
      BY <3>1, <3>2 DEF Below
    <3> QED
      BY <3>3, <3>4
  <2>3. CASE n \notin DOMAIN locations
    <3>1. at' = "map_window"
      BY <1>2, <2>3
    <3>2. DoneDevices' = Devices
      BY <3>1 DEF DoneDevices, InMachineMode, MappingImage, Devices
    <3>3. \A k \in DOMAIN locations : k < n
      BY <1>1, <2>3
    <3> QED
      BY <3>2, <3>3, DevicesBySlot DEF SlotsBefore
  <2> QED
    BY <2>2, <2>3
<1> QED
  BY <1>1, <1>3, <1>4, <1>5 DEF Done

LEMMA DoneMapHigh ==
  ASSUME LoopInv, MapKernelHigh
  PROVE  Done' = Done \cup {HighPage + page - KernelPage} /\ page \in LowImage
<1> DEFINE h == HighPage + page - KernelPage
<1>1. /\ at = "map_high" /\ page \in LowImage /\ locations' = locations /\ page \in Nat
      /\ IF page = KernelEndPage THEN EnterSlot(1) ELSE page' = page + 1 /\ at' = "map_low"
  BY DEF MapKernelHigh, At, Goto, LoopInv
<1>2. \A v \in LowImage : v \in Nat
  BY Layout DEF LowImage
<1>3. \A v \in HighImage : v \in Nat
  BY Layout DEF HighImage
<1>4. DoneDevices = {} /\ DoneWindow = {} /\ Removed = {}
  BY <1>1 DEF DoneDevices, DoneWindow, MappingImage, Removed, InMain
<1>5. DoneLow = {v \in LowImage : v <= page}
  BY <1>1 DEF DoneLow, InMachineMode
<1>6. DoneHigh = {v \in HighImage : v < h}
  BY <1>1 DEF DoneHigh, InMachineMode, MappingImage
<1>7. CASE page = KernelEndPage
  <2>1. DoneLow = LowImage
    BY <1>5, <1>7, Layout DEF LowImage
  <2>2. HighImage = DoneHigh \cup {h}
    BY <1>6, <1>7, Layout DEF HighImage
  <2>3. /\ Done' = LowImage \cup HighImage \cup SlotsBefore(1)
        /\ \A k \in DOMAIN locations : k \in Nat \ {0}
    BY <1>1, <1>7, EnterSlotDone
  <2>4. SlotsBefore(1) = {}
    BY <2>3 DEF SlotsBefore
  <2> QED
    BY <1>1, <1>4, <2>1, <2>2, <2>3, <2>4 DEF Done
<1>8. CASE page # KernelEndPage
  <2>1. page' = page + 1 /\ at' = "map_low"
    BY <1>1, <1>8
  <2>2. DoneLow' = {v \in LowImage : v < page + 1}
    BY <2>1 DEF DoneLow, InMachineMode
  <2>3. DoneHigh' = {v \in HighImage : v < HighPage + (page + 1) - KernelPage}
    BY <2>1 DEF DoneHigh, InMachineMode, MappingImage
  <2>4. DoneDevices' = {} /\ DoneWindow' = {} /\ Removed' = {}
    BY <2>1 DEF DoneDevices, DoneWindow, MappingImage, Removed, InMain
  <2>5. DoneLow' = DoneLow
    <3>1. \A v \in LowImage : v <= page <=> v < page + 1
      BY <1>1, <1>2
    <3> QED
      BY <1>5, <2>2, <3>1
  <2>6. h \in HighImage /\ h \in Nat
    BY <1>1, Targets, <1>3
  <2>7. DoneHigh' = DoneHigh \cup {h}
    BY <1>1, <1>3, <1>6, <2>3, <2>6, Layout
  <2> QED
    BY <1>1, <1>4, <2>4, <2>5, <2>7 DEF Done
<1> QED
  BY <1>7, <1>8

LEMMA DoneMapDevice ==
  ASSUME LoopInv, MapDevice
  PROVE  /\ Done' = Done \cup {page}
         /\ page \in Nat /\ page < HighPage /\ page \in Devices
<1>1. /\ at = "map_devices" /\ at' = at /\ page' = page + 1 /\ slot' = slot
      /\ locations' = locations /\ slot \in DOMAIN locations
      /\ ~Unused(locations[slot]) /\ page <= EndPage(locations[slot])
      /\ page >= StartPage(locations[slot]) /\ page \in Nat
  BY DEF MapDevice, At, LoopInv
<1>2. page \in SlotPages(slot)
  BY <1>1, RegionPages DEF SlotPages
<1>3. page < HighPage /\ page \in Devices
  BY <1>1, <1>2, DevicesAreLow
<1>4. DoneLow' = LowImage /\ DoneLow = LowImage /\ DoneHigh' = HighImage /\ DoneHigh = HighImage
  BY <1>1 DEF DoneLow, DoneHigh, InMachineMode, MappingImage
<1>5. DoneWindow' = {} /\ DoneWindow = {} /\ Removed' = {} /\ Removed = {}
  BY <1>1 DEF DoneWindow, Removed, InMain
<1>6. DoneDevices = SlotsBefore(slot) \cup Below(SlotPages(slot), page)
  BY <1>1 DEF DoneDevices, InMachineMode, MappingImage
<1>7. DoneDevices' = SlotsBefore(slot) \cup Below(SlotPages(slot), page + 1)
  BY <1>1 DEF DoneDevices, InMachineMode, MappingImage, SlotPages, SlotsBefore, Below
<1>8. \A v \in SlotPages(slot) : v < page + 1 <=> v < page \/ v = page
  <2>1. \A v \in SlotPages(slot) : v \in Nat
    BY <1>1, DevicesAreLow
  <2> QED
    BY <1>1, <2>1
<1>9. DoneDevices' = DoneDevices \cup {page}
  <2>1. Below(SlotPages(slot), page + 1) = Below(SlotPages(slot), page) \cup {page}
    BY <1>2, <1>8 DEF Below
  <2> QED
    BY <1>6, <1>7, <2>1
<1> QED
  BY <1>1, <1>3, <1>4, <1>5, <1>9 DEF Done

LEMMA DoneNextLocation ==
  ASSUME LoopInv, NextLocation
  PROVE  Done' = Done
<1>1. /\ at = "map_devices" /\ EnterSlot(slot + 1) /\ slot + 1 \in Nat \ {0}
      /\ locations' = locations /\ slot \in DOMAIN locations /\ slot \in Nat
      /\ Unused(locations[slot]) \/ page > EndPage(locations[slot])
      /\ page \in Nat
  BY DEF NextLocation, At, LoopInv
<1>2. /\ Done' = LowImage \cup HighImage \cup SlotsBefore(slot + 1)
      /\ \A k \in DOMAIN locations : k \in Nat \ {0}
  BY <1>1, EnterSlotDone
<1>3. DoneLow = LowImage /\ DoneHigh = HighImage /\ DoneWindow = {} /\ Removed = {}
  BY <1>1 DEF DoneLow, DoneHigh, InMachineMode, MappingImage, DoneWindow, Removed, InMain
<1>4. DoneDevices = SlotsBefore(slot) \cup Below(SlotPages(slot), page)
  BY <1>1 DEF DoneDevices, InMachineMode, MappingImage
<1>5. \A v \in SlotPages(slot) : v < page
  BY <1>1, RegionPages DEF SlotPages
<1>6. SlotsBefore(slot + 1) = SlotsBefore(slot) \cup SlotPages(slot)
  <2>1. \A k \in DOMAIN locations : k < slot + 1 <=> k < slot \/ k = slot
    BY <1>1, <1>2
  <2>2. {k \in DOMAIN locations : k < slot + 1} = {k \in DOMAIN locations : k < slot} \cup {slot}
    BY <1>1, <2>1
  <2> QED
    BY <2>2 DEF SlotsBefore
<1>7. DoneDevices = SlotsBefore(slot + 1)
  <2>1. Below(SlotPages(slot), page) = SlotPages(slot)
    BY <1>5 DEF Below
  <2> QED
    BY <1>4, <1>6, <2>1
<1> QED
  BY <1>2, <1>3, <1>7 DEF Done

LEMMA DoneMapWindow ==
  ASSUME LoopInv, MapWindow
  PROVE  Done' = Done \cup {WindowPage + page} /\ page \in Ram
<1>1. /\ at = "map_window" /\ page' = page + 1 /\ page \in Ram /\ locations' = locations
      /\ at' = IF page + 1 = RamPage + RamPages THEN "write_satp" ELSE "map_window"
      /\ page \in Nat
  BY DEF MapWindow, Goto, At, LoopInv
<1>2. at' \in {"write_satp", "map_window"}
  BY <1>1
<1>3. DoneLow' = LowImage /\ DoneLow = LowImage /\ DoneHigh' = HighImage /\ DoneHigh = HighImage
  BY <1>1, <1>2 DEF DoneLow, DoneHigh, InMachineMode, MappingImage
<1>4. Removed' = {} /\ Removed = {}
  BY <1>1, <1>2 DEF Removed, InMain
<1>5. DoneDevices' = Devices /\ DoneDevices = Devices
  BY <1>1, <1>2 DEF DoneDevices, InMachineMode, MappingImage, Devices
<1>6. DoneWindow = {v \in RamWindow : v < WindowPage + page}
  BY <1>1 DEF DoneWindow, InMachineMode, MappingImage
<1>7. DoneWindow' = {v \in RamWindow : v < WindowPage + (page + 1)}
  <2>1. CASE page + 1 = RamPage + RamPages
    <3>1. DoneWindow' = RamWindow
      BY <1>1, <2>1 DEF DoneWindow, InMachineMode, MappingImage
    <3>2. \A v \in RamWindow : v < WindowPage + (page + 1)
      BY <1>1, <2>1, Layout DEF RamWindow
    <3> QED
      BY <3>1, <3>2
  <2>2. CASE page + 1 # RamPage + RamPages
    BY <1>1, <2>2 DEF DoneWindow, InMachineMode, MappingImage
  <2> QED
    BY <2>1, <2>2
<1>8. \A v \in RamWindow : v < WindowPage + (page + 1) <=> v < WindowPage + page \/ v = WindowPage + page
  BY <1>1, Layout DEF RamWindow
<1>9. WindowPage + page \in RamWindow
  BY <1>1, Targets
<1>10. DoneWindow' = DoneWindow \cup {WindowPage + page}
  BY <1>6, <1>7, <1>8, <1>9
<1> QED
  BY <1>1, <1>3, <1>4, <1>5, <1>10 DEF Done

LEMMA DoneUnmap ==
  ASSUME LoopInv, UnmapLowerHalf
  PROVE  Done' = Done \ {page} /\ page \in LowImage
<1>1. /\ at = "unmap" /\ page' = page + 1 /\ page \in LowImage /\ locations' = locations
      /\ at' = IF page = KernelEndPage THEN "load_elf" ELSE "unmap"
      /\ page \in Nat
  BY DEF UnmapLowerHalf, Goto, At, LoopInv
<1>2. at' \in {"load_elf", "unmap"}
  BY <1>1
<1>3. DoneLow' = DoneLow /\ DoneHigh' = DoneHigh
  BY <1>1, <1>2 DEF DoneLow, DoneHigh, InMachineMode, MappingImage
<1>4. DoneDevices' = DoneDevices /\ DoneWindow' = DoneWindow
  BY <1>1, <1>2 DEF DoneDevices, DoneWindow, InMachineMode, MappingImage, Devices
<1>5. Removed = Below(LowImage, page)
  BY <1>1 DEF Removed, InMain
<1>6. Removed' = Below(LowImage, page + 1)
  <2>1. CASE page = KernelEndPage
    <3>1. at' = "load_elf"
      BY <1>1, <2>1
    <3>2. Removed' = LowImage
      BY <3>1 DEF Removed, InMain
    <3>3. \A v \in LowImage : v < page + 1
      BY <2>1, Layout DEF LowImage
    <3> QED
      BY <3>2, <3>3 DEF Below
  <2>2. CASE page # KernelEndPage
    BY <1>1, <2>2 DEF Removed, InMain, Below
  <2> QED
    BY <2>1, <2>2
<1>7. \A v \in LowImage : v < page + 1 <=> v < page \/ v = page
  BY <1>1, Layout DEF LowImage
<1>8. Removed' = Removed \cup {page}
  BY <1>1, <1>5, <1>6, <1>7 DEF Below
<1> QED
  BY <1>1, <1>3, <1>4, <1>8 DEF Done

-----------------------------------------------------------------------------
(***************************************************************************)
(* The address space follows `Done`.  Each call maps, or removes, the one  *)
(* page it is for, unless it hangs for lack of a frame; a page that was    *)
(* mapped before (a device's region may overlap another, or the image)     *)
(* stays as it is, and leads where the call would have led it.             *)
(***************************************************************************)
LEMMA TargetsArePages ==
  ASSUME NEW v \in Vpn
  PROVE  Target(v) \in Nat /\ Target(v) # Fault
<1>1. v \in Nat
  BY DEF Vpn
<1>2. Target(v) \in Nat
  BY <1>1, Layout DEF Target, HighImage, RamWindow
<1> QED
  BY <1>2 DEF Fault

LEMMA OnePage ==
  /\ Align(MAP_PAGE) = 1 /\ MAP_PAGE \in {MAP_PAGE, MAP_GIGAPAGE}
  /\ \A vpn \in Vpn : Block(vpn, 1) = {vpn}
<1>1. Align(MAP_PAGE) = 1
  BY DEF Align, MAP_PAGE, MAP_MEGAPAGE, MAP_GIGAPAGE
<1>2. ASSUME NEW vpn \in Vpn  PROVE Block(vpn, 1) = {vpn}
  <2>1. \A u \in Vpn : u \in Nat
    BY DEF Vpn
  <2>2. \A u \in Vpn : vpn <= u /\ u < vpn + 1 <=> u = vpn
    BY <2>1
  <2> QED
    BY <2>2 DEF Block
<1> QED
  BY <1>1, <1>2

LEMMA MapCall ==
  ASSUME IInv, NEW ppn \in Nat, NEW vpn \in Vpn, CallMapPage(pt, ppn, vpn, MAP_PAGE),
         Target(vpn) = ppn, NEW D, Paged(Walk), Serves(mem, D)
  PROVE  /\ ~halted /\ pt' = pt /\ satp' = satp
         /\ ~halted' => Paged(Walk') /\ Serves(mem', D \cup {vpn})
         /\ halted' => Same(mem, mem')
<1> DEFINE v == MapPage(Walk, pt, ppn, vpn, MAP_PAGE)
<1>1. ~halted /\ Commit(v, "map", BlockOf(vpn, Align(MAP_PAGE), ppn)) /\ pt' = pt /\ satp' = satp
  BY DEF CallMapPage
<1>2. /\ GoodWalk(Walk) /\ Going(Walk) /\ Walk.mem = mem
      /\ satp \in {NULL, pt} /\ pt \in {NULL, pt}
  BY <1>1, StateIsGoodWalk DEF IInv, TypeOK, Walk
<1>3. Same(mem, v.mem) \/ (~v.halted /\ Maps(mem, v.mem, vpn, 1, ppn))
  BY <1>2, OnePage, MapPageExact DEF Going
<1>4. ~v.halted => Paged(v) /\ Translate(v.mem, pt, vpn) # Fault
  BY <1>2, MapPagePaged
<1> HIDE DEF v
<1>5. mem' = v.mem /\ level' = v.level /\ halted' = v.halted
  BY <1>1 DEF Commit
<1> SUFFICES ASSUME ~halted'  PROVE Paged(Walk') /\ Serves(mem', D \cup {vpn})
  BY <1>1, <1>3, <1>5
<1>6. Paged(Walk')
  BY <1>4, <1>5 DEF Paged, Walk
<1>7. CASE Same(mem, v.mem)
  <2>1. vpn \in D
    BY <1>4, <1>5, <1>7 DEF Same, Serves
  <2> QED
    BY <1>5, <1>6, <1>7, <2>1 DEF Same, Serves
<1>8. CASE Maps(mem, v.mem, vpn, 1, ppn)
  <2>1. \A u \in Vpn : Translate(mem', pt, u) = IF u = vpn THEN ppn + (vpn - vpn)
                                                ELSE Translate(mem, pt, u)
    BY <1>5, <1>8, OnePage DEF Maps
  <2>2. ppn + (vpn - vpn) = ppn
    BY DEF Vpn
  <2> QED
    BY <1>6, <2>1, <2>2 DEF Serves
<1> QED
  BY <1>3, <1>7, <1>8

LEMMA UnmapCall ==
  ASSUME IInv, satp = pt, NEW vpn \in Vpn, CallUnmapPage(NULL, vpn, MAP_PAGE),
         NEW D, Paged(Walk), Serves(mem, D)
  PROVE  /\ ~halted' /\ pt' = pt /\ satp' = satp
         /\ Paged(Walk') /\ Serves(mem', D \ {vpn})
<1> DEFINE v == UnmapPage(Walk, NULL, vpn, MAP_PAGE)
<1>1. ~halted /\ Commit(v, "unmap", BlockOf(vpn, Align(MAP_PAGE), 0)) /\ pt' = pt /\ satp' = satp
  BY DEF CallUnmapPage
<1>2. /\ GoodWalk(Walk) /\ Going(Walk) /\ Walk.mem = mem
      /\ satp \in {NULL, pt} /\ NULL \in {NULL, pt} /\ RootOf(NULL) = pt
  BY <1>1, StateIsGoodWalk DEF IInv, TypeOK, Walk, RootOf
<1>3. Same(mem, v.mem) \/ Unmaps(mem, v.mem, vpn, 1)
  BY <1>2, OnePage, UnmapPageExact
<1>4. ~v.halted /\ Paged(v) /\ Translate(v.mem, pt, vpn) = Fault
  BY <1>2, UnmapPagePaged
<1> HIDE DEF v
<1>5. mem' = v.mem /\ level' = v.level /\ halted' = v.halted
  BY <1>1 DEF Commit
<1>6. Paged(Walk')
  BY <1>4, <1>5 DEF Paged, Walk
<1>7. CASE Same(mem, v.mem)
  <2>1. vpn \notin D
    BY <1>4, <1>7, TargetsArePages DEF Same, Serves
  <2> QED
    BY <1>1, <1>4, <1>5, <1>6, <1>7, <2>1 DEF Same, Serves
<1>8. CASE Unmaps(mem, v.mem, vpn, 1)
  <2>1. \A u \in Vpn : Translate(mem', pt, u) = IF u = vpn THEN Fault
                                                ELSE Translate(mem, pt, u)
    BY <1>5, <1>8, OnePage DEF Unmaps
  <2> QED
    BY <1>1, <1>4, <1>5, <1>6, <2>1 DEF Serves
<1> QED
  BY <1>3, <1>7, <1>8

\* The steps between enable_paging and unmap_lower_half_kernel, and `Done`
\* where no loop is under way.
Complete ==
  {"write_satp", "print_satp", "init_traps", "enable_interrupts", "jump", "swap_in", "add_sp",
   "swap_out", "relocate_sp", "relocate_gp", "kernel_main"}

DoneOutsideLoops ==
  /\ at \in InMachineMode => Done = {}
  /\ at = "map_low" /\ page = KernelPage => Done = {}
  /\ at \in Complete => Done = Needed
  /\ at = "unmap" /\ page = KernelPage => Done = Needed
  /\ at \in InMain => Done = Needed \ LowImage

LEMMA DoneNow == DoneOutsideLoops
<1>1. Needed = LowImage \cup HighImage \cup Devices \cup RamWindow
  BY DEF Needed
<1>2. \A v \in LowImage : v \in Nat /\ ~(v < KernelPage)
  BY Layout DEF LowImage
<1>3. \A v \in HighImage : v \in Nat /\ ~(v < HighPage)
  BY Layout DEF HighImage
<1>4. ASSUME at \in InMachineMode  PROVE Done = {}
  BY <1>4 DEF Done, DoneLow, DoneHigh, DoneDevices, DoneWindow
<1>5. ASSUME at = "map_low", page = KernelPage  PROVE Done = {}
  <2>1. DoneLow = {}
    BY <1>2, <1>5 DEF DoneLow
  <2>2. DoneHigh = {}
    <3>1. HighPage + page - KernelPage = HighPage
      BY <1>5, Layout
    <3> QED
      BY <1>3, <1>5, <3>1 DEF DoneHigh, MappingImage
  <2>3. DoneDevices = {} /\ DoneWindow = {}
    BY <1>5 DEF DoneDevices, DoneWindow, MappingImage
  <2> QED
    BY <2>1, <2>2, <2>3 DEF Done
<1>6. ASSUME at \in Complete \cup {"unmap"} \cup InMain
      PROVE  DoneLow \cup DoneHigh \cup DoneDevices \cup DoneWindow = Needed
  <2>1. at \notin InMachineMode \cup Mapping
    BY <1>6 DEF Complete, InMain, InMachineMode, Mapping
  <2> QED
    BY <1>1, <2>1 DEF DoneLow, DoneHigh, DoneDevices, DoneWindow, MappingImage, Mapping
<1>7. ASSUME at \in Complete  PROVE Removed = {}
  BY <1>7 DEF Complete, Removed, InMain
<1>8. ASSUME at = "unmap", page = KernelPage  PROVE Removed = {}
  BY <1>2, <1>8 DEF Removed, InMain, Below
<1>9. ASSUME at \in InMain  PROVE Removed = LowImage
  BY <1>9 DEF Removed
<1> QED
  BY <1>4, <1>5, <1>6, <1>7, <1>8, <1>9 DEF Done, DoneOutsideLoops

LEMMA DoneNext == DoneOutsideLoops'
BY DoneNow, PTL

LEMMA SpaceInvInit == InitBoot => SpaceInv
<1> SUFFICES ASSUME InitBoot  PROVE SpaceInv
  OBVIOUS
<1>1. Init /\ at = "start" /\ at \in InMachineMode
  BY DEF InitBoot, InMachineMode
<1>2. pt \in Ram
  BY <1>1, InitIInv DEF IInv, TypeOK
<1>3. /\ mem = [p \in Ram |-> IF p = pt THEN [i \in Index |-> EmptyPte] ELSE Stale]
      /\ level = [p \in Ram |-> IF p = pt THEN 2 ELSE -1] /\ satp = NULL
  BY <1>1 DEF Init
<1>4. \A i \in Index : mem[pt][i].kind = "empty"
  BY <1>2, <1>3 DEF EmptyPte
<1>5. Paged(Walk)
  BY <1>3, <1>4 DEF Paged, Walk
<1>6. \A v \in Vpn : Translate(mem, pt, v) = Fault
  <2> SUFFICES ASSUME NEW v \in Vpn  PROVE Translate(mem, pt, v) = Fault
    OBVIOUS
  <2>1. VpnArr(v, 2) \in Index
    BY VpnArrIsIndex DEF Vpn
  <2> QED
    BY <1>4, <2>1 DEF Translate
<1>7. Serves(mem, Done)
  BY <1>1, <1>6, DoneNow DEF Serves, DoneOutsideLoops
<1> QED
  BY <1>1, <1>3, <1>5, <1>7 DEF SpaceInv, BeforePaging

\* The steps that neither map nor unmap a page.
LEMMA QuietSteps ==
  ASSUME TrapInv, LoopInv, [NextBoot]_bootVars, ~EnablePaging, ~UnmapLowerHalf
  PROVE  /\ Done' = Done /\ UNCHANGED <<frames, mem, level, pt>> /\ halted' \in {halted, TRUE}
         /\ halted' = halted \/ PageFault
         /\ \/ satp' = satp /\ (at' \in BeforePaging <=> at \in BeforePaging)
            \/ satp' = pt /\ at' \notin BeforePaging /\ ~halted
<1> USE DEF BeforePaging, Complete, InMain, InMachineMode, Mapping
<1>1. ASSUME UNCHANGED <<locations, loop, at>>  PROVE Done' = Done
  BY <1>1 DEF loop, Done, DoneLow, DoneHigh, DoneDevices, DoneWindow, Removed, Devices,
     SlotPages, SlotsBefore
<1>2. locations' = locations => Needed' = Needed
  BY DEF Needed, Devices
<1>3. CASE Start \/ KernelStart \/ SetPriv
  <2>1. /\ at \in InMachineMode /\ at' \in InMachineMode \cup {"map_low"}
        /\ UNCHANGED <<vars, loop>>
    BY <1>3 DEF Start, KernelStart, SetPriv, At, Goto
  <2>2. Done = {}
    BY <2>1, DoneNow DEF DoneOutsideLoops
  <2>3. Done' = {}
    BY <2>1, DoneNext DEF DoneOutsideLoops, LoopInv, loop
  <2> QED
    BY <2>1, <2>2, <2>3 DEF vars
<1>4. CASE GoLive
  <2>1. /\ at = "write_satp" /\ at' = "print_satp" /\ locations' = locations
        /\ ~halted /\ satp' = pt /\ UNCHANGED <<frames, mem, pt, halted, level>>
    BY <1>4 DEF GoLive, WriteSatp, At, Goto
  <2>2. Done = Needed /\ Done' = Needed'
    BY <2>1, DoneNow, DoneNext DEF DoneOutsideLoops
  <2> QED
    BY <1>2, <2>1, <2>2
<1>5. CASE PrintSatp \/ InitTraps \/ EnableInterrupts \/ JumpHigh \/ SwapIn \/ AddSp \/ SwapOut
           \/ RelocateSp \/ RelocateGp
  <2>1. /\ at \in Complete \ {"write_satp"} /\ locations' = locations /\ UNCHANGED vars
        /\ at' \in Complete \ {"write_satp"}
    BY <1>5 DEF PrintSatp, InitTraps, EnableInterrupts, JumpHigh, SwapIn, AddSp, SwapOut,
       RelocateSp, RelocateGp, At, Goto
  <2>2. Done = Needed /\ Done' = Needed'
    BY <2>1, DoneNow, DoneNext DEF DoneOutsideLoops
  <2> QED
    BY <1>2, <2>1, <2>2 DEF vars
<1>6. CASE KernelMain
  <2>1. /\ at = "kernel_main" /\ locations' = locations /\ UNCHANGED vars
        /\ at' = "unmap" /\ page' = KernelPage
    BY <1>6 DEF KernelMain, At, Goto
  <2>2. Done = Needed /\ Done' = Needed'
    BY <2>1, DoneNow, DoneNext DEF DoneOutsideLoops
  <2> QED
    BY <1>2, <2>1, <2>2 DEF vars
<1>7. CASE LoadElf \/ PrintCounter \/ Wfi \/ WakeUp
  <2>1. at \in InMain /\ at' \in InMain /\ locations' = locations /\ UNCHANGED vars
    BY <1>7 DEF LoadElf, PrintCounter, Wfi, WakeUp, At, Goto
  <2>2. Done = Needed \ LowImage /\ Done' = Needed' \ LowImage
    BY <2>1, DoneNow, DoneNext DEF DoneOutsideLoops, LowImage, KernelEndPage
  <2> QED
    BY <1>2, <2>1, <2>2 DEF vars
<1>8. CASE ReturnFromTrap
  <2>1. /\ UNCHANGED <<vars, locations, loop>> /\ InTrap
        /\ at' = IF trap.cause = "ecall" THEN "print"
                 ELSE IF at = "asleep" THEN "ecall" ELSE at
    BY <1>8, ReturnStep DEF ReturnFromTrap, TrapInv
  <2>2. at' = at \/ (at \in InMain /\ at' \in InMain)
    <3>1. trap.cause = "ecall" => at = "ecall"
      BY <2>1 DEF InTrap
    <3> QED
      BY <2>1, <3>1
  <2>3. CASE at' = at
    BY <1>1, <2>1, <2>3 DEF vars
  <2>4. CASE at \in InMain /\ at' \in InMain
    <3>1. Done = Needed \ LowImage /\ Done' = Needed' \ LowImage
      BY <2>4, DoneNow, DoneNext DEF DoneOutsideLoops, LowImage, KernelEndPage
    <3> QED
      BY <1>2, <2>1, <2>4, <3>1 DEF vars
  <2> QED
    BY <2>2, <2>3, <2>4
<1>9. CASE Ecall \/ Interrupt \/ HandleInterrupt \/ HandleEcall \/ Tick \/ HangForEver
           \/ UNCHANGED bootVars
  <2>1. UNCHANGED <<vars, locations, loop, at>>
    BY <1>9 DEF Ecall, Interrupt, TakeTrap, HandleInterrupt, HandleEcall, Tick, HangForEver,
       bootVars, machine
  <2> QED
    BY <1>1, <2>1 DEF vars
<1>10. CASE PageFault
  <2>1. UNCHANGED <<frames, mem, level, pt, satp, locations, loop, at>> /\ halted' = TRUE
    BY <1>10 DEF PageFault, machine
  <2> QED
    BY <1>1, <1>10, <2>1
<1> QED
  BY <1>3, <1>4, <1>5, <1>6, <1>7, <1>8, <1>9, <1>10 DEF NextBoot, Kernel, Handler

\* Each call of map_page in enable_paging is for a page that is needed.
LEMMA MapCalls ==
  ASSUME LoopInv, EnablePaging, ~NextLocation
  PROVE  /\ \E ppn \in Nat, vpn \in Needed :
              /\ CallMapPage(pt, ppn, vpn, MAP_PAGE) /\ Target(vpn) = ppn
              /\ Done' = Done \cup {vpn}
         /\ at \in Mapping /\ at' \in Mapping \cup {"write_satp"}
<1>1. CASE MapKernelLow
  <2>1. page \in LowImage /\ page \in Nat /\ page < HighPage /\ Done' = Done \cup {page}
    BY <1>1, DoneMapLow, Layout DEF LowImage
  <2>2. page \in Needed /\ Target(page) = page
    BY <2>1, Targets DEF Needed
  <2> QED
    BY <1>1, <2>1, <2>2 DEF MapKernelLow, At, Goto, Mapping
<1>2. CASE MapKernelHigh
  <2> DEFINE h == HighPage + page - KernelPage
  <2>1. page \in LowImage /\ page \in Nat /\ Done' = Done \cup {h}
    BY <1>2, DoneMapHigh DEF LoopInv
  <2>2. h \in Needed /\ Target(h) = page
    BY <2>1, Targets DEF Needed
  <2>3. CallMapPage(pt, page, h, MAP_PAGE) /\ at = "map_high"
    BY <1>2 DEF MapKernelHigh, At
  <2>4. at' \in Mapping
    BY <1>2 DEF MapKernelHigh, EnterSlot, Goto, Mapping
  <2> QED
    BY <2>1, <2>2, <2>3, <2>4 DEF Mapping
<1>3. CASE MapDevice
  <2>1. page \in Devices /\ page \in Nat /\ page < HighPage /\ Done' = Done \cup {page}
    BY <1>3, DoneMapDevice
  <2>2. page \in Needed /\ Target(page) = page
    BY <2>1, Targets DEF Needed
  <2> QED
    BY <1>3, <2>1, <2>2 DEF MapDevice, At, Mapping
<1>4. CASE MapWindow
  <2> DEFINE w == WindowPage + page
  <2>1. page \in Ram /\ page \in Nat /\ Done' = Done \cup {w}
    BY <1>4, DoneMapWindow DEF LoopInv
  <2>2. w \in Needed /\ Target(w) = page
    BY <2>1, Targets DEF Needed
  <2>3. CallMapPage(pt, page, w, MAP_PAGE) /\ at = "map_window"
    BY <1>4 DEF MapWindow, At
  <2>4. at' \in Mapping \cup {"write_satp"}
    BY <1>4 DEF MapWindow, Goto, Mapping
  <2> QED
    BY <2>1, <2>2, <2>3, <2>4 DEF Mapping
<1> QED
  BY <1>1, <1>2, <1>3, <1>4 DEF EnablePaging

LEMMA SpaceInvStep ==
  ASSUME IInv, TrapInv, LoopInv, SpaceInv, [NextBoot]_bootVars
  PROVE  SpaceInv'
<1>0. pt # NULL
  BY PageTableAssumption DEF IInv, TypeOK, Ram, NULL
<1>1. CASE EnablePaging /\ ~NextLocation
  <2>1. PICK ppn \in Nat, vpn \in Needed :
          /\ CallMapPage(pt, ppn, vpn, MAP_PAGE) /\ Target(vpn) = ppn
          /\ Done' = Done \cup {vpn}
    BY <1>1, MapCalls
  <2>2. /\ at \in BeforePaging /\ at' \in BeforePaging
        /\ satp = NULL /\ vpn \in Vpn /\ ~halted
    BY <1>1, <2>1, MapCalls, NeededIsVirtual DEF BeforePaging, SpaceInv, CallMapPage
  <2>3. Paged(Walk) /\ Serves(mem, Done)
    BY <2>2 DEF SpaceInv
  <2>4. /\ pt' = pt /\ satp' = NULL
        /\ ~halted' => Paged(Walk') /\ Serves(mem', Done \cup {vpn})
    BY <2>1, <2>2, <2>3, MapCall
  <2>5. ~halted' => Paged(Walk)' /\ Serves(mem, Done)'
    BY <2>1, <2>4 DEF Paged, Serves, Walk, Target, HighImage, RamWindow, Diff
  <2> QED
    BY <1>0, <2>2, <2>4, <2>5 DEF SpaceInv
<1>2. CASE NextLocation
  <2>1. /\ UNCHANGED vars /\ Done' = Done /\ at \in BeforePaging /\ at' \in BeforePaging
    BY <1>2, DoneNextLocation DEF NextLocation, EnterSlot, At, Goto, BeforePaging, Mapping
  <2> QED
    BY <2>1 DEF SpaceInv, Paged, Serves, Walk, vars, Target, HighImage, RamWindow, Diff
<1>3. CASE UnmapLowerHalf
  <2>1. /\ at = "unmap" /\ at' \notin BeforePaging /\ CallUnmapPage(NULL, page, MAP_PAGE)
        /\ Done' = Done \ {page} /\ page \in LowImage /\ at \notin BeforePaging
    BY <1>3, DoneUnmap
    DEF UnmapLowerHalf, At, Goto, BeforePaging, Mapping, InMachineMode
  <2>2. page \in Vpn /\ satp = pt
    BY <2>1, NeededIsVirtual DEF SpaceInv, Needed
  <2>3. Paged(Walk) /\ Serves(mem, Done)
    BY <2>2 DEF SpaceInv
  <2>4. pt' = pt /\ satp' = satp /\ Paged(Walk') /\ Serves(mem', Done \ {page})
    BY <2>1, <2>2, <2>3, UnmapCall
  <2>5. Paged(Walk)' /\ Serves(mem, Done)'
    BY <2>1, <2>4 DEF Paged, Serves, Walk, Target, HighImage, RamWindow, Diff
  <2> QED
    BY <2>1, <2>2, <2>4, <2>5 DEF SpaceInv
<1>4. CASE ~EnablePaging /\ ~UnmapLowerHalf
  <2>1. /\ Done' = Done /\ UNCHANGED <<frames, mem, level, pt>> /\ halted' \in {halted, TRUE}
        /\ \/ satp' = satp /\ (at' \in BeforePaging <=> at \in BeforePaging)
           \/ satp' = pt /\ at' \notin BeforePaging /\ ~halted
    BY <1>4, QuietSteps
  <2>2. ~halted' \/ satp' = pt => Paged(Walk) /\ Serves(mem, Done)
    <3>1. ~halted' => ~halted
      BY <2>1
    <3>2. satp' = pt => ~halted \/ satp = pt
      BY <2>1
    <3> QED
      BY <3>1, <3>2 DEF SpaceInv
  <2>3. Paged(Walk) /\ Serves(mem, Done) => (Paged(Walk) /\ Serves(mem, Done))'
    BY <2>1 DEF Paged, Serves, Walk, Target, HighImage, RamWindow, Diff
  <2>4. satp' = IF at' \in BeforePaging THEN NULL ELSE pt
    BY <2>1 DEF SpaceInv
  <2> QED
    BY <2>1, <2>2, <2>3, <2>4 DEF SpaceInv
<1> QED
  BY <1>1, <1>2, <1>3, <1>4

(***************************************************************************)
(* Once the boot is over, the address space is, page by page, the image    *)
(* high, the devices and the window on RAM, and nothing else, whatever     *)
(* the device tree listed and however its regions overlap the image; if    *)
(* the frames ran out on the way, kernel_main is never reached.            *)
(***************************************************************************)
THEOREM AddressSpaceAfterBoot == SpecBoot => []BootedAddressSpace
<1>1. LoopInv /\ SpaceInv => BootedAddressSpace
  <2> SUFFICES ASSUME LoopInv, SpaceInv, at \in InMain, NEW v \in Vpn
               PROVE  Translate(mem, satp, v) = Expected(v)
    BY DEF BootedAddressSpace
  <2>1. at \notin BeforePaging
    BY DEF BeforePaging, InMain, InMachineMode, Mapping
  <2>2. satp = pt /\ Serves(mem, Done)
    BY <2>1 DEF SpaceInv
  <2>3. Translate(mem, satp, v) = IF v \in Needed \ LowImage THEN Target(v) ELSE Fault
    BY <2>2, DoneNow DEF Serves, DoneOutsideLoops
  <2>4. v \in Nat /\ (v \in LowImage => v \notin HighImage /\ v \notin RamWindow)
        /\ (v \in HighImage => v \notin RamWindow)
        /\ (v < HighPage => v \notin HighImage /\ v \notin RamWindow)
    BY Layout DEF Vpn, LowImage, HighImage, RamWindow
  <2>5. v \in Devices => v \notin HighImage /\ v \notin RamWindow
    <3> SUFFICES ASSUME v \in Devices  PROVE v < HighPage
      BY <2>4
    <3>1. PICK n \in DOMAIN locations : v \in SlotPages(n)
      BY DevicesBySlot
    <3> QED
      BY <3>1, DevicesAreLow
  <2>6. CASE v \in HighImage
    BY <2>3, <2>4, <2>5, <2>6 DEF Expected, Target, Needed
  <2>7. CASE v \in RamWindow
    BY <2>3, <2>4, <2>5, <2>7 DEF Expected, Target, Needed
  <2>8. CASE v \in Devices \ LowImage
    BY <2>3, <2>5, <2>8 DEF Expected, Target, Needed
  <2>9. CASE v \notin HighImage \cup RamWindow \cup (Devices \ LowImage)
    BY <2>3, <2>9 DEF Expected, Needed
  <2> QED
    BY <2>6, <2>7, <2>8, <2>9
<1>2. InitBoot => SpaceInv
  BY SpaceInvInit
<1>3. IInv /\ TrapInv /\ LoopInv /\ SpaceInv /\ [NextBoot]_bootVars => SpaceInv'
  BY SpaceInvStep
<1> QED
  BY <1>1, <1>2, <1>3, BootInvariance, PTL DEF SpecBoot

-----------------------------------------------------------------------------
(***************************************************************************)
(* On an adequate board no step faults.  An address of the image is served *)
(* at a step if it is a high one, or a low one and the low half has not    *)
(* begun to go; so are the devices always, and the window.                 *)
(***************************************************************************)
Served(v, step) ==
  \E o \in ImageOffset : v = HighPage + o \/ (v = KernelPage + o /\ step \in Complete)

ImageServed(pc, step) ==
  \A o \in ImageOffset :
    Served(pc - Text + o, step) /\ Home(pc - Text + o) = KernelPage + o

Led(t) == Translate(mem, pt, t[1]) = t[2]

LEMMA ImagesAreServed ==
  ASSUME NEW step
  PROVE  /\ ImageServed(HighPage + Text, step)
         /\ step \in Complete => ImageServed(KernelPage + Text, step)
<1>1. ASSUME NEW o \in ImageOffset
      PROVE  Home(HighPage + o) = KernelPage + o /\ Home(KernelPage + o) = KernelPage + o
  BY Layout, Offsets DEF ImageOffset, Home
<1>2. \A o \in ImageOffset : Served(HighPage + o, step)
  BY DEF Served
<1>3. step \in Complete => \A o \in ImageOffset : Served(KernelPage + o, step)
  BY DEF Served
<1>4. ImageServed(HighPage + Text, step)
  <2> DEFINE pc == HighPage + Text
  <2>1. \A o \in ImageOffset : pc - Text + o = HighPage + o
    BY Layout, Offsets DEF ImageOffset
  <2> HIDE DEF pc
  <2>2. ImageServed(pc, step)
    BY <1>1, <1>2, <2>1 DEF ImageServed
  <2> QED
    BY <2>2 DEF pc
<1>5. ASSUME step \in Complete  PROVE ImageServed(KernelPage + Text, step)
  <2> DEFINE pc == KernelPage + Text
  <2>1. \A o \in ImageOffset : pc - Text + o = KernelPage + o
    BY Layout, Offsets DEF ImageOffset
  <2> HIDE DEF pc
  <2>2. ImageServed(pc, step)
    BY <1>1, <1>3, <2>1, <1>5 DEF ImageServed
  <2> QED
    BY <2>2 DEF pc
<1> QED
  BY <1>4, <1>5

\* The registers hold served addresses once paging is on.
LEMMA RegistersAreServed ==
  ASSUME NEW c, NEW step \in Steps \ BeforePaging, Registers(c, step)
  PROVE  /\ ImageServed(c.pc, step)
         /\ Served(c.sp, step) /\ Served(c.gp, step)
         /\ c.sie \/ step = "ecall" =>
              c.stvec = HighPage + Text /\ Served(c.sscratch, step)
<1>1. {Text, Stack, TrapStack, Global} \subseteq ImageOffset
  BY BootAssumption
<1>2. step \notin InMachineMode \cup Mapping \cup {"write_satp"}
  BY DEF BeforePaging
<1>3. step \in RunningLow \cup {"swap_in", "add_sp", "swap_out", "relocate_sp", "relocate_gp"}
        => step \in Complete
  BY <1>2 DEF RunningLow, Untrapped, Complete
<1>4. c.pc = HighPage + Text \/ (c.pc = KernelPage + Text /\ step \in Complete)
  BY <1>3 DEF Registers
<1>5. ImageServed(c.pc, step)
  BY <1>4, ImagesAreServed
<1>6. step # "start"
  BY <1>2 DEF InMachineMode
<1>7. Served(c.sp, step)
  <2>1. c.sp = StackPage(step)
    BY DEF Registers
  <2> QED
    BY <1>1, <1>3, <1>6, <2>1 DEF StackPage, Served
<1>8. Served(c.gp, step)
  <2>1. c.gp = GlobalPage(step)
    BY DEF Registers
  <2> QED
    BY <1>1, <1>3, <1>6, <2>1 DEF GlobalPage, Served
<1>9. ASSUME c.sie \/ step = "ecall"
      PROVE  c.stvec = HighPage + Text /\ Served(c.sscratch, step)
  <2>1. step \notin Untrapped
    BY <1>9 DEF Registers, Untrapped, InMachineMode, Mapping
  <2>2. c.sscratch = ScratchPage(step) /\ c.stvec = HighPage + Text
    BY <2>1 DEF Registers
  <2>3. step \in {"enable_interrupts", "jump", "swap_in", "add_sp", "swap_out"} => step \in Complete
    BY DEF Complete
  <2> QED
    BY <1>1, <2>1, <2>2, <2>3 DEF ScratchPage, Served
<1> QED
  BY <1>4, <1>5, <1>7, <1>8, <1>9

\* A served address is mapped to its place in the image.
LEMMA ServedIsMapped ==
  ASSUME LoopInv, Serves(mem, Done), at \in Steps \ BeforePaging, NEW v, Served(v, at)
  PROVE  Led(<<v, Home(v)>>)
<1>1. PICK o \in ImageOffset : v = HighPage + o \/ (v = KernelPage + o /\ at \in Complete)
  BY DEF Served
<1>2. /\ o \in Nat /\ KernelPage + o \in LowImage
      /\ KernelPage + o < HighPage /\ KernelPage + o \in Nat
  BY Layout DEF ImageOffset, LowImage
<1>3. CASE v = HighPage + o
  <2>1. HighPage + (KernelPage + o) - KernelPage = v
    BY <1>2, <1>3, Layout
  <2>2. v \in HighImage /\ Target(v) = KernelPage + o
    BY <1>2, <2>1, Targets
  <2>3. Home(v) = KernelPage + o
    BY <1>2, <1>3, Layout DEF Home
  <2>4. v \in Done
    <3>1. v \in DoneHigh
      BY <2>2 DEF DoneHigh, BeforePaging, MappingImage, Mapping
    <3>2. v \notin LowImage
      BY <1>2, <1>3, Layout DEF LowImage
    <3>3. v \notin Removed
      BY <3>2 DEF Removed, Below
    <3> QED
      BY <3>1, <3>3 DEF Done
  <2>5. v \in Vpn
    BY <2>2, NeededIsVirtual DEF Needed
  <2> QED
    BY <2>2, <2>3, <2>4, <2>5 DEF Serves, Led
<1>4. CASE v = KernelPage + o /\ at \in Complete
  <2>1. v \in Done
    BY <1>2, <1>4, DoneNow DEF DoneOutsideLoops, Needed
  <2>2. v \in Vpn
    BY <1>2, <1>4, NeededIsVirtual DEF Needed
  <2>3. Target(v) = v /\ Home(v) = v
    BY <1>2, <1>4, Targets, Layout DEF Home
  <2> QED
    BY <2>1, <2>2, <2>3 DEF Serves, Led
<1> QED
  BY <1>1, <1>3, <1>4

\* So is the image around pc, or around the address of the handler.
LEMMA ImageIsMapped ==
  ASSUME LoopInv, Serves(mem, Done), at \in Steps \ BeforePaging,
         NEW pc, ImageServed(pc, at), NEW t \in Image(pc)
  PROVE  Led(t)
<1>1. PICK o \in ImageOffset : t = <<pc - Text + o, KernelPage + o>>
  BY DEF Image
<1>2. Served(pc - Text + o, at) /\ Home(pc - Text + o) = KernelPage + o
  BY DEF ImageServed
<1> HIDE DEF Home
<1>3. Led(<<pc - Text + o, Home(pc - Text + o)>>)
  BY <1>2, ServedIsMapped
<1> QED
  BY <1>1, <1>2, <1>3

\* The devices stay mapped to themselves; so is the window while it is used.
LEMMA DevicesAreMapped ==
  ASSUME LoopInv, Serves(mem, Done), at \in Steps \ BeforePaging, Adequate,
         NEW t \in Uart \cup Clint
  PROVE  Led(t)
<1>1. PICK d \in {UartPage, ClintPage} : t = <<d, d>>
  BY DEF Uart, Clint
<1>2. d \in Devices /\ d \notin LowImage
  BY LayoutAssumption DEF Adequate, LowImage
<1>3. d \in Nat /\ d < HighPage
  <2>1. PICK n \in DOMAIN locations : d \in SlotPages(n)
    BY <1>2, DevicesBySlot
  <2> QED
    BY <2>1, DevicesAreLow
<1>4. d \in Done
  <2>1. d \in DoneDevices
    BY <1>2 DEF DoneDevices, BeforePaging, MappingImage, Mapping
  <2>2. d \notin Removed
    BY <1>2 DEF Removed, Below
  <2> QED
    BY <2>1, <2>2 DEF Done
<1>5. d \in Vpn /\ Target(d) = d
  BY <1>2, <1>3, NeededIsVirtual, Targets DEF Needed
<1> QED
  BY <1>1, <1>4, <1>5 DEF Serves, Led

LEMMA WindowIsMapped ==
  ASSUME LoopInv, Serves(mem, Done), at \in Steps \ BeforePaging, NEW t \in Window
  PROVE  Led(t)
<1>1. PICK p \in Ram : t = <<WindowPage + p, p>>
  BY DEF Window
<1> DEFINE v == WindowPage + p
<1>2. v \in RamWindow /\ Target(v) = p
  BY Targets
<1>3. v \in Done
  <2>1. v \in DoneWindow
    BY <1>2 DEF DoneWindow, BeforePaging, MappingImage, Mapping
  <2>2. v \notin LowImage
    BY <1>2, Layout DEF RamWindow, LowImage
  <2>3. v \notin Removed
    BY <2>2 DEF Removed, Below
  <2> QED
    BY <2>1, <2>3 DEF Done
<1>4. v \in Vpn
  BY <1>2, NeededIsVirtual DEF Needed
<1> QED
  BY <1>1, <1>2, <1>3, <1>4 DEF Serves, Led

\* The jump tables lead into the image that is mapped.
LEMMA JumpTargetsAreMapped ==
  ASSUME LoopInv, RodataInv, Serves(mem, Done), at \in Steps \ BeforePaging, Adequate,
         NEW t \in JumpTargets
  PROVE  Led(t)
<1>1. PICK k \in DOMAIN rodata :
        rodata[k].pointer /\ t = <<rodata[k].value, Home(rodata[k].value)>>
  BY DEF JumpTargets
<1>2. /\ rodata[k].linked \in KernelPage..(KernelEndPage - 1)
      /\ rodata[k].value = IF at \in Moved /\ LinkedLow(k) THEN rodata[k].linked + Diff
                           ELSE rodata[k].linked
  BY <1>1 DEF RodataInv
<1>3. LinkedLow(k)
  BY <1>1 DEF Adequate, PointersFirst, LinkedLow
<1> DEFINE o == rodata[k].linked - KernelPage
<1>4. /\ o \in ImageOffset /\ rodata[k].linked = KernelPage + o
      /\ rodata[k].linked + Diff = HighPage + o
  BY <1>2, Layout DEF ImageOffset
<1>5. at \in Moved \/ at \in Complete
  BY DEF BeforePaging, InMachineMode, Mapping, Steps, Moved, InMain, Complete
<1>6. Served(rodata[k].value, at)
  BY <1>2, <1>3, <1>4, <1>5 DEF Served
<1> QED
  BY <1>1, <1>6, ServedIsMapped

\* Whatever a handler, its entry or the kernel touches is mapped.
LEMMA TouchedIsMapped ==
  ASSUME TrapInv, LoopInv, RodataInv, Serves(mem, Done), at \notin BeforePaging, Adequate,
         NEW t \in Touches
  PROVE  Led(t)
<1>1. at \in Steps \ BeforePaging
  BY DEF TrapInv
<1>2. ASSUME NEW v, Served(v, at)  PROVE Led(<<v, Home(v)>>)
  BY <1>1, <1>2, ServedIsMapped
<1>3. ImageServed(HighPage + Text, at)
  BY ImagesAreServed
<1>4. ASSUME t \in Image(HighPage + Text)  PROVE Led(t)
  BY <1>1, <1>3, <1>4, ImageIsMapped
<1>5. ASSUME trap # NoTrap  PROVE Led(t)
  <2>1. /\ Registers(trap.saved, at) /\ trap.saved.sie /\ trap.saved \in Cpu
        /\ cpu = [trap.saved EXCEPT !.pc = trap.saved.stvec, !.sp = trap.saved.sscratch,
                                    !.sscratch = trap.saved.sp, !.sie = FALSE, !.x = cpu.x]
    BY <1>5 DEF TrapInv, InTrap, Trap
  <2>2. cpu.pc = trap.saved.stvec /\ cpu.sp = trap.saved.sscratch
    <3> DEFINE s == trap.saved
    <3>1. s \in Cpu
      BY <2>1
    <3> HIDE DEF s
    <3>2. LET c == [s EXCEPT !.pc = s.stvec, !.sp = s.sscratch, !.sscratch = s.sp,
                             !.sie = FALSE, !.x = cpu.x]
          IN  c.pc = s.stvec /\ c.sp = s.sscratch
      BY <3>1 DEF Cpu
    <3> QED
      BY <2>1, <3>2 DEF s
  <2>3. cpu.pc = HighPage + Text /\ Served(cpu.sp, at)
    BY <1>1, <2>1, <2>2, RegistersAreServed
  <2>4. t \in Image(cpu.pc) \/ t = <<cpu.sp, Home(cpu.sp)>> \/ t \in Clint
    BY <1>5 DEF Touches, HandlerTouches
  <2>5. t \in Clint => Led(t)
    BY <1>1, DevicesAreMapped
  <2> QED
    BY <1>2, <1>4, <2>3, <2>4, <2>5
<1>6. ASSUME trap = NoTrap, InterruptDue \/ at = "ecall"  PROVE Led(t)
  <2>1. Registers(cpu, at) /\ (cpu.sie \/ at = "ecall")
    BY <1>6 DEF TrapInv, InterruptDue
  <2>2. cpu.stvec = HighPage + Text /\ Served(cpu.sscratch, at)
    BY <1>1, <2>1, RegistersAreServed
  <2>3. t \in Image(cpu.stvec) \/ t = <<cpu.sscratch, Home(cpu.sscratch)>>
    BY <1>6 DEF Touches, EntryTouches
  <2> QED
    BY <1>2, <1>4, <2>2, <2>3
<1>7. ASSUME trap = NoTrap, ~(InterruptDue \/ at = "ecall")  PROVE Led(t)
  <2>1. Registers(cpu, at)
    BY <1>7 DEF TrapInv
  <2>2. /\ ImageServed(cpu.pc, at) /\ Served(cpu.sp, at) /\ Served(cpu.gp, at)
    BY <1>1, <2>1, RegistersAreServed
  <2>3. t \in KernelTouches
    BY <1>7 DEF Touches
  <2>4. \/ t \in Image(cpu.pc) \/ t = <<cpu.sp, Home(cpu.sp)>> \/ t = <<cpu.gp, Home(cpu.gp)>>
        \/ t \in Window \/ t \in Uart \/ t \in JumpTargets
    BY <2>3 DEF KernelTouches, Running, Printing
  <2> QED
    BY <1>1, <1>2, <2>2, <2>4, ImageIsMapped, DevicesAreMapped, WindowIsMapped,
       JumpTargetsAreMapped
<1> QED
  BY <1>5, <1>6, <1>7

LEMMA NothingFaults ==
  ASSUME IInv, TrapInv, LoopInv, RodataInv, SpaceInv, Adequate, ~halted
  PROVE  Able
<1>1. (InterruptDue \/ at = "ecall") /\ trap = NoTrap => cpu.delegated
  <2> SUFFICES ASSUME InterruptDue \/ at = "ecall", trap = NoTrap  PROVE cpu.delegated
    OBVIOUS
  <2>1. Registers(cpu, at)
    BY DEF TrapInv
  <2>2. at \notin {"start", "kernel_start"}
    BY <2>1 DEF InterruptDue, Registers, Untrapped, InMachineMode
  <2> QED
    BY <2>1, <2>2 DEF Registers
<1>2. cpu.mode # MachineMode => cpu.pmp /\ cpu.mode = SupervisorMode
  <2>1. CASE trap = NoTrap
    BY <2>1 DEF TrapInv, Registers
  <2>2. CASE trap # NoTrap
    <3> DEFINE s == trap.saved
    <3>1. /\ s \in Cpu /\ Registers(s, at)
          /\ cpu = [s EXCEPT !.pc = s.stvec, !.sp = s.sscratch, !.sscratch = s.sp,
                             !.sie = FALSE, !.x = cpu.x]
      BY <2>2 DEF TrapInv, InTrap, Trap
    <3> HIDE DEF s
    <3>2. LET c == [s EXCEPT !.pc = s.stvec, !.sp = s.sscratch, !.sscratch = s.sp,
                             !.sie = FALSE, !.x = cpu.x]
          IN  c.mode = s.mode /\ c.pmp = s.pmp
      BY <3>1 DEF Cpu
    <3>3. cpu.mode = s.mode /\ cpu.pmp = s.pmp
      BY <3>1, <3>2
    <3> QED
      BY <3>1, <3>3 DEF Registers
  <2> QED
    BY <2>1, <2>2
<1>3. Mapped(Touches)
  <2> SUFFICES ASSUME satp # NULL, NEW t \in Touches  PROVE Translate(mem, satp, t[1]) = t[2]
    BY DEF Mapped
  <2>1. at \notin BeforePaging /\ satp = pt /\ Serves(mem, Done)
    BY DEF SpaceInv
  <2> QED
    BY <2>1, TouchedIsMapped DEF Led
<1> QED
  BY <1>1, <1>2, <1>3 DEF Able

(***************************************************************************)
(* While paging is being set up, every frame taken is a table's, and every *)
(* table leads to a page that is needed; so the frames never run out.      *)
(***************************************************************************)
FramesInv == Adequate => ~halted /\ (at \in BeforePaging => TablesFor(Walk, Needed))

LEMMA FramesInvInit == InitBoot => FramesInv
<1> SUFFICES ASSUME InitBoot  PROVE ~halted /\ TablesFor(Walk, Needed)
  BY DEF FramesInv
<1> DEFINE root == FirstFreeFrame(BootBitmap)
<1>1. Init
  BY DEF InitBoot
<1>2. root \in Nat /\ Allocated(frames) = BootFrames \cup {root}
  BY <1>1, RootTakesAFrame
<1>3. /\ ~halted /\ pt = RamPage + root /\ pt \in Ram
      /\ level = [p \in Ram |-> IF p = pt THEN 2 ELSE -1]
  BY <1>1, InitIInv DEF Init, FrameToPpn, IInv, TypeOK
<1> HIDE DEF root
<1>4. TablesOf(Walk) = {pt}
  BY <1>3 DEF TablesOf, Walk
<1>5. pt - RamPage = root
  BY <1>2, <1>3, RamIsNotEmpty
<1>6. Allocated(Walk.frames) \subseteq BootFrames \cup FramesOf({pt})
  BY <1>2, <1>5 DEF Walk, FramesOf
<1> QED
  BY <1>3, <1>4, <1>6 DEF TablesFor

\* The device tree is read once.
LEMMA LocationsStay == [NextBoot]_bootVars => locations' = locations
<1> SUFFICES ASSUME [NextBoot]_bootVars  PROVE locations' = locations
  OBVIOUS
<1>1. CASE EnablePaging
  BY <1>1 DEF EnablePaging, MapKernelLow, MapKernelHigh, MapDevice, NextLocation, MapWindow
<1>2. CASE Kernel /\ ~EnablePaging
  BY <1>2 DEF Kernel, Start, KernelStart, SetPriv, GoLive, PrintSatp, InitTraps,
     EnableInterrupts, JumpHigh, SwapIn, AddSp, SwapOut, RelocateSp, RelocateGp, KernelMain,
     UnmapLowerHalf, LoadElf, PrintCounter, Wfi, Ecall, TakeTrap
<1>3. CASE WakeUp \/ Handler \/ PageFault \/ Tick \/ HangForEver \/ UNCHANGED bootVars
  BY <1>3 DEF WakeUp, Handler, Interrupt, TakeTrap, HandleInterrupt, HandleEcall,
     ReturnFromTrap, PageFault, Tick, HangForEver, bootVars, machine
<1> QED
  BY <1>1, <1>2, <1>3 DEF NextBoot

\* What makes a board adequate never changes.
LEMMA AdequateStays ==
  ASSUME TrapInv, RodataInv, [NextBoot]_bootVars
  PROVE  locations' = locations /\ (Adequate' => Adequate)
<1>1. locations' = locations
  BY LocationsStay
<1>2. PointersFirst' => PointersFirst
  <2>1. CASE rodata' = rodata
    BY <2>1 DEF PointersFirst
  <2>2. CASE KernelMain
    <3>1. rodata' = ModifyRodata(rodata)
      BY <2>2 DEF KernelMain
    <3>2. DOMAIN rodata' = DOMAIN rodata
      BY <3>1 DEF ModifyRodata
    <3>3. ASSUME NEW k \in DOMAIN rodata
          PROVE  rodata'[k].pointer = rodata[k].pointer /\ rodata'[k].linked = rodata[k].linked
      <4>1. rodata[k] \in Word
        BY DEF RodataInv
      <4>2. rodata'[k] = rodata[k] \/ rodata'[k] = [rodata[k] EXCEPT !.value = @ + Diff]
        BY <3>1 DEF ModifyRodata
      <4> QED
        BY <4>1, <4>2 DEF Word
    <3>4. \A k \in DOMAIN rodata : 1..k \subseteq DOMAIN rodata
      BY DEF RodataInv
    <3> QED
      BY <3>2, <3>3, <3>4 DEF PointersFirst
  <2> QED
    BY <2>1, <2>2, StepsLeaveRodata
<1>3. Devices' = Devices /\ TablesNeeded' = TablesNeeded
  BY <1>1 DEF Devices, TablesNeeded, Needed, LowImage, HighImage, RamWindow, KernelEndPage
<1> QED
  BY <1>1, <1>2, <1>3 DEF Adequate, EnoughFrames

LEMMA FramesInvStep ==
  ASSUME IInv, TrapInv, LoopInv, RodataInv, SpaceInv, FramesInv, [NextBoot]_bootVars
  PROVE  FramesInv'
<1>1. locations' = locations /\ (Adequate' => Adequate)
  BY AdequateStays
<1>2. Needed' = Needed
  BY <1>1 DEF Needed, Devices, LowImage, HighImage, RamWindow, KernelEndPage
<1> SUFFICES ASSUME Adequate
             PROVE  ~halted' /\ (at' \in BeforePaging => TablesFor(Walk, Needed)')
  BY <1>1 DEF FramesInv
<1>3. ~halted /\ (at \in BeforePaging => TablesFor(Walk, Needed))
  BY DEF FramesInv
<1>4. CASE EnablePaging /\ ~NextLocation
  <2>1. PICK ppn \in Nat, vpn \in Needed : CallMapPage(pt, ppn, vpn, MAP_PAGE)
    BY <1>4, MapCalls
  <2>2. at \in BeforePaging
    BY <1>4, MapCalls DEF BeforePaging
  <2>3. Enough(Needed)
    <3>1. Needed \subseteq Vpn
      BY NeededIsVirtual
    <3>2. TablesNeeded <= Cardinality(FreeRam)
      BY DEF Adequate, EnoughFrames, FreeRam
    <3> QED
      BY <3>1, <3>2 DEF Enough, TablesNeeded, FirstIndices, IndexPairs
  <2>4. GoodWalk(Walk) /\ Going(Walk) /\ Paged(Walk) /\ TablesFor(Walk, Needed)
    BY <1>3, <2>2, StateIsGoodWalk DEF SpaceInv
  <2> DEFINE v == MapPage(Walk, pt, ppn, vpn, MAP_PAGE)
  <2>5. ~v.halted /\ TablesFor(v, Needed)
    BY <2>3, <2>4, MapPageAccounted
  <2>6. Commit(v, "map", BlockOf(vpn, Align(MAP_PAGE), ppn)) /\ pt' = pt
    BY <2>1 DEF CallMapPage
  <2> HIDE DEF v
  <2>7. mem' = v.mem /\ frames' = v.frames /\ level' = v.level /\ halted' = v.halted
    BY <2>6 DEF Commit
  <2>8. TablesFor(Walk', Needed)
    BY <2>5, <2>7 DEF TablesFor, TablesOf, Reached, Walk
  <2> QED
    BY <1>2, <2>5, <2>6, <2>7, <2>8 DEF TablesFor, Reached
<1>5. CASE NextLocation
  <2>1. UNCHANGED vars /\ at \in BeforePaging
    BY <1>5 DEF NextLocation, At, BeforePaging, Mapping
  <2>2. Walk' = Walk /\ pt' = pt /\ halted' = halted
    BY <2>1 DEF vars, Walk
  <2> QED
    BY <1>2, <1>3, <2>1, <2>2 DEF TablesFor, Reached
<1>6. CASE UnmapLowerHalf
  <2>1. /\ at = "unmap" /\ at' \notin BeforePaging /\ CallUnmapPage(NULL, page, MAP_PAGE)
        /\ page \in LowImage /\ at \notin BeforePaging
    BY <1>6, DoneUnmap
    DEF UnmapLowerHalf, At, Goto, BeforePaging, Mapping, InMachineMode
  <2>2. page \in Vpn /\ satp = pt /\ Paged(Walk) /\ Serves(mem, Done)
    BY <2>1, NeededIsVirtual DEF SpaceInv, Needed
  <2>3. ~halted'
    BY <2>1, <2>2, UnmapCall
  <2> QED
    BY <2>1, <2>3
<1>7. CASE ~EnablePaging /\ ~UnmapLowerHalf
  <2>1. /\ UNCHANGED <<frames, mem, level, pt>> /\ (halted' = halted \/ PageFault)
        /\ at' \in BeforePaging => at \in BeforePaging
    BY <1>7, QuietSteps
  <2>2. ~PageFault
    BY <1>3, NothingFaults DEF PageFault
  <2>3. Walk' = Walk /\ pt' = pt
    BY <2>1 DEF Walk
  <2> QED
    BY <1>2, <1>3, <2>1, <2>2, <2>3 DEF TablesFor, Reached
<1> QED
  BY <1>4, <1>5, <1>6, <1>7

(***************************************************************************)
(* On a board with the two devices, with RAM for the tables, and with an   *)
(* image whose jump tables come first, the boot never hangs: no map_page   *)
(* runs out of frames, and from satp on every page that is touched is      *)
(* mapped, and to the page meant, at whichever step the timer strikes.     *)
(***************************************************************************)
THEOREM BootNeverHangs == SpecBoot => []BootNeverFaults
<1>1. FramesInv => BootNeverFaults
  BY DEF FramesInv, BootNeverFaults
<1>2. InitBoot => RodataInv /\ SpaceInv /\ FramesInv
  BY RodataInvInit, SpaceInvInit, FramesInvInit
<1>3. /\ IInv /\ TrapInv /\ LoopInv /\ RodataInv /\ SpaceInv /\ FramesInv
      /\ [NextBoot]_bootVars
      => RodataInv' /\ SpaceInv' /\ FramesInv'
  BY RodataInvStep, SpaceInvStep, FramesInvStep
<1> QED
  BY <1>1, <1>2, <1>3, BootInvariance, PTL DEF SpecBoot

-----------------------------------------------------------------------------
(***************************************************************************)
(* What the boot has found out about its board when it gets to the loop,   *)
(* without having looked: kernel_main is past every step that would have   *)
(* hung.                                                                   *)
(***************************************************************************)
FramesSufficed == at \notin BeforePaging => EnoughFrames

PrintingWorked ==
  at \in Looping =>
    /\ UartPage \in Devices
    /\ \A k \in DOMAIN rodata :
         rodata[k].pointer => rodata[k].value = rodata[k].linked + Diff

\* Where the kernel comes from when it is past satp, or in the loop.
LEMMA GatesOfTheBoot ==
  ASSUME TrapInv, [NextBoot]_bootVars
  PROVE  /\ at \in BeforePaging => at' \in BeforePaging \/ GoLive
         /\ at' \in Looping => at \in Looping \/ LoadElf
<1> USE DEF BeforePaging, InMachineMode, Mapping, Looping
<1>1. CASE EnablePaging
  BY <1>1 DEF EnablePaging, MapKernelLow, MapKernelHigh, MapDevice, NextLocation, MapWindow,
     EnterSlot, Goto, At
<1>2. CASE Start \/ KernelStart \/ SetPriv \/ GoLive \/ PrintSatp \/ InitTraps \/ EnableInterrupts
           \/ JumpHigh \/ SwapIn \/ AddSp \/ SwapOut \/ RelocateSp \/ RelocateGp
  BY <1>2 DEF Start, KernelStart, SetPriv, GoLive, PrintSatp, InitTraps, EnableInterrupts,
     JumpHigh, SwapIn, AddSp, SwapOut, RelocateSp, RelocateGp, Goto, At
<1>3. CASE KernelMain \/ UnmapLowerHalf \/ LoadElf \/ PrintCounter \/ Wfi \/ WakeUp
  BY <1>3 DEF KernelMain, UnmapLowerHalf, LoadElf, PrintCounter, Wfi, WakeUp, Goto, At
<1>4. CASE ReturnFromTrap
  <2>1. /\ InTrap
        /\ at' = IF trap.cause = "ecall" THEN "print"
                 ELSE IF at = "asleep" THEN "ecall" ELSE at
    BY <1>4, ReturnStep DEF ReturnFromTrap, TrapInv
  <2>2. trap.cause = "ecall" => at = "ecall"
    BY <2>1 DEF InTrap
  <2> QED
    BY <2>1, <2>2
<1>5. CASE Ecall \/ Interrupt \/ HandleInterrupt \/ HandleEcall \/ PageFault \/ Tick \/ HangForEver
           \/ UNCHANGED bootVars
  BY <1>5 DEF Ecall, Interrupt, TakeTrap, HandleInterrupt, HandleEcall, PageFault, Tick,
     HangForEver, bootVars, machine
<1> QED
  BY <1>1, <1>2, <1>3, <1>4, <1>5 DEF NextBoot, Kernel, Handler

\* All that is needed is mapped, so there were frames for all the tables.
LEMMA CompleteTablesNeedFrames ==
  ASSUME IInv, LoopInv, SpaceInv, ~halted, at \in Complete
  PROVE  EnoughFrames
<1>1. Done = Needed /\ Serves(mem, Done) /\ Paged(Walk)
  BY DoneNow DEF SpaceInv, DoneOutsideLoops
<1>2. Needed \in SUBSET Vpn
  BY NeededIsVirtual
<1>3. \A v \in Needed : Translate(mem, pt, v) # Fault
  BY <1>1, <1>2, TargetsArePages DEF Serves
<1>4. GoodWalk(Walk) /\ ~Walk.halted /\ Walk.mem = mem
  BY StateIsGoodWalk DEF Walk
<1> HIDE DEF Done
<1>5. Enough(Needed)
  BY <1>1, <1>2, <1>3, <1>4, TablesAreEnough
<1> QED
  BY <1>5 DEF Enough, EnoughFrames, TablesNeeded, FirstIndices, IndexPairs, FreeRam

LEMMA FramesSufficedStep ==
  ASSUME IInv, TrapInv, LoopInv, SpaceInv, FramesSufficed, [NextBoot]_bootVars
  PROVE  FramesSufficed'
<1>1. EnoughFrames' = EnoughFrames
  <2>1. Needed' = Needed
    BY LocationsStay DEF Needed, Devices, LowImage, HighImage, RamWindow, KernelEndPage
  <2> QED
    BY <2>1 DEF EnoughFrames, TablesNeeded
<1>2. CASE GoLive
  <2>1. ~halted /\ at \in Complete
    BY <1>2 DEF GoLive, At, CanStep, Complete
  <2> QED
    BY <1>1, <2>1, CompleteTablesNeedFrames DEF FramesSufficed
<1>3. CASE ~GoLive
  BY <1>1, <1>3, GatesOfTheBoot DEF FramesSufficed
<1> QED
  BY <1>2, <1>3

\* To print behind load_elf takes the UART and the jump tables.
LEMMA PrintingNeedsPointers ==
  ASSUME IInv, LoopInv, RodataInv, SpaceInv, LoadElf
  PROVE  /\ UartPage \in Devices
         /\ \A k \in DOMAIN rodata :
              rodata[k].pointer => rodata[k].value = rodata[k].linked + Diff
<1>1. /\ at = "load_elf" /\ ~halted /\ satp = pt /\ satp # NULL
      /\ \A t \in KernelTouches : Translate(mem, pt, t[1]) = t[2]
  <2>1. at = "load_elf" /\ trap = NoTrap /\ ~InterruptDue /\ ~halted /\ Mapped(Touches)
    BY DEF LoadElf, At, CanStep, Able
  <2>2. satp = pt /\ pt # NULL
    <3>1. satp = pt
      BY <2>1 DEF SpaceInv, BeforePaging, InMachineMode, Mapping
    <3>2. pt \in Ram /\ \A p \in Ram : p # 0
      BY RamIsNotEmpty, PageTableAssumption DEF IInv, TypeOK, Ram
    <3> QED
      BY <3>1, <3>2 DEF NULL
  <2>3. Touches = KernelTouches
    BY <2>1 DEF Touches
  <2> QED
    BY <2>1, <2>2, <2>3 DEF Mapped
<1>2. Uart \subseteq KernelTouches /\ JumpTargets \subseteq KernelTouches
  BY <1>1 DEF KernelTouches, Printing
<1>3. Done = Needed \ LowImage /\ Serves(mem, Done)
  BY <1>1, DoneNow DEF SpaceInv, DoneOutsideLoops, InMain
<1>4. UartPage \in Devices
  <2>1. Translate(mem, pt, UartPage) = UartPage
    BY <1>1, <1>2 DEF Uart
  <2>2. UartPage \in Vpn /\ UartPage \in Nat
    BY BootAssumption DEF Vpn
  <2>3. UartPage \in Needed \ LowImage /\ Target(UartPage) = UartPage
    BY <1>3, <2>1, <2>2 DEF Serves, Fault
  <2>4. UartPage \notin HighImage
    BY <2>2, <2>3, Layout DEF Target
  <2>5. UartPage \notin RamWindow
    BY <2>2, <2>3, <2>4, Layout, BootAssumption DEF Target
  <2> QED
    BY <2>3, <2>4, <2>5 DEF Needed
<1>5. ASSUME NEW k \in DOMAIN rodata, rodata[k].pointer
      PROVE  rodata[k].value = rodata[k].linked + Diff
  <2>1. /\ rodata[k].linked \in KernelPage..(KernelEndPage - 1)
        /\ rodata[k].value = IF LinkedLow(k) THEN rodata[k].linked + Diff
                             ELSE rodata[k].linked
    BY <1>1, <1>5 DEF RodataInv, Moved, InMain
  <2> SUFFICES ASSUME rodata[k].value = rodata[k].linked  PROVE FALSE
    BY <2>1
  <2> DEFINE v == rodata[k].linked
  <2>2. v \in LowImage /\ v \in Nat /\ v < HighPage /\ v \in Vpn
    BY <2>1, Layout DEF LowImage
  <2>3. <<v, v>> \in JumpTargets
    BY <1>5, <2>2, Layout DEF JumpTargets, Home
  <2> HIDE DEF v
  <2>4. Translate(mem, pt, v) = v
    BY <1>1, <1>2, <2>3
  <2> QED
    BY <1>3, <2>2, <2>4 DEF Serves, Fault
<1> QED
  BY <1>4, <1>5

LEMMA PrintingWorkedStep ==
  ASSUME IInv, TrapInv, LoopInv, RodataInv, SpaceInv, PrintingWorked, [NextBoot]_bootVars
  PROVE  PrintingWorked'
<1>1. Devices' = Devices
  BY LocationsStay DEF Devices
<1>2. CASE at' \notin Looping
  BY <1>2 DEF PrintingWorked
<1>3. CASE at \in Looping \/ LoadElf
  <2>1. rodata' = rodata
    <3>1. ~KernelMain
      BY <1>3 DEF KernelMain, LoadElf, At, Looping
    <3> QED
      BY <3>1, StepsLeaveRodata
  <2> QED
    BY <1>1, <1>3, <2>1, PrintingNeedsPointers DEF PrintingWorked
<1> QED
  BY <1>2, <1>3, GatesOfTheBoot

(***************************************************************************)
(* No board that is short of frames, lacks the UART or has jump tables     *)
(* modify_rodata_ptrs does not find reaches the loop of kernel_main: the   *)
(* results of map_page are ignored (page.c:178 to :193) and nothing is     *)
(* checked, but whatever is missing hangs the kernel first.                *)
(***************************************************************************)
THEOREM OthersNeverLoop == SpecBoot => []OnlyAdequateBoardsRun
<1>1. FramesSufficed /\ PrintingWorked => OnlyAdequateBoardsRun
  BY DEF FramesSufficed, PrintingWorked, OnlyAdequateBoardsRun, Looping, BeforePaging,
     InMachineMode, Mapping
<1>2. InitBoot => RodataInv /\ SpaceInv /\ FramesSufficed /\ PrintingWorked
  <2>1. InitBoot => at = "start"
    BY DEF InitBoot
  <2> QED
    BY <2>1, RodataInvInit, SpaceInvInit
    DEF FramesSufficed, PrintingWorked, BeforePaging, InMachineMode, Looping
<1>3. /\ IInv /\ TrapInv /\ LoopInv /\ RodataInv /\ SpaceInv /\ FramesSufficed
      /\ PrintingWorked /\ [NextBoot]_bootVars
      => RodataInv' /\ SpaceInv' /\ FramesSufficed' /\ PrintingWorked'
  BY RodataInvStep, SpaceInvStep, FramesSufficedStep, PrintingWorkedStep
<1> QED
  BY <1>1, <1>2, <1>3, BootInvariance, PTL DEF SpecBoot

-----------------------------------------------------------------------------
(***************************************************************************)
(* The boot implements its plan.  The views below are what the refinement  *)
(* mapping of Boot.tla makes of a state.                                   *)
(***************************************************************************)
PlanNow == [v \in Needed |-> Target(v)]
HalfNow == IF KernelPc >= HighPage THEN "high" ELSE "low"
StageNow == IF halted THEN "stuck" ELSE IF at \in InMain THEN "main" ELSE "boot"

View == <<PlanNow, SpaceNow, satp # NULL, HalfNow, StageNow>>

\* The kernel's pc, saved or not, tells which half it runs in.
LEMMA HalfByStep == TrapInv => HalfNow = IF at \in RunningLow THEN "low" ELSE "high"
<1> SUFFICES ASSUME TrapInv  PROVE HalfNow = IF at \in RunningLow THEN "low" ELSE "high"
  OBVIOUS
<1>1. KernelPc = (IF at \in RunningLow THEN KernelPage ELSE HighPage) + Text
  BY DEF KernelPc, TrapInv, InTrap, Registers
<1>2. KernelPage + Text < HighPage /\ HighPage + Text >= HighPage
  BY Halves, Offsets
<1>3. (KernelPage + Text >= HighPage) = FALSE
  BY <1>2, Halves, Offsets
<1> QED
  BY <1>1, <1>2, <1>3 DEF HalfNow

LEMMA HalfByNextStep == (TrapInv => HalfNow = IF at \in RunningLow THEN "low" ELSE "high")'
BY HalfByStep, PTL

LEMMA PlanStays == [NextBoot]_bootVars => PlanNow' = PlanNow
<1> SUFFICES ASSUME [NextBoot]_bootVars  PROVE PlanNow' = PlanNow
  OBVIOUS
<1>1. locations' = locations
  BY LocationsStay
<1>2. Needed' = Needed
  BY <1>1 DEF Needed, Devices
<1> QED
  BY <1>2 DEF PlanNow, Target, HighImage, RamWindow, Diff

\* The steps that are no action of the plan.
LEMMA UnplannedSteps ==
  ASSUME TrapInv, [NextBoot]_bootVars, ~EnablePaging \/ NextLocation,
         ~GoLive, ~JumpHigh, ~UnmapLowerHalf, ~PageFault
  PROVE  /\ UNCHANGED vars
         /\ at' \in RunningLow <=> at \in RunningLow
         /\ at' \in InMain <=> at \in InMain
<1> USE DEF RunningLow, Untrapped, InMachineMode, Mapping, InMain
<1>1. CASE NextLocation
  BY <1>1 DEF NextLocation, EnterSlot, At, Goto
<1>2. CASE Start \/ KernelStart \/ SetPriv \/ PrintSatp \/ InitTraps \/ EnableInterrupts
  BY <1>2 DEF Start, KernelStart, SetPriv, PrintSatp, InitTraps, EnableInterrupts, At, Goto
<1>3. CASE SwapIn \/ AddSp \/ SwapOut \/ RelocateSp \/ RelocateGp \/ KernelMain
  BY <1>3 DEF SwapIn, AddSp, SwapOut, RelocateSp, RelocateGp, KernelMain, At, Goto
<1>4. CASE LoadElf \/ PrintCounter \/ Wfi \/ WakeUp
  BY <1>4 DEF LoadElf, PrintCounter, Wfi, WakeUp, At, Goto
<1>5. CASE ReturnFromTrap
  <2>1. /\ UNCHANGED vars /\ InTrap
        /\ at' = IF trap.cause = "ecall" THEN "print"
                 ELSE IF at = "asleep" THEN "ecall" ELSE at
    BY <1>5, ReturnStep DEF ReturnFromTrap, TrapInv
  <2>2. trap.cause = "ecall" => at = "ecall"
    BY <2>1 DEF InTrap
  <2> QED
    BY <2>1, <2>2
<1>6. CASE Ecall \/ Interrupt \/ HandleInterrupt \/ HandleEcall \/ Tick \/ HangForEver
           \/ UNCHANGED bootVars
  BY <1>6 DEF Ecall, Interrupt, TakeTrap, HandleInterrupt, HandleEcall, Tick, HangForEver,
     bootVars, machine
<1> QED
  BY <1>1, <1>2, <1>3, <1>4, <1>5, <1>6 DEF NextBoot, Kernel, Handler

\* What the plan needs, in the terms of the views.
LEMMA PlanOfNeeded ==
  ASSUME LoopInv
  PROVE  /\ DOMAIN PlanNow = Needed /\ Needed \subseteq Vpn /\ LowImage \subseteq Needed
         /\ \A v \in Needed : PlanNow[v] = Target(v)
         /\ \A v \in LowImage : v + Diff \in Needed /\ PlanNow[v + Diff] = PlanNow[v]
<1>1. LowImage \subseteq Needed /\ HighImage \subseteq Needed
  BY DEF Needed
<1>2. \A v \in LowImage : /\ v \in Nat /\ v < HighPage
                          /\ v + Diff = HighPage + v - KernelPage
  BY Layout DEF LowImage
<1>3. \A v \in LowImage : v + Diff \in HighImage /\ Target(v + Diff) = v /\ Target(v) = v
  BY <1>2, Targets
<1> QED
  BY <1>1, <1>3, NeededIsVirtual DEF PlanNow

\* All that is needed is there.
LEMMA FilledWhenComplete ==
  ASSUME LoopInv, SpaceInv, ~halted, at \in Complete
  PROVE  \A v \in DOMAIN PlanNow : SpaceNow[v] = PlanNow[v]
<1>1. Done = Needed /\ Serves(mem, Done)
  BY DoneNow DEF SpaceInv, DoneOutsideLoops
<1>2. DOMAIN PlanNow = Needed /\ Needed \subseteq Vpn /\ \A v \in Needed : PlanNow[v] = Target(v)
  BY PlanOfNeeded
<1> QED
  BY <1>1, <1>2 DEF Serves, SpaceNow

LEMMA PlanInit == InitBoot => Plan!Init
<1> SUFFICES ASSUME InitBoot  PROVE Plan!Init
  OBVIOUS
<1>1. LoopInv /\ TrapInv /\ SpaceInv
  BY LoopInvInit, TrapInvInit, SpaceInvInit
<1>2. at = "start" /\ ~halted /\ at \in InMachineMode /\ at \in RunningLow /\ at \in BeforePaging
  BY DEF InitBoot, Init, InMachineMode, RunningLow, Untrapped, BeforePaging
<1>3. HalfNow = "low" /\ StageNow = "boot"
  BY <1>1, <1>2, HalfByStep DEF StageNow, InMain
<1>4. Serves(mem, {}) /\ satp = NULL
  BY <1>1, <1>2, DoneNow DEF SpaceInv, DoneOutsideLoops
<1>5. SpaceNow = [v \in Vpn |-> Fault]
  BY <1>4 DEF Serves, SpaceNow
<1> QED
  BY <1>1, <1>3, <1>4, <1>5, PlanOfNeeded
  DEF Plan!Init, Plan!Needed, PlanNow, SpaceNow, HalfNow, StageNow

\* A call of map_page puts one page of the plan in place, or is the end.
LEMMA PlanMap ==
  ASSUME IInv, TrapInv, TrapInv', LoopInv, SpaceInv, [NextBoot]_bootVars,
         EnablePaging, ~NextLocation
  PROVE  Plan!Map \/ Plan!GetStuck
<1>1. PICK ppn \in Nat, vpn \in Needed :
        /\ CallMapPage(pt, ppn, vpn, MAP_PAGE) /\ Target(vpn) = ppn
        /\ Done' = Done \cup {vpn}
  BY MapCalls
<1>2. /\ at \in RunningLow /\ at' \in RunningLow /\ at \notin InMain /\ at' \notin InMain
      /\ at \in BeforePaging
  BY MapCalls DEF RunningLow, Untrapped, Mapping, InMain, BeforePaging
<1>3. HalfNow = "low" /\ HalfNow' = "low" /\ PlanNow' = PlanNow
  BY <1>2, HalfByStep, HalfByNextStep, PlanStays
<1>4. satp = NULL /\ vpn \in Vpn /\ ~halted /\ DOMAIN PlanNow = Needed
      /\ PlanNow[vpn] = ppn
  BY <1>1, <1>2, PlanOfNeeded DEF SpaceInv, CallMapPage
<1>5. Paged(Walk) /\ Serves(mem, Done)
  BY <1>4 DEF SpaceInv
<1>6. /\ pt' = pt /\ satp' = NULL
      /\ ~halted' => Serves(mem', Done \cup {vpn})
      /\ halted' => Same(mem, mem')
  BY <1>1, <1>4, <1>5, MapCall
<1>7. CASE halted'
  <2>1. SpaceNow' = SpaceNow
    BY <1>6, <1>7, SameIsStutter
  <2>2. StageNow' = "stuck"
    BY <1>7 DEF StageNow
  <2> QED
    BY <1>3, <1>4, <1>6, <2>1, <2>2
    DEF Plan!GetStuck, PlanNow, SpaceNow, HalfNow, StageNow
<1>8. CASE ~halted'
  <2>1. StageNow = "boot" /\ StageNow' = "boot"
    BY <1>2, <1>4, <1>8 DEF StageNow
  <2>2. SpaceNow' = [SpaceNow EXCEPT ![vpn] = PlanNow[vpn]]
    <3>1. \A v \in Vpn : Translate(mem, pt, v) = IF v \in Done THEN Target(v) ELSE Fault
      BY <1>5 DEF Serves
    <3>2. \A v \in Vpn : Translate(mem', pt, v) = IF v \in Done \cup {vpn} THEN Target(v)
                                                  ELSE Fault
      BY <1>6, <1>8 DEF Serves
    <3>3. \A v \in Vpn : Translate(mem', pt', v) = IF v = vpn THEN PlanNow[vpn]
                                                   ELSE Translate(mem, pt, v)
      BY <1>1, <1>4, <1>6, <3>1, <3>2
    <3> QED
      BY <1>4, <3>3 DEF SpaceNow
  <2> QED
    BY <1>3, <1>4, <1>6, <2>1, <2>2
    DEF Plan!Map, Plan!Needed, PlanNow, SpaceNow, HalfNow, StageNow
<1> QED
  BY <1>7, <1>8

\* satp is written when the space is complete.
LEMMA PlanTurnOn ==
  ASSUME IInv, TrapInv, TrapInv', LoopInv, SpaceInv, [NextBoot]_bootVars, GoLive
  PROVE  Plan!TurnOn
<1>1. /\ at = "write_satp" /\ at' = "print_satp" /\ ~halted /\ ~halted'
      /\ satp' = pt /\ UNCHANGED <<mem, pt>>
  BY DEF GoLive, WriteSatp, At, CanStep, Goto
<1>2. /\ at \in RunningLow /\ at' \in RunningLow /\ at \notin InMain /\ at' \notin InMain
      /\ at \in BeforePaging /\ at \in Complete
  BY <1>1 DEF RunningLow, Untrapped, InMain, BeforePaging, Complete
<1>3. HalfNow' = HalfNow /\ PlanNow' = PlanNow /\ StageNow = "boot" /\ StageNow' = "boot"
  BY <1>1, <1>2, HalfByStep, HalfByNextStep, PlanStays DEF StageNow
<1>4. satp = NULL /\ pt # NULL
  BY <1>2, PageTableAssumption DEF SpaceInv, IInv, TypeOK, Ram, NULL
<1>5. SpaceNow' = SpaceNow
  BY <1>1 DEF SpaceNow
<1>6. \A v \in DOMAIN PlanNow : SpaceNow[v] = PlanNow[v]
  BY <1>1, <1>2, FilledWhenComplete
<1> QED
  BY <1>1, <1>3, <1>4, <1>5, <1>6
  DEF Plan!TurnOn, Plan!Filled, Plan!Needed, PlanNow, SpaceNow, HalfNow, StageNow

\* The kernel jumps while the space is complete.
LEMMA PlanMoveHigh ==
  ASSUME IInv, TrapInv, TrapInv', LoopInv, SpaceInv, [NextBoot]_bootVars, JumpHigh
  PROVE  Plan!MoveHigh
<1>1. at = "jump" /\ at' = "swap_in" /\ ~halted /\ UNCHANGED vars
  BY DEF JumpHigh, At, CanStep, Goto
<1>2. /\ at \in RunningLow /\ at' \notin RunningLow /\ at \notin InMain /\ at' \notin InMain
      /\ at \notin BeforePaging /\ at \in Complete
  BY <1>1 DEF RunningLow, Untrapped, InMain, BeforePaging, Complete, InMachineMode, Mapping
<1>3. /\ HalfNow = "low" /\ HalfNow' = "high" /\ PlanNow' = PlanNow
      /\ StageNow = "boot" /\ StageNow' = "boot"
  BY <1>1, <1>2, HalfByStep, HalfByNextStep, PlanStays DEF StageNow, vars
<1>4. satp # NULL /\ satp' = satp
  BY <1>1, <1>2, PageTableAssumption DEF SpaceInv, IInv, TypeOK, Ram, NULL, vars
<1>5. SpaceNow' = SpaceNow
  BY <1>1 DEF SpaceNow, vars
<1>6. \A v \in DOMAIN PlanNow : SpaceNow[v] = PlanNow[v]
  BY <1>1, <1>2, FilledWhenComplete
<1> QED
  BY <1>3, <1>4, <1>5, <1>6
  DEF Plan!MoveHigh, Plan!Filled, Plan!Needed, PlanNow, SpaceNow, HalfNow, StageNow

\* A call of unmap_page takes one low page away; the last one opens kernel_main.
LEMMA PlanRemove ==
  ASSUME IInv, TrapInv, TrapInv', LoopInv, LoopInv', SpaceInv, [NextBoot]_bootVars,
         UnmapLowerHalf
  PROVE  Plan!Remove
<1>1. /\ at = "unmap" /\ CallUnmapPage(NULL, page, MAP_PAGE) /\ page' = page + 1
      /\ at' = IF page = KernelEndPage THEN "load_elf" ELSE "unmap"
      /\ Done' = Done \ {page} /\ page \in LowImage /\ ~halted
  BY DoneUnmap DEF UnmapLowerHalf, At, CanStep, Goto
<1>2. /\ at \notin RunningLow /\ at' \notin RunningLow /\ at \notin InMain
      /\ at \notin BeforePaging
      /\ at' \in InMain <=> page = KernelEndPage
  BY <1>1 DEF RunningLow, Untrapped, InMain, BeforePaging, InMachineMode, Mapping
<1>3. HalfNow = "high" /\ HalfNow' = "high" /\ PlanNow' = PlanNow
  BY <1>2, HalfByStep, HalfByNextStep, PlanStays
<1>4. page \in Vpn /\ satp = pt /\ Paged(Walk) /\ Serves(mem, Done)
  BY <1>1, <1>2, PlanOfNeeded DEF SpaceInv
<1>5. ~halted' /\ pt' = pt /\ satp' = satp /\ Serves(mem', Done \ {page})
  BY <1>1, <1>4, UnmapCall
<1>6. SpaceNow' = [SpaceNow EXCEPT ![page] = Fault]
  <2>1. \A v \in Vpn : Translate(mem, pt, v) = IF v \in Done THEN Target(v) ELSE Fault
    BY <1>4 DEF Serves
  <2>2. \A v \in Vpn : Translate(mem', pt, v) = IF v \in Done \ {page} THEN Target(v) ELSE Fault
    BY <1>5 DEF Serves
  <2>3. \A v \in Vpn : Translate(mem', pt', v) = IF v = page THEN Fault
                                                 ELSE Translate(mem, pt, v)
    BY <1>5, <2>1, <2>2
  <2> QED
    BY <1>4, <2>3 DEF SpaceNow
<1>7. (\A v \in LowImage : SpaceNow'[v] = Fault) <=> page = KernelEndPage
  <2>1. LowImage \subseteq Vpn
    BY PlanOfNeeded
  <2>2. \A v \in LowImage : SpaceNow'[v] = IF v \in Done' THEN Target(v) ELSE Fault
    BY <1>1, <1>5, <2>1 DEF Serves, SpaceNow
  <2>3. ASSUME page = KernelEndPage, NEW v \in LowImage  PROVE v \notin Done'
    BY <1>2, <2>3, DoneNext DEF DoneOutsideLoops
  <2>4. ASSUME page # KernelEndPage
        PROVE  page + 1 \in LowImage /\ page + 1 \in Done' /\ Target(page + 1) # Fault
    <3>1. page + 1 \in LowImage /\ page + 1 \in Nat /\ at' = "unmap"
      BY <1>1, <2>4, Layout DEF LowImage
    <3>2. page + 1 \in DoneLow'
      BY <3>1 DEF DoneLow, LowImage, KernelEndPage, InMachineMode
    <3>3. page + 1 \notin Removed'
      BY <1>1, <3>1 DEF Removed, Below, InMain
    <3>4. page + 1 \in Vpn
      BY <2>1, <3>1
    <3> QED
      BY <3>1, <3>2, <3>3, <3>4, TargetsArePages DEF Done
  <2> QED
    BY <2>2, <2>3, <2>4
<1>8. /\ StageNow = "boot"
      /\ StageNow' = IF \A v \in LowImage : SpaceNow'[v] = Fault THEN "main" ELSE "boot"
  BY <1>1, <1>2, <1>5, <1>7 DEF StageNow
<1>9. LowImage' = LowImage
  BY DEF LowImage
<1> QED
  BY <1>1, <1>3, <1>5, <1>6, <1>8, <1>9
  DEF Plan!Remove, Plan!LowIsGone, PlanNow, SpaceNow, HalfNow, StageNow

LEMMA PlanNext ==
  ASSUME IInv, TrapInv, TrapInv', LoopInv, LoopInv', SpaceInv, [NextBoot]_bootVars
  PROVE  [Plan!Next]_View
<1>1. CASE EnablePaging /\ ~NextLocation
  BY <1>1, PlanMap DEF Plan!Next
<1>2. CASE GoLive
  BY <1>2, PlanTurnOn DEF Plan!Next
<1>3. CASE JumpHigh
  BY <1>3, PlanMoveHigh DEF Plan!Next
<1>4. CASE UnmapLowerHalf
  BY <1>4, PlanRemove DEF Plan!Next
<1>5. CASE PageFault
  <2>1. halted' = TRUE /\ UNCHANGED <<mem, pt, satp, trap, cpu>>
    BY <1>5 DEF PageFault, machine
  <2>2. StageNow' = "stuck" /\ HalfNow' = HalfNow /\ SpaceNow' = SpaceNow /\ PlanNow' = PlanNow
    BY <2>1, PlanStays DEF StageNow, HalfNow, KernelPc, SpaceNow
  <2> QED
    BY <2>1, <2>2 DEF Plan!Next, Plan!GetStuck, PlanNow, SpaceNow, HalfNow, StageNow
<1>6. CASE /\ ~EnablePaging \/ NextLocation
           /\ ~GoLive /\ ~JumpHigh /\ ~UnmapLowerHalf /\ ~PageFault
  <2>1. /\ UNCHANGED vars
        /\ at' \in RunningLow <=> at \in RunningLow
        /\ at' \in InMain <=> at \in InMain
    BY <1>6, UnplannedSteps
  <2>2. HalfNow' = HalfNow /\ PlanNow' = PlanNow
    BY <2>1, HalfByStep, HalfByNextStep, PlanStays
  <2>3. StageNow' = StageNow /\ SpaceNow' = SpaceNow /\ (satp # NULL)' = (satp # NULL)
    BY <2>1 DEF StageNow, SpaceNow, vars
  <2> QED
    BY <2>2, <2>3 DEF View
<1> QED
  BY <1>1, <1>2, <1>3, <1>4, <1>5, <1>6

(***************************************************************************)
(* Whatever the device tree, the size of the image and of RAM and the      *)
(* moments at which the timer strikes, the boot does what its plan allows: *)
(* enable_paging only puts pages where they belong, satp is written and    *)
(* the kernel jumps with all of them there, unmap_lower_half_kernel takes  *)
(* only the low image away and only from the high half, and kernel_main    *)
(* goes on with none of it left; traps are no step of it at all.           *)
(***************************************************************************)
THEOREM ImplementsPlan == SpecBoot => BootFollowsPlan
<1>1. InitBoot => Plan!Init
  BY PlanInit
<1>2. View = Plan!planVars
  BY DEF View, Plan!planVars, PlanNow, SpaceNow, HalfNow, StageNow
<1>3. (View = Plan!planVars)'
  BY DEF View, Plan!planVars, PlanNow, SpaceNow, HalfNow, StageNow
<1>4. /\ IInv /\ TrapInv /\ LoopInv /\ SpaceInv /\ (TrapInv /\ LoopInv)'
      /\ [NextBoot]_bootVars
      => [Plan!Next]_Plan!planVars
  BY <1>2, <1>3, PlanNext
<1>5. InitBoot => SpaceInv
  BY SpaceInvInit
<1>6. IInv /\ TrapInv /\ LoopInv /\ SpaceInv /\ [NextBoot]_bootVars => SpaceInv'
  BY SpaceInvStep
<1> QED
  BY <1>1, <1>4, <1>5, <1>6, BootInvariance, PTL
  DEF SpecBoot, BootFollowsPlan, Plan!Spec
=============================================================================
