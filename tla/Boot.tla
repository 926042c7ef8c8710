-------------------------------- MODULE Boot --------------------------------
(***************************************************************************)
(* From the first instruction to the loop of kernel_main(): the kernel     *)
(* leaves machine mode, maps itself low and high, goes live with paging,   *)
(* installs the trap handler, enables interrupts, moves its program        *)
(* counter, stacks, global pointer and read-only pointers to the high      *)
(* half, unmaps the low half, and then prints, waits and makes an ecall    *)
(* for ever.  The timer interrupt may strike between any two steps once it *)
(* is enabled.                                                             *)
(*                                                                         *)
(* EXTENDS PageTable: every map_page and unmap_page call is the action of  *)
(* that module.  What this module adds is the order of the calls, the      *)
(* processor's registers, and the rule that each step of the kernel needs  *)
(* the pages it touches to be mapped; if one is not, the kernel hangs.     *)
(* Addresses are pages; an instruction is named by `at`.                   *)
(***************************************************************************)
EXTENDS PageTable, Sequences

CONSTANTS
  KernelPage,     \* kernel_start_addr / 4096
  KernelPages,    \* pages of the image (the linker script pads it to pages)
  HighPage,       \* HIGHER_HALF_VPN
  WindowPage,     \* HIGHER_HALF_VPN + 1024*1024, where page 0 of RAM would be
  Text, Stack, TrapStack, Global,
                  \* the pages of the image that hold the code, the boot
                  \* stack, TRAP_STACK and global_pointer
  UartPage,       \* the page printf writes to
  ClintPage,      \* the page of mtime and mtimecmp
  Locations,      \* the mapped_locations arrays considered
  Rodata,         \* the words from rodata_start to rodata_middle considered
  Leftovers,      \* what compiled code may leave in the other registers
  TimerAtReset,   \* what mtimecmp, mtime and the bits of mideleg that the hart
                  \* implements make of the timer before boot
  CounterMod      \* bound: counter is kept modulo this (2^64 in the kernel)

KernelEndPage == KernelPage + KernelPages
ImageOffset == 0..(KernelPages - 1)

ASSUME BootAssumption ==
  /\ {KernelPage, KernelPages, WindowPage} \subseteq Nat \ {0}
  /\ {HighPage, UartPage, ClintPage} \subseteq Vpn
  /\ {Text, Stack, TrapStack, Global} \subseteq ImageOffset
  /\ \A l \in Locations : l \in Seq([address : Nat, size : Nat])
  /\ Leftovers \subseteq [moved : Nat, shifted : Nat]
  /\ TimerAtReset \subseteq {"armed", "fired", "never"}
  /\ CounterMod \in Nat \ {0}

\* The pages of a region, as enable_paging computes them, and an unused slot.
StartPage(l) == l.address \div 4096
EndPage(l) == (l.address + l.size + 4095) \div 4096
Unused(l) == l.address = 0 /\ l.size = 0

(***************************************************************************)
(* The layout of page.h:26-28 and linker.ld: from low to high, the image   *)
(* and the devices, the high half with the image, the window on RAM, the   *)
(* end of what three indices address.  The image ends below the distance   *)
(* to its high half (0x3f80000 pages), so no sum with that distance is in  *)
(* the image.                                                              *)
(***************************************************************************)
ASSUME LayoutAssumption ==
  /\ KernelEndPage <= HighPage - KernelPage
  /\ HighPage + KernelPages < WindowPage + RamPage
  /\ WindowPage + RamPage + RamPages <= Fanout * Fanout * Fanout
  /\ {UartPage, ClintPage} \cap (KernelPage..KernelEndPage) = {}
  /\ \A l \in Locations : \A n \in DOMAIN l : Unused(l[n]) \/ EndPage(l[n]) < HighPage

\* .rodata is loaded as it was linked, and its jump tables lead into the image.
ASSUME RodataAssumption ==
  \A r \in Rodata :
    /\ r \in Seq([pointer : BOOLEAN, linked : Nat, value : Nat])
    /\ \A n \in DOMAIN r :
         /\ r[n].value = r[n].linked
         /\ r[n].pointer => r[n].linked \in KernelPage..(KernelEndPage - 1)

VARIABLES
  locations,  \* device_information.mapped_locations
  rodata,     \* words of .rodata: a jump table's pointers, or other data;
              \* as linked, and now
  at,         \* the step of the kernel to execute next
  page,       \* `page` of enable_paging and unmap_lower_half_kernel, `i` of
              \* identity_map_memory
  slot,       \* `i` of enable_paging, from 1
  cpu,        \* pc, sp, gp, sscratch and stvec, as pages; sie: sstatus.SIE;
              \* x: the other registers, one for those relocate_reg moves and
              \* one for fp, s2 and t0, which are always shifted; privilege
              \* mode and mstatus.MPP; whether traps are delegated and memory
              \* open to S-mode
  trap,       \* the trap being handled, or NoTrap
  timer,      \* "armed", or "fired": mtime has reached mtimecmp, or "never":
              \* mtimecmp is left where mtime does not get, or the interrupt
              \* is not delegated
  counter

loop == <<page, slot>>
machine == <<locations, rodata, at, loop, cpu, trap, timer, counter>>
bootVars == <<vars, machine>>

-----------------------------------------------------------------------------
(***************************************************************************)
(* What a step touches, as pairs <<virtual page, physical page>>.  Code    *)
(* addresses the image relative to pc; it also uses sp and gp.             *)
(***************************************************************************)
Image(pc) == {<<pc - Text + o, KernelPage + o>> : o \in ImageOffset}
Uart == {<<UartPage, UartPage>>}
Clint == {<<ClintPage, ClintPage>>}
Window == {<<WindowPage + p, p>> : p \in Ram}

\* The place in the image that a low or a high address of it stands for.
Home(v) == IF v >= HighPage THEN v - HighPage + KernelPage ELSE v

Running(c) ==
  Image(c.pc) \cup {<<c.sp, Home(c.sp)>>, <<c.gp, Home(c.gp)>>}

Mapped(touched) ==
  satp # NULL => \A t \in touched : Translate(mem, satp, t[1]) = t[2]

\* The distance setup_post_relocation is given to relocate by.
Diff == HighPage - KernelPage

InImage(v) == v \in KernelPage..(KernelEndPage - 1)

\* The relocate_reg macro: only addresses inside the low image move.
Relocate(v) == IF InImage(v) THEN v + Diff ELSE v

NoTrap == [cause |-> "none"]

UserMode == 0
SupervisorMode == 1
MachineMode == 3

(***************************************************************************)
(* The kernel is entered in machine mode.  The data of PageTable are those *)
(* init_frames() leaves, which runs before the first call of map_page.     *)
(***************************************************************************)
InitBoot ==
  /\ Init
  /\ locations \in Locations
  /\ rodata \in Rodata
  /\ at = "start"
  /\ page = KernelPage
  /\ slot = 1
  /\ \E leftover \in Leftovers :
       cpu = [pc |-> KernelPage + Text, sp |-> 0, gp |-> 0, sscratch |-> 0,
              stvec |-> 0, sie |-> FALSE, x |-> leftover, mode |-> MachineMode,
              mpp |-> UserMode, delegated |-> FALSE, pmp |-> FALSE]
  /\ trap = NoTrap
  /\ timer \in TimerAtReset
  /\ counter = 0

\* Where the jump tables lead.
JumpTargets ==
  {<<rodata[k].value, Home(rodata[k].value)>> : k \in {k \in DOMAIN rodata : rodata[k].pointer}}

InterruptDue == timer = "fired" /\ cpu.sie /\ trap = NoTrap

\* The steps that print, and so jump through the tables of printf.
Printing == {"kernel_start", "print_satp", "init_traps", "enable_interrupts", "jump",
             "load_elf", "print"}

\* The loops of enable_paging.
Mapping == {"map_low", "map_high", "map_devices", "map_window"}

(***************************************************************************)
(* What the next step of the processor touches: of a handler, of the entry *)
(* to a handler, or of the kernel, which touches memory nobody maps before *)
(* satp is written.                                                        *)
(***************************************************************************)
HandlerTouches ==
  Image(cpu.pc) \cup {<<cpu.sp, Home(cpu.sp)>>}
    \cup (IF trap.cause = "timer" /\ ~trap.done THEN Clint ELSE {})

EntryTouches == Image(cpu.stvec) \cup {<<cpu.sscratch, Home(cpu.sscratch)>>}

KernelTouches ==
  CASE at \in {"swap_in", "add_sp", "swap_out", "relocate_gp"} -> Image(cpu.pc)
    [] at = "relocate_sp" -> Image(cpu.pc) \cup {<<cpu.sp, Home(cpu.sp)>>}
    [] at = "unmap" -> Running(cpu) \cup Window
    [] at \in Printing -> Running(cpu) \cup Uart \cup JumpTargets
    [] OTHER -> Running(cpu)

Touches ==
  IF trap # NoTrap THEN HandlerTouches
  ELSE IF InterruptDue \/ at = "ecall" THEN EntryTouches
  ELSE KernelTouches

(***************************************************************************)
(* A trap that is not delegated goes to machine mode, where no handler is  *)
(* installed; below machine mode memory is closed unless the PMP opens it. *)
(***************************************************************************)
Able ==
  /\ (InterruptDue \/ at = "ecall") /\ trap = NoTrap => cpu.delegated
  /\ cpu.mode # MachineMode => cpu.pmp /\ cpu.mode = SupervisorMode
  /\ Mapped(Touches)

CanStep == ~halted /\ Able

\* The kernel executes its next step: not in a handler, no interrupt due.
At(step) == at = step /\ trap = NoTrap /\ ~InterruptDue /\ CanStep

Goto(step) == at' = step

\* _start: gp, satp, the bss and sp, then kernel_start.
Start ==
  /\ At("start")
  /\ cpu' = [cpu EXCEPT !.sp = KernelPage + Stack, !.gp = KernelPage + Global]
  /\ Goto("kernel_start")
  /\ UNCHANGED <<vars, locations, rodata, loop, trap, timer, counter>>

\* kernel_start prints misa and delegates all traps to supervisor mode.  mideleg
\* is WARL: a hart that does not take its machine-timer bit, 7, never brings a
\* timer interrupt to this kernel, which is timer = "never".
KernelStart ==
  /\ At("kernel_start")
  /\ cpu' = [cpu EXCEPT !.delegated = TRUE]
  /\ Goto("set_priv")
  /\ UNCHANGED <<vars, locations, rodata, loop, trap, timer, counter>>

\* mstatus_set_mpp
SetMpp(c, privilege) == [c EXCEPT !.mpp = privilege % 4]

\* set_priv_m(01, kernel_init, dtb): the PMP opens all memory, and mret goes
\* to kernel_init in the mode MPP says.
SetPriv ==
  /\ At("set_priv")
  /\ LET c == SetMpp(cpu, 1) IN cpu' = [c EXCEPT !.pmp = TRUE, !.mode = c.mpp]
  /\ Goto("map_low")
  /\ UNCHANGED <<vars, locations, rodata, loop, trap, timer, counter>>

(***************************************************************************)
(* enable_paging(): three loops around map_page, whose results are ignored.*)
(* The loops over an image and a region include the page after the last    *)
(* one, kernel_end_page and end_page.                                      *)
(***************************************************************************)
MapKernelLow ==
  /\ At("map_low")
  /\ CallMapPage(pt, page, page, MAP_PAGE)
  /\ Goto("map_high")
  /\ UNCHANGED <<locations, rodata, loop, cpu, trap, timer, counter>>

\* The loop over mapped_locations comes to slot n, or is done.
EnterSlot(n) ==
  /\ slot' = n
  /\ IF n \in DOMAIN locations
     THEN page' = StartPage(locations[n]) /\ Goto("map_devices")
     ELSE page' = RamPage /\ Goto("map_window")

MapKernelHigh ==
  /\ At("map_high")
  /\ CallMapPage(pt, page, HighPage + page - KernelPage, MAP_PAGE)
  /\ IF page = KernelEndPage THEN EnterSlot(1)
     ELSE page' = page + 1 /\ Goto("map_low") /\ UNCHANGED slot
  /\ UNCHANGED <<locations, rodata, cpu, trap, timer, counter>>

MapDevice ==
  /\ At("map_devices")
  /\ ~Unused(locations[slot]) /\ page <= EndPage(locations[slot])
  /\ CallMapPage(pt, page, page, MAP_PAGE)
  /\ page' = page + 1
  /\ UNCHANGED <<locations, rodata, at, slot, cpu, trap, timer, counter>>

NextLocation ==
  /\ At("map_devices")
  /\ Unused(locations[slot]) \/ page > EndPage(locations[slot])
  /\ EnterSlot(slot + 1)
  /\ UNCHANGED <<vars, locations, rodata, cpu, trap, timer, counter>>

\* Mutant: the last page of RAM is left out.
MapWindowTooShort ==
  /\ At("map_window")
  /\ CallMapPage(pt, page, WindowPage + page, MAP_PAGE)
  /\ page' = page + 1
  /\ Goto(IF page + 2 >= RamPage + RamPages THEN "write_satp" ELSE "map_window")
  /\ UNCHANGED <<locations, rodata, slot, cpu, trap, timer, counter>>

\* identity_map_memory(pt, HIGHER_HALF_VPN + 1024*1024)
MapWindow ==
  /\ At("map_window")
  /\ CallMapPage(pt, page, WindowPage + page, MAP_PAGE)
  /\ page' = page + 1
  /\ Goto(IF page + 1 = RamPage + RamPages THEN "write_satp" ELSE "map_window")
  /\ UNCHANGED <<locations, rodata, slot, cpu, trap, timer, counter>>

EnablePaging ==
  MapKernelLow \/ MapKernelHigh \/ MapDevice \/ NextLocation \/ MapWindow

\* csr_write("satp", ...): the code goes on behind it at the same address.
GoLive ==
  /\ At("write_satp")
  /\ WriteSatp
  /\ Goto("print_satp")
  /\ UNCHANGED <<locations, rodata, loop, cpu, trap, timer, counter>>

\* printf, while ident_map_addr is still 0.
PrintSatp ==
  /\ At("print_satp")
  /\ Goto("init_traps")
  /\ UNCHANGED <<vars, locations, rodata, loop, cpu, trap, timer, counter>>

\* Mutant: the relocation of the handler's address has the wrong sign.
InitTrapsSubtracts ==
  /\ At("init_traps")
  /\ cpu' = [cpu EXCEPT !.stvec = KernelPage + Text - HighPage,
                        !.sscratch = cpu.pc - Text + TrapStack]
  /\ Goto("enable_interrupts")
  /\ UNCHANGED <<vars, locations, rodata, loop, trap, timer, counter>>

\* stvec is the handler's high address, sscratch the trap stack's low one.
InitTraps ==
  /\ At("init_traps")
  /\ cpu' = [cpu EXCEPT !.stvec = HighPage + Text,
                        !.sscratch = cpu.pc - Text + TrapStack]
  /\ Goto("enable_interrupts")
  /\ UNCHANGED <<vars, locations, rodata, loop, trap, timer, counter>>

\* sstatus.SIE, and sie = 0xFF, which enables the timer, bits 5 and 7, and the
\* software interrupts, which nothing raises.
EnableInterrupts ==
  /\ At("enable_interrupts")
  /\ cpu' = [cpu EXCEPT !.sie = TRUE]
  /\ Goto("jump")
  /\ UNCHANGED <<vars, locations, rodata, loop, trap, timer, counter>>

\* The rest of kernel_init: two printfs, then kernel_main_hi(...).
JumpHigh ==
  /\ At("jump")
  /\ cpu' = [cpu EXCEPT !.pc = Home(cpu.pc) + Diff]
  /\ Goto("swap_in")
  /\ UNCHANGED <<vars, locations, rodata, loop, trap, timer, counter>>

(***************************************************************************)
(* setup_post_relocation: sscratch is relocated by swapping it into sp.    *)
(* Between the two swaps a trap would find the kernel stack in sscratch.   *)
(***************************************************************************)
SwapIn ==
  /\ At("swap_in")
  /\ cpu' = [cpu EXCEPT !.sp = cpu.sscratch, !.sscratch = cpu.sp]
  /\ Goto("add_sp")
  /\ UNCHANGED <<vars, locations, rodata, loop, trap, timer, counter>>

\* Mutant: the addition is left out.
AddSpNothing ==
  /\ At("add_sp")
  /\ Goto("swap_out")
  /\ UNCHANGED <<vars, locations, rodata, loop, cpu, trap, timer, counter>>

AddSp ==
  /\ At("add_sp")
  /\ cpu' = [cpu EXCEPT !.sp = @ + Diff]
  /\ Goto("swap_out")
  /\ UNCHANGED <<vars, locations, rodata, loop, trap, timer, counter>>

SwapOut ==
  /\ At("swap_out")
  /\ cpu' = [cpu EXCEPT !.sp = cpu.sscratch, !.sscratch = cpu.sp]
  /\ Goto("relocate_sp")
  /\ UNCHANGED <<vars, locations, rodata, loop, trap, timer, counter>>

\* addi, sd to the stack, then the first relocate_reg.
RelocateSp ==
  /\ At("relocate_sp")
  /\ cpu' = [cpu EXCEPT !.sp = Relocate(@)]
  /\ Goto("relocate_gp")
  /\ UNCHANGED <<vars, locations, rodata, loop, trap, timer, counter>>

\* Mutant: registers are skipped.
RelocateGpOnly ==
  /\ At("relocate_gp")
  /\ cpu' = [cpu EXCEPT !.gp = Relocate(@)]
  /\ Goto("kernel_main")
  /\ UNCHANGED <<vars, locations, rodata, loop, trap, timer, counter>>

\* relocate_reg for gp and the registers after it, and add for fp, s2 and t0,
\* whatever they hold.
RelocateOthers(x) == [moved |-> Relocate(x.moved), shifted |-> x.shifted + Diff]

RelocateGp ==
  /\ At("relocate_gp")
  /\ cpu' = [cpu EXCEPT !.gp = Relocate(@), !.x = RelocateOthers(@)]
  /\ Goto("kernel_main")
  /\ UNCHANGED <<vars, locations, rodata, loop, trap, timer, counter>>

InLowRam(word) == word.value \in KernelPage..(RamPage + RamPages - 1)

\* modify_rodata_ptrs: every word before the first one that is no address in
\* low RAM moves.
ModifyRodata(words) ==
  [k \in DOMAIN words |->
     IF \A j \in 1..k : InLowRam(words[j])
     THEN [words[k] EXCEPT !.value = @ + Diff] ELSE words[k]]

\* Mutant: unmapping begins behind the image's first page.
KernelMainStartsLate ==
  /\ At("kernel_main")
  /\ rodata' = ModifyRodata(rodata)
  /\ counter' = 69 % CounterMod
  /\ page' = KernelPage + 1
  /\ Goto("unmap")
  /\ UNCHANGED <<vars, locations, slot, cpu, trap, timer>>

\* modify_rodata_ptrs(), then kernel_main() up to its first call.
KernelMain ==
  /\ At("kernel_main")
  /\ rodata' = ModifyRodata(rodata)
  /\ counter' = 69 % CounterMod
  /\ page' = KernelPage
  /\ Goto("unmap")
  /\ UNCHANGED <<vars, locations, slot, cpu, trap, timer>>

\* Mutant: the loop ends before the page behind the image.
UnmapLowerHalfTooShort ==
  /\ At("unmap")
  /\ CallUnmapPage(NULL, page, MAP_PAGE)
  /\ page' = page + 1
  /\ Goto(IF page + 1 = KernelEndPage THEN "load_elf" ELSE "unmap")
  /\ UNCHANGED <<locations, rodata, slot, cpu, trap, timer, counter>>

\* unmap_lower_half_kernel(), one page too many as well; its current_pt() is
\* the table nullptr stands for, and is reached through the window.
UnmapLowerHalf ==
  /\ At("unmap")
  /\ CallUnmapPage(NULL, page, MAP_PAGE)
  /\ page' = page + 1
  /\ Goto(IF page = KernelEndPage THEN "load_elf" ELSE "unmap")
  /\ UNCHANGED <<locations, rodata, slot, cpu, trap, timer, counter>>

\* load_elf() reads a file inside the image, prints, and changes nothing.
LoadElf ==
  /\ At("load_elf")
  /\ Goto("print")
  /\ UNCHANGED <<vars, locations, rodata, loop, cpu, trap, timer, counter>>

PrintCounter ==
  /\ At("print")
  /\ Goto("wfi")
  /\ UNCHANGED <<vars, locations, rodata, loop, cpu, trap, timer, counter>>

\* wfi: the hart sleeps; hardware may also treat it as a nop and go on.
Wfi ==
  /\ At("wfi")
  /\ Goto("asleep")
  /\ UNCHANGED <<vars, locations, rodata, loop, cpu, trap, timer, counter>>

WakeUp ==
  /\ At("asleep")
  /\ Goto("ecall")
  /\ UNCHANGED <<vars, locations, rodata, loop, cpu, trap, timer, counter>>

-----------------------------------------------------------------------------
(***************************************************************************)
(* Traps (src/trap.c).  Taking one disables interrupts, and the handler's  *)
(* first instruction swaps sp and sscratch.  `regs` is the register_state_t*)
(* it saves on the trap stack, with sepc, the instruction interrupted and  *)
(* its page, in its field mepc; `saved` is a history of the context the    *)
(* trap interrupted, which no step reads.  The handler, compiled C, uses   *)
(* the registers saved.                                                    *)
(***************************************************************************)
Regs(step, c) == [mepc |-> [at |-> step, pc |-> c.pc], x |-> c.x]

Clobbered == [moved |-> 0, shifted |-> 0]

TakeTrap(cause, step) ==
  /\ CanStep
  /\ trap' = [cause |-> cause, regs |-> Regs(step, cpu), done |-> FALSE, saved |-> cpu]
  /\ cpu' = [cpu EXCEPT !.pc = cpu.stvec, !.sp = cpu.sscratch,
                        !.sscratch = cpu.sp, !.sie = FALSE]
  /\ UNCHANGED <<vars, locations, rodata, at, loop, timer, counter>>

\* An interrupt that ends a wfi returns to the instruction after it.
Interrupt ==
  /\ InterruptDue
  /\ TakeTrap("timer", IF at = "asleep" THEN "ecall" ELSE at)

Ecall ==
  /\ At("ecall")
  /\ TakeTrap("ecall", "ecall")

\* Mutant: the timer is not rearmed.
HandleInterruptOnce ==
  /\ trap.cause = "timer" /\ ~trap.done /\ CanStep
  /\ counter' = (counter + 1) % CounterMod
  /\ trap' = [trap EXCEPT !.done = TRUE]
  /\ cpu' = [cpu EXCEPT !.x = Clobbered]
  /\ UNCHANGED <<vars, locations, rodata, at, loop, timer>>

\* handle_interrupt: counter++, mtimecmp = mtime + 1000000.
HandleInterrupt ==
  /\ trap.cause = "timer" /\ ~trap.done /\ CanStep
  /\ counter' = (counter + 1) % CounterMod
  /\ timer' = "armed"
  /\ trap' = [trap EXCEPT !.done = TRUE]
  /\ cpu' = [cpu EXCEPT !.x = Clobbered]
  /\ UNCHANGED <<vars, locations, rodata, at, loop>>

\* handle_trap for TRAP_S_ECALL: mepc += 4, the jump back to the loop's head.
HandleEcall ==
  /\ trap.cause = "ecall" /\ ~trap.done /\ CanStep
  /\ trap' = [trap EXCEPT !.done = TRUE, !.regs.mepc.at = "print"]
  /\ cpu' = [cpu EXCEPT !.x = Clobbered]
  /\ UNCHANGED <<vars, locations, rodata, at, loop, timer, counter>>

\* Mutant: sp is restored, but not swapped back with sscratch.
ReturnWithoutSwap ==
  /\ trap # NoTrap /\ trap.done /\ CanStep
  /\ cpu' = [cpu EXCEPT !.pc = trap.regs.mepc.pc, !.sp = cpu.sscratch, !.sie = TRUE,
                        !.x = trap.regs.x]
  /\ Goto(trap.regs.mepc.at)
  /\ trap' = NoTrap
  /\ UNCHANGED <<vars, locations, rodata, loop, timer, counter>>

\* The tail of naked_trap_handler: the registers, csrrw sp, sscratch, sp; sret.
ReturnFromTrap ==
  /\ trap # NoTrap /\ trap.done /\ CanStep
  /\ cpu' = [cpu EXCEPT !.pc = trap.regs.mepc.pc, !.sp = cpu.sscratch,
                        !.sscratch = cpu.sp, !.sie = TRUE, !.x = trap.regs.x]
  /\ Goto(trap.regs.mepc.at)
  /\ trap' = NoTrap
  /\ UNCHANGED <<vars, locations, rodata, loop, timer, counter>>

(***************************************************************************)
(* Touching an unmapped page traps; the default case of handle_trap, or a  *)
(* trap whose handler is missing or not mapped, never comes back.          *)
(***************************************************************************)
PageFault ==
  /\ ~halted /\ ~Able
  /\ halted' = TRUE
  /\ UNCHANGED <<frames, mem, pt, satp, level, data, last, machine>>

(***************************************************************************)
(* The environment: mtime reaches mtimecmp.  handle_interrupt sets it      *)
(* 1000000 ticks ahead, so not before it has returned.                     *)
(***************************************************************************)
Tick ==
  /\ timer = "armed"
  /\ ~(trap.cause = "timer" /\ trap.done)
  /\ timer' = "fired"
  /\ UNCHANGED <<vars, locations, rodata, at, loop, cpu, trap, counter>>

HangForEver == halted /\ UNCHANGED bootVars

Kernel ==
  \/ Start \/ KernelStart \/ SetPriv \/ EnablePaging \/ GoLive \/ PrintSatp \/ InitTraps \/ EnableInterrupts
  \/ JumpHigh \/ SwapIn \/ AddSp \/ SwapOut \/ RelocateSp \/ RelocateGp
  \/ KernelMain \/ UnmapLowerHalf \/ LoadElf \/ PrintCounter \/ Wfi
  \/ Ecall

Handler == Interrupt \/ HandleInterrupt \/ HandleEcall \/ ReturnFromTrap

NextBoot == Kernel \/ WakeUp \/ Handler \/ PageFault \/ Tick \/ HangForEver

(***************************************************************************)
(* Fairness.  The processor executes instructions, and mtime advances.     *)
(* The main program itself advances although the timer may interrupt it    *)
(* again and again: handle_interrupt sets mtimecmp 1000000 ticks ahead,    *)
(* which leaves time for more than one instruction.  (This is strong       *)
(* fairness of Kernel, with ENABLED Kernel spelled out as KernelIsNext.)   *)
(* No fairness is assumed of WakeUp: only an interrupt is sure to end wfi. *)
(***************************************************************************)
KernelIsNext == at # "asleep" /\ At(at)

Fairness ==
  /\ []<>KernelIsNext => []<><<Kernel>>_bootVars
  /\ WF_bootVars(Handler) /\ WF_bootVars(PageFault) /\ WF_bootVars(Tick)

SpecBoot == InitBoot /\ [][NextBoot]_bootVars /\ Fairness

-----------------------------------------------------------------------------

Steps ==
  {"start", "kernel_start", "set_priv", "write_satp", "print_satp", "init_traps",
   "enable_interrupts", "jump", "swap_in", "add_sp", "swap_out", "relocate_sp",
   "relocate_gp", "kernel_main", "unmap", "load_elf", "print", "wfi", "asleep", "ecall"}
    \cup Mapping

TypeOKBoot ==
  /\ TypeOK
  /\ locations \in Locations
  /\ at \in Steps /\ page \in Nat /\ slot \in Nat
  /\ cpu \in [pc : Nat, sp : Nat, gp : Nat, sscratch : Nat, stvec : Nat,
              sie : BOOLEAN, x : [moved : Nat, shifted : Nat], mode : 0..3, mpp : 0..3,
              delegated : BOOLEAN, pmp : BOOLEAN]
  /\ timer \in {"armed", "fired", "never"}
  /\ counter \in 0..(CounterMod - 1)

\* The pages enable_paging maps for the devices.
Devices ==
  UNION {StartPage(locations[n])..EndPage(locations[n]) :
           n \in {n \in DOMAIN locations : ~Unused(locations[n])}}

\* All the virtual pages enable_paging maps.
LowImage == KernelPage..KernelEndPage
HighImage == HighPage..(HighPage + KernelPages)
RamWindow == (WindowPage + RamPage)..(WindowPage + RamPage + RamPages - 1)
Needed == LowImage \cup HighImage \cup Devices \cup RamWindow

\* The tables it takes, the root included.
TablesNeeded ==
  1 + Cardinality({v \div (Fanout * Fanout) : v \in Needed})
    + Cardinality({v \div Fanout : v \in Needed})

\* There are frames of RAM for them.
EnoughFrames ==
  TablesNeeded <= Cardinality({f \in Frame \ BootFrames : f < RamPages})

\* The steps of kernel_main() behind unmap_lower_half_kernel().
InMain == {"load_elf", "print", "wfi", "asleep", "ecall"}

(***************************************************************************)
(* What modify_rodata_ptrs needs of the linker (the TODO of main.c:21):    *)
(* pointers first, and behind them a word that is no address in low RAM.   *)
(***************************************************************************)
PointersFirst ==
  \A k \in DOMAIN rodata :
    rodata[k].pointer <=>
      \A j \in 1..k : rodata[j].linked \in KernelPage..(RamPage + RamPages - 1)

(***************************************************************************)
(* What the boot needs of the device tree, of the board and of the image:  *)
(* the two devices the kernel and its handler use, frames of RAM for the   *)
(* tables, and jump tables that can be found.  Nothing in the code checks  *)
(* it.                                                                     *)
(***************************************************************************)
Adequate ==
  /\ {UartPage, ClintPage} \subseteq Devices
  /\ EnoughFrames
  /\ PointersFirst

(***************************************************************************)
(* On an adequate board the kernel never hangs: from satp on, every page   *)
(* the kernel or a handler touches is mapped, and to the page meant,       *)
(* whenever an interrupt strikes: while the kernel still runs low with its *)
(* handler high, between the two swaps of setup_post_relocation, and while *)
(* the low half is unmapped.                                               *)
(***************************************************************************)
BootNeverFaults == Adequate => ~halted

(***************************************************************************)
(* Nothing checks that the board is adequate, and the results of map_page  *)
(* are ignored; still no other board reaches the loop of kernel_main with  *)
(* a part of its address space missing or a pointer that leads nowhere: it *)
(* hangs before.  When the kernel has printed behind load_elf, the UART    *)
(* was among the devices mapped, there were frames for all the tables, and *)
(* every jump table leads into the high image.  (Only the CLINT may be     *)
(* missing: until the first interrupt nothing needs it.)                   *)
(***************************************************************************)
Looping == {"print", "wfi", "asleep", "ecall"}

OnlyAdequateBoardsRun ==
  at \in Looping =>
    /\ UartPage \in Devices
    /\ EnoughFrames
    /\ \A k \in DOMAIN rodata :
         rodata[k].pointer => rodata[k].value = rodata[k].linked + Diff

(***************************************************************************)
(* When setup_post_relocation has gone through the registers, none of them *)
(* holds an address of the low image, which is unmapped next: not in the   *)
(* kernel, not in a handler, and not in what a handler will restore.       *)
(***************************************************************************)
Relocated == InMain \cup {"kernel_main", "unmap"}

Addresses(c) ==
  {c.pc, c.sp, c.gp, c.sscratch, c.stvec, c.x.moved, c.x.shifted}

NoLowAddressIsLeft ==
  at \in Relocated =>
    /\ \A a \in Addresses(cpu) : ~InImage(a)
    /\ trap # NoTrap =>
         \A a \in {trap.regs.mepc.pc, trap.regs.x.moved, trap.regs.x.shifted} : ~InImage(a)

(***************************************************************************)
(* What a trap interrupts is resumed with the registers it had, whichever  *)
(* stacks sp and sscratch pointed to; interrupts are enabled again.        *)
(***************************************************************************)
TrapsAreTransparent ==
  [][(trap # NoTrap /\ trap' = NoTrap) =>
       /\ cpu' = [trap.saved EXCEPT !.sie = TRUE]
       /\ at' = IF trap.cause = "ecall" THEN "print"
                ELSE IF at = "asleep" THEN "ecall" ELSE at]_bootVars

(***************************************************************************)
(* The address space kernel_main() goes on with, page by page: the image   *)
(* high (and the page after it), the devices and the window on RAM; and    *)
(* nothing in the low half is left of the image.                           *)
(***************************************************************************)
Expected(v) ==
  CASE v \in HighImage          -> v - Diff
    [] v \in RamWindow          -> v - WindowPage
    [] v \in Devices \ LowImage -> v
    [] OTHER                    -> Fault

BootedAddressSpace ==
  at \in InMain => \A v \in Vpn : Translate(mem, satp, v) = Expected(v)

(***************************************************************************)
(* The boot, seen as what it does to the address space and where the       *)
(* kernel runs (a handler runs where the kernel it interrupted did): no    *)
(* interrupt, no overlap of the regions and no order of the calls makes    *)
(* paging go on before every page is there, the kernel jump before it can  *)
(* go on where it lands, a page of the image go while the kernel uses it,  *)
(* or kernel_main go on while one is left; and from then on nothing moves. *)
(***************************************************************************)
KernelPc == IF trap = NoTrap THEN cpu.pc ELSE trap.saved.pc

Target(v) ==
  IF v \in HighImage THEN v - Diff ELSE IF v \in RamWindow THEN v - WindowPage ELSE v

Plan == INSTANCE BootPlan WITH
          Page <- Vpn, Low <- LowImage, Distance <- Diff, Unmapped <- Fault,
          plan <- [v \in Needed |-> Target(v)],
          space <- [v \in Vpn |-> Translate(mem, pt, v)],
          paging <- satp # NULL,
          half <- IF KernelPc >= HighPage THEN "high" ELSE "low",
          stage <- IF halted THEN "stuck" ELSE IF at \in InMain THEN "main" ELSE "boot"

BootFollowsPlan == Plan!Spec

(***************************************************************************)
(* On an adequate board the kernel loops for ever: each wfi ends, each     *)
(* ecall comes back past itself, and the timer does not starve the loop.   *)
(* Nothing in the kernel arms the timer for the first time: it must be     *)
(* armed from reset.                                                       *)
(***************************************************************************)
MainLoopRuns ==
  [](Adequate /\ timer # "never" => <>(at = "print") /\ <>(at = "asleep"))

(***************************************************************************)
(* What page.c:176 and :180 say the first loop of enable_paging maps,      *)
(* "kernel pages" and "Higher-half kernel maps": whatever the high half    *)
(* below the window translates to is a page of the kernel image.           *)
(***************************************************************************)
KernelWindowIsKernel ==
  satp # NULL =>
    \A v \in HighPage..(WindowPage + RamPage - 1) :
      Translate(mem, satp, v) \in {Fault} \cup (KernelPage..(KernelEndPage - 1))
=============================================================================
