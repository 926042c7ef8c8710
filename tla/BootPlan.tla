------------------------------ MODULE BootPlan ------------------------------
(***************************************************************************)
(* What the boot does to the address space and where the kernel runs, with *)
(* no page tables, registers, loops or interrupts.  The plan says which    *)
(* virtual pages are needed and where they lead.  Its low pages, those the *)
(* kernel was loaded to, have an alias in the high half.                   *)
(*                                                                         *)
(* The space is filled page by page while paging is off; paging goes on    *)
(* when all of the plan is there; only then does the kernel move to the    *)
(* high half, and only from there does it take the low pages away, one by  *)
(* one.  kernel_main goes on when the last of them is gone, and nothing    *)
(* changes after that.  It may get stuck at any time, and stays so.        *)
(***************************************************************************)
EXTENDS Integers

CONSTANTS
  Page,      \* the virtual pages
  Low,       \* the pages the kernel was loaded to
  Distance,  \* from a low page to its alias
  Unmapped   \* no physical page

VARIABLES
  plan,      \* the pages needed, and where each leads
  space,     \* where each page leads now, or Unmapped
  paging,    \* whether addresses are translated
  half,      \* where the kernel runs: "low" or "high"
  stage      \* "boot", "main" or "stuck"

planVars == <<plan, space, paging, half, stage>>

Needed == DOMAIN plan
Filled == \A v \in Needed : space[v] = plan[v]
LowIsGone == \A v \in Low : space[v] = Unmapped

Init ==
  /\ Low \subseteq Needed /\ Needed \subseteq Page
  /\ \A v \in Low : v + Distance \in Needed /\ plan[v + Distance] = plan[v]
  /\ space = [v \in Page |-> Unmapped]
  /\ paging = FALSE /\ half = "low" /\ stage = "boot"

Map ==
  /\ stage = "boot" /\ ~paging
  /\ \E v \in Needed : space' = [space EXCEPT ![v] = plan[v]]
  /\ UNCHANGED <<plan, paging, half, stage>>

TurnOn ==
  /\ stage = "boot" /\ ~paging /\ Filled
  /\ paging' = TRUE
  /\ UNCHANGED <<plan, space, half, stage>>

MoveHigh ==
  /\ stage = "boot" /\ paging /\ half = "low" /\ Filled
  /\ half' = "high"
  /\ UNCHANGED <<plan, space, paging, stage>>

Remove ==
  /\ stage = "boot" /\ half = "high"
  /\ \E v \in Low : space' = [space EXCEPT ![v] = Unmapped]
  /\ stage' = IF LowIsGone' THEN "main" ELSE "boot"
  /\ UNCHANGED <<plan, paging, half>>

GetStuck ==
  /\ stage' = "stuck"
  /\ UNCHANGED <<plan, space, paging, half>>

Next == Map \/ TurnOn \/ MoveHigh \/ Remove \/ GetStuck

Spec == Init /\ [][Next]_planVars
=============================================================================
