---------------------------- MODULE AddressSpace ----------------------------
(***************************************************************************)
(* What the kernel uses page tables for, without page tables: an address   *)
(* space is a partial function from virtual to physical pages.  A call     *)
(* names a block of pages.  Mapping installs that block, of which no page  *)
(* was mapped before; unmapping removes it; allocating chooses a page that *)
(* is not mapped and one of memory.  A call may be refused.  Nothing else  *)
(* ever changes: no page outside the block moves, appears or disappears.   *)
(***************************************************************************)
EXTENDS Integers

CONSTANTS
  Vpn,         \* the virtual pages, 0..n
  MapSizes,    \* the sizes of block, in pages, that Map may install
  UnmapSizes,  \* and that Unmap may remove
  Ppn,         \* the physical pages Map may install
  AllocVpn,    \* the virtual pages Allocate chooses from
  AllocPpn,    \* and the physical ones
  Unmapped     \* no physical page

VARIABLES
  space,       \* the physical page of each virtual page
  call         \* the last call: the operation, and the block it was done for

vars == <<space, call>>

\* `pages` pages from virtual page vpn on, at physical page ppn on.
Called(op, vpn, pages, ppn) ==
  [op |-> op, block |-> [vpn |-> vpn, pages |-> pages, ppn |-> ppn]]

Init ==
  /\ space = [v \in Vpn |-> Unmapped]
  /\ call = Called("init", 0, 0, 0)

Block(v, n) == {u \in Vpn : v <= u /\ u < v + n}

Install(v, n, p) ==
  /\ \A u \in Block(v, n) : space[u] = Unmapped
  /\ space' = [u \in Vpn |-> IF u \in Block(v, n) THEN p + (u - v) ELSE space[u]]

Map(v, n, p) ==
  /\ call' = Called("map", v, n, p)
  /\ v % n = 0 /\ p % n = 0
  /\ Install(v, n, p)

Allocate(v, p) ==
  /\ call' = Called("allocate", v, 1, p)
  /\ Install(v, 1, p)

Unmap(v, n) ==
  /\ call' = Called("unmap", v, n, 0)
  /\ v % n = 0
  /\ space' = [u \in Vpn |-> IF u \in Block(v, n) THEN Unmapped ELSE space[u]]

Refuse(op) ==
  /\ call' = Called(op, 0, 0, 0)
  /\ UNCHANGED space

Next ==
  \/ \E v \in Vpn, n \in MapSizes, p \in Ppn : Map(v, n, p)
  \/ \E v \in AllocVpn, p \in AllocPpn : Allocate(v, p)
  \/ \E v \in Vpn, n \in UnmapSizes : Unmap(v, n)
  \/ \E op \in {"map", "allocate", "unmap"} : Refuse(op)

Spec == Init /\ [][Next]_vars
=============================================================================
