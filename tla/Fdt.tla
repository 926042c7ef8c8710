--------------------------------- MODULE Fdt ---------------------------------
(***************************************************************************)
(* The device tree parser of src/fdt.c: print_fdt_info checks the header,  *)
(* parse_dt_struct reads one token after the other and records the regions *)
(* of the `reg` properties in device_information.  One action per token;   *)
(* recording the regions of one property takes a step per region, like the *)
(* loop.  Tokens that only print (FDT_NOP, other properties, no token at   *)
(* all) change nothing and are stuttering steps.                           *)
(*                                                                         *)
(* The blob is chosen token by token: a tree with the properties of a node *)
(* before its children, as the format demands, none outside a node and no  *)
(* `reg` at the root or in part of a region; except that FDT_END_NODE and  *)
(* FDT_BEGIN_NODE may come when no node is open, which the parser answers  *)
(* with a warning, and FDT_END at any time.                                *)
(***************************************************************************)
EXTENDS Integers, Sequences

CONSTANTS
  Levels,      \* length of node_arr, address_cells_arr, size_cells_arr: 32
  Slots,       \* length of mapped_locations: 64
  Word,        \* 2^32: cells are the digits of a 64-bit number
  Names,       \* names of nodes below the root, by the prefix that counts
  CellCounts,  \* values of #address-cells and #size-cells considered
  Garbage,     \* what element -1 of the arrays may hold
  RegValues,   \* values of `reg` considered, as sequences of cells
  Beyond,      \* sequences of cells that may follow the value in memory
  MaxNodes     \* bound on the nodes of a blob

ASSUME FdtAssumption ==
  /\ Levels \in Nat \ {0} /\ Slots \in Nat /\ Word \in Nat \ {0}
  /\ CellCounts \subseteq Nat /\ Garbage \subseteq Nat
  /\ RegValues \subseteq Seq(0..(Word - 1)) /\ Beyond \subseteq Seq(0..(Word - 1))
  /\ MaxNodes \in Nat

VARIABLES
  at,            \* "header", "token", "regions" (inside a `reg`), or "done"
  node_index,
  node_arr,      \* the name of the node at each level
  address_cells, size_cells,
  slots,         \* device_information.mapped_locations
  ram,           \* device_information.ram_start and ram_size
  dtb,           \* whether device_information.dtb and dtb_size are set
  todo,          \* the regions of the current `reg` still to be recorded
  open,          \* history: the open nodes of the tree and what they declared
  nodes,         \* history: how many nodes have begun
  regions,       \* history: the regions the tree gives its devices
  plain          \* history: the blob is a tree the parser is meant for

level == <<node_index, node_arr>>
cells == <<address_cells, size_cells>>
device_information == <<slots, ram, dtb>>
parser == <<at, level, cells, device_information, todo>>
tree == <<open, nodes, regions, plain>>
vars == <<parser, tree>>

Level == 0..(Levels - 1)
Region == [address : Nat, size : Nat]
NoRegion == [address |-> 0, size |-> 0]

None == -1         \* a property the node does not have (so far)
\* The root has no name in the blob; it is called "root" here.
Node == [name : Names \cup {"root"}, address : CellCounts \cup {None},
         size : CellCounts \cup {None}, reg : BOOLEAN, children : BOOLEAN]

Depth == Len(open)
Top == open[Depth]

Init ==
  /\ at = "header"
  /\ node_index = -1
  /\ node_arr = [l \in Level |-> "none"]
  /\ address_cells = [l \in Level |-> IF l = 0 THEN 1 ELSE 0]
  /\ size_cells = [l \in Level |-> IF l = 0 THEN 1 ELSE 0]
  /\ slots = [s \in 1..Slots |-> NoRegion]
  /\ ram = NoRegion /\ dtb = FALSE
  /\ todo = << >>
  /\ open = << >> /\ nodes = 0 /\ regions = {} /\ plain = TRUE

\* print_fdt_info(): with another magic number it returns -1 at once.
CheckHeader(valid) ==
  /\ at = "header"
  /\ at' = IF valid THEN "token" ELSE "done"
  /\ dtb' = valid
  /\ UNCHANGED <<level, cells, slots, ram, todo, tree>>

BeginNode(name) ==
  /\ at = "token"
  /\ nodes < MaxNodes /\ node_index + 1 \in Level
  /\ name = "root" <=> open = << >>
  /\ node_index' = node_index + 1
  /\ node_arr' = [node_arr EXCEPT ![node_index + 1] = name]
  /\ open' = Append(IF open = << >> THEN open
                    ELSE [open EXCEPT ![Depth].children = TRUE],
                    [name |-> name, address |-> None, size |-> None,
                     reg |-> FALSE, children |-> FALSE])
  /\ nodes' = nodes + 1
  /\ plain' = (plain /\ (open = << >> => nodes = 0))
  /\ UNCHANGED <<at, cells, device_information, todo, regions>>

\* What element -1 of an array is, or element l.
CellsAt(counts, l) == IF l = -1 THEN Garbage ELSE {counts[l]}

FillFrom(counts, from, n) == [l \in Level |-> IF l >= from THEN n ELSE counts[l]]

\* Mutant: the counts of the node that ends stay in force.
EndNodeKeepsCells ==
  /\ at = "token"
  /\ node_index' = IF node_index - 1 < -1 THEN -1 ELSE node_index - 1
  /\ open' = IF open = << >> THEN open ELSE SubSeq(open, 1, Depth - 1)
  /\ plain' = (plain /\ open # << >>)
  /\ UNCHANGED <<at, node_arr, cells, device_information, todo, nodes, regions>>

\* Mutant: no lower bound on node_index.
EndNodeUnbounded ==
  /\ at = "token" /\ node_index > -2
  /\ node_index' = node_index - 1
  /\ open' = IF open = << >> THEN open ELSE SubSeq(open, 1, Depth - 1)
  /\ plain' = (plain /\ open # << >>)
  /\ UNCHANGED <<at, node_arr, cells, device_information, todo, nodes, regions>>

(***************************************************************************)
(* FDT_END_NODE: deeper levels get the counts of the level returned to.    *)
(* For the end of the root that is element -1 of the arrays.               *)
(***************************************************************************)
EndNode ==
  /\ at = "token"
  /\ node_index' = IF node_index - 1 < -1 THEN -1 ELSE node_index - 1
  /\ \E a \in CellsAt(address_cells, node_index') :
       address_cells' = FillFrom(address_cells, node_index' + 1, a)
  /\ \E s \in CellsAt(size_cells, node_index') :
       size_cells' = FillFrom(size_cells, node_index' + 1, s)
  /\ open' = IF open = << >> THEN open ELSE SubSeq(open, 1, Depth - 1)
  /\ plain' = (plain /\ open # << >>)
  /\ UNCHANGED <<at, node_arr, device_information, todo, nodes, regions>>

\* A property of the innermost open node.
InProperty == at = "token" /\ open # << >> /\ ~Top.children

AddressCells(n) ==
  /\ InProperty /\ Top.address = None
  /\ address_cells' = FillFrom(address_cells, node_index, n)
  /\ open' = [open EXCEPT ![Depth].address = n]
  /\ UNCHANGED <<at, level, size_cells, device_information, todo, nodes, regions, plain>>

SizeCells(n) ==
  /\ InProperty /\ Top.size = None
  /\ size_cells' = FillFrom(size_cells, node_index, n)
  /\ open' = [open EXCEPT ![Depth].size = n]
  /\ UNCHANGED <<at, level, address_cells, device_information, todo, nodes, regions, plain>>

-----------------------------------------------------------------------------
(***************************************************************************)
(* What the tree says: `reg` is a list of regions whose addresses and      *)
(* sizes have the numbers of cells the parent declares, 2 and 1 if it      *)
(* declares none.  Numbers of more than two cells do not fit an address.   *)
(***************************************************************************)
Parent == open[Depth - 1]
TrueCells ==
  [address |-> IF Parent.address = None THEN 2 ELSE Parent.address,
   size    |-> IF Parent.size = None THEN 1 ELSE Parent.size]

Number(words, from, n) ==
  CASE n = 0 -> 0
    [] n = 1 -> words[from]
    [] OTHER -> words[from + n - 2] * Word + words[from + n - 1]

RegionsOf(words, counts) ==
  LET stride == counts.address + counts.size
  IN  {[address |-> Number(words, i * stride + 1, counts.address),
        size    |-> Number(words, i * stride + 1 + counts.address, counts.size)] :
         i \in 0..((Len(words) \div stride) - 1)}

(***************************************************************************)
(* The trees the parser is meant for: parents declare both counts, 2 and   *)
(* 2 or 2 and 0, and a node with a `reg` does not declare others before it.*)
(***************************************************************************)
Supported ==
  /\ Parent.address = 2 /\ Parent.size \in {0, 2}
  /\ Top.address \in {None, Parent.address}
  /\ Top.size \in {None, Parent.size}

-----------------------------------------------------------------------------
\* swapb64(CAST(uint64_t*, ptr)[k])
Swapb64(words, k) == words[2 * k + 1] * Word + words[2 * k + 2]

\* Mutant: the pairs overlap.
DecodeOverlapping(words, ranges, sizeCells) ==
  [k \in 1..ranges |->
     IF sizeCells = 0
     THEN [address |-> Swapb64(words, k - 1), size |-> 0]
     ELSE [address |-> Swapb64(words, k - 1), size |-> Swapb64(words, k)]]

(***************************************************************************)
(* What the loop over the ranges reads, always 64-bit numbers: one per     *)
(* range without sizes, else two.                                          *)
(***************************************************************************)
Decode(words, ranges, sizeCells) ==
  [k \in 1..ranges |->
     IF sizeCells = 0
     THEN [address |-> Swapb64(words, k - 1), size |-> 0]
     ELSE [address |-> Swapb64(words, 2 * k - 2), size |-> Swapb64(words, 2 * k - 1)]]

\* len / 4 / (size_cells + address_cells); by zero, the hardware answers -1.
Ranges(words, addressCells, sizeCells) ==
  IF addressCells + sizeCells = 0 THEN -1
  ELSE Len(words) \div (addressCells + sizeCells)

\* `reg` in a node below the root, a list of whole regions.
InReg(words) ==
  LET n == TrueCells.address + TrueCells.size
  IN  /\ InProperty /\ Depth > 1 /\ ~Top.reg
      /\ n # 0 /\ Len(words) % n = 0
      /\ open' = [open EXCEPT ![Depth].reg = TRUE]

CpuReg(words) ==
  /\ InReg(words)
  /\ node_arr[node_index] = "cpu"
  /\ UNCHANGED <<parser, nodes, regions, plain>>

\* The first two 64-bit numbers, whatever the counts are.
MemoryReg(words, beyond) ==
  LET read == words \o beyond
  IN  /\ InReg(words)
      /\ node_arr[node_index] = "memory"
      /\ Len(read) >= 4
      /\ ram' = [address |-> Swapb64(read, 0), size |-> Swapb64(read, 1)]
      /\ UNCHANGED <<at, level, cells, slots, dtb, todo, nodes, regions, plain>>

DeviceReg(words, beyond) ==
  LET sizeCells == size_cells[node_index]
      ranges == Ranges(words, address_cells[node_index], sizeCells)
      read == words \o beyond
  IN  /\ InReg(words)
      /\ node_arr[node_index] \notin {"cpu", "memory"}
      /\ Len(read) >= (IF sizeCells = 0 THEN 2 ELSE 4) * ranges
      /\ todo' = Decode(read, ranges, sizeCells)
      /\ at' = "regions"
      /\ regions' = regions \cup RegionsOf(words, TrueCells)
      /\ plain' = (plain /\ Supported)
      /\ UNCHANGED <<level, cells, device_information, nodes>>

\* Mutant: a slot without a size counts as free.
FreeSlotsBySize == {s \in 1..Slots : slots[s].size = 0}

FreeSlots == {s \in 1..Slots : slots[s] = NoRegion}
Least(S) == CHOOSE s \in S : \A t \in S : s <= t

\* One range: the first slot that is all zero; if there is none, break.
RecordRegion ==
  /\ at = "regions" /\ todo # << >>
  /\ IF FreeSlots = {}
     THEN todo' = << >> /\ UNCHANGED slots
     ELSE todo' = Tail(todo) /\ slots' = [slots EXCEPT ![Least(FreeSlots)] = Head(todo)]
  /\ UNCHANGED <<at, level, cells, ram, dtb, tree>>

RegionsDone ==
  /\ at = "regions" /\ todo = << >>
  /\ at' = "token"
  /\ UNCHANGED <<level, cells, device_information, todo, tree>>

\* FDT_END, with a warning if nodes are open.
End ==
  /\ at = "token"
  /\ at' = "done"
  /\ UNCHANGED <<level, cells, device_information, todo, tree>>

Next ==
  \/ \E valid \in BOOLEAN : CheckHeader(valid)
  \/ \E name \in Names \cup {"root"} : BeginNode(name)
  \/ EndNode
  \/ \E n \in CellCounts : AddressCells(n) \/ SizeCells(n)
  \/ \E words \in RegValues : CpuReg(words)
  \/ \E words \in RegValues, beyond \in Beyond :
       MemoryReg(words, beyond) \/ DeviceReg(words, beyond)
  \/ RecordRegion
  \/ RegionsDone
  \/ End

Spec == Init /\ [][Next]_vars

-----------------------------------------------------------------------------

TypeOK ==
  /\ at \in {"header", "token", "regions", "done"}
  /\ node_index \in {-1} \cup Level
  /\ node_arr \in [Level -> Names \cup {"root", "none"}]
  /\ address_cells \in [Level -> Nat] /\ size_cells \in [Level -> Nat]
  /\ slots \in [1..Slots -> Region]
  /\ ram \in Region /\ dtb \in BOOLEAN
  /\ todo \in Seq(Region)
  /\ open \in Seq(Node) /\ Depth = node_index + 1
  /\ nodes \in 0..MaxNodes
  /\ regions \subseteq Region
  /\ plain \in BOOLEAN

(***************************************************************************)
(* The two arrays follow the tree: a level has the count declared by the   *)
(* innermost open node down to it that declares one, whatever subtrees     *)
(* with other counts were open in between.                                 *)
(***************************************************************************)
Inherits(counts, declared) ==
  \A l \in Level, k \in DOMAIN declared :
    (/\ k - 1 <= l /\ declared[k] # None
     /\ \A j \in DOMAIN declared : k < j /\ j - 1 <= l => declared[j] = None)
    => counts[l] = declared[k]

AddressesDeclared == [k \in 1..Depth |-> open[k].address]
SizesDeclared == [k \in 1..Depth |-> open[k].size]

CellsFollowTheTree ==
  /\ Inherits(address_cells, AddressesDeclared)
  /\ Inherits(size_cells, SizesDeclared)

(***************************************************************************)
(* For the trees the parser is meant for, what it has recorded are regions *)
(* of the tree's devices, never of cpus and memory nodes, and a region is  *)
(* missing only if all slots are taken (or it is empty).                   *)
(***************************************************************************)
Recorded == {slots[s] : s \in DOMAIN slots} \ {NoRegion}
Pending == {todo[k] : k \in DOMAIN todo}

RegionsAreThoseOfTheTree ==
  plain =>
    /\ Recorded \subseteq regions
    /\ regions \subseteq Recorded \cup Pending \cup {NoRegion} \/ FreeSlots = {}

(***************************************************************************)
(* A recorded region is never overwritten by what follows in the blob:     *)
(* later properties, other cell counts, addresses or sizes of zero.        *)
(***************************************************************************)
RecordedRegionsStay ==
  [][\A s \in 1..Slots : slots[s] # NoRegion => slots'[s] = slots[s]]_vars
=============================================================================
