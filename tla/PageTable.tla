------------------------------ MODULE PageTable ------------------------------
(***************************************************************************)
(* The Sv39 page tables of src/page.c: map_page, unmap_page and            *)
(* allocate_a_page over the frame allocator, from the moment enable_paging *)
(* has allocated the root table.                                           *)
(*                                                                         *)
(* Memory is addressed by physical page number (ppn).  The kernel reaches  *)
(* page p at p*4096 + ident_map_addr, which is mapped exactly for the      *)
(* pages of RAM (directly before satp is written, through the window that  *)
(* identity_map_memory builds afterwards).  Touching any other page traps, *)
(* and the trap handler loops forever: `halted`.                           *)
(***************************************************************************)
EXTENDS Frames

CONSTANTS
  Fanout,      \* entries of a table: 512
  RamPage,     \* device_information.ram_start / 4096
  RamPages,    \* device_information.ram_size / 4096
  BootFrames,  \* the frames init_frames marks as allocated
  Stale,       \* what a page of RAM holds, read as a table, before memset
  CallPpns,    \* arguments of map_page considered
  CallVpns,    \* arguments of map_page and unmap_page considered
  MapTypes,    \* the map_t values map_page is called with
  UnmapTypes,  \* the map_t values unmap_page is called with
  AllocVpns    \* the range allocate_a_page searches: 0x80000..0x100000

Index == 0..(Fanout - 1)
Ram == RamPage..(RamPage + RamPages - 1)
Vpn == 0..(Fanout * Fanout * Fanout - 1)

MAP_PAGE == 3
MAP_MEGAPAGE == 2
MAP_GIGAPAGE == 1
MapType == {MAP_PAGE, MAP_MEGAPAGE, MAP_GIGAPAGE}

OK == 0
ERR_ALIGN == -1
ERR_ALREADY_MAPPED == -2
ERR_NOT_MAPPED == -3
ERR_INCORRECT_MAP_TYPE == -4
ERR_NULL_PT == -5
ERR_UNABLE_TO_MAP == -6

NULL == 0           \* nullptr; page 0 is never a table

(***************************************************************************)
(* A page table entry.  The code sets r, w and x together, so an entry is  *)
(* empty (v = 0), a pointer to a table (v = 1, r = w = x = 0) or a leaf.   *)
(***************************************************************************)
Pte == [kind : {"empty", "table", "leaf"}, ppn : Nat]
EmptyPte == [kind |-> "empty", ppn |-> 0]
TablePte(p) == [kind |-> "table", ppn |-> p]
LeafPte(p) == [kind |-> "leaf", ppn |-> p]

ASSUME PageTableAssumption ==
  /\ Fanout \in Nat /\ Fanout > 1
  /\ RamPage \in Nat /\ RamPage > 1 /\ RamPages \in Nat
  /\ BootFrames \subseteq Frame
  /\ Stale \in [Index -> Pte]
  /\ CallPpns \subseteq Nat /\ CallVpns \subseteq Vpn /\ AllocVpns \subseteq Vpn
  /\ MapTypes \subseteq MapType /\ UnmapTypes \subseteq MapType
\* At boot at least one frame of RAM is left for the root table.
ASSUME RootFrameAssumption ==
  \E f \in Frame \ BootFrames : f < RamPages

VARIABLES
  frames,   \* the frame bitmap
  mem,      \* every page of RAM, read as a page table
  pt,       \* the root table enable_paging allocated
  satp,     \* the root table in satp: NULL (bare mode), then pt
  halted,   \* the kernel touched an unmapped page and hangs in the handler
  level,    \* history: the level a page was given as a table, or -1
  data,     \* history: the pages allocate_a_page returned
  last      \* history: the last call, its result, and the block it mapped or
            \* unmapped

vars == <<frames, mem, pt, satp, halted, level, data, last>>

-----------------------------------------------------------------------------
(***************************************************************************)
(* The loops of map_page and unmap_page walk down from `table`.  A walk    *)
(* record holds what they read and write: memory, the bitmap, the table    *)
(* they stand at, and the code they return early with (OK: go on).         *)
(***************************************************************************)
Walk == [mem |-> mem, frames |-> frames, level |-> level,
         table |-> NULL, ret |-> OK, halted |-> FALSE]

VpnArr(vpn, i) ==
  CASE i = 0 -> vpn % Fanout
    [] i = 1 -> (vpn \div Fanout) % Fanout
    [] i = 2 -> (vpn \div (Fanout * Fanout)) % Fanout

Align(type) ==
  CASE type = MAP_PAGE     -> 1
    [] type = MAP_MEGAPAGE -> Fanout
    [] type = MAP_GIGAPAGE -> Fanout * Fanout

\* Mutant: the new table is linked without being zeroed.
NewTableNotZeroed(w, i) ==
  LET f == FirstFreeFrame(w.frames)
      p == FrameToPpn(RamPage, AllocateFrameResult(f))
      w1 == [w EXCEPT !.frames = AllocateFrame(w.frames, f),
                      !.mem[w.table][i] = TablePte(p)]
  IN  IF p \notin Ram THEN [w1 EXCEPT !.halted = TRUE]
      ELSE [w1 EXCEPT !.level[p] = w.level[w.table] - 1, !.table = p]

(***************************************************************************)
(* allocate_new_page_table() for entry i of w.table.  The entry becomes a  *)
(* valid pointer (still to page 0) before the frame is allocated and       *)
(* zeroed, so if the memset faults it stays that way.                      *)
(***************************************************************************)
NewTable(w, i) ==
  LET f == FirstFreeFrame(w.frames)
      p == FrameToPpn(RamPage, AllocateFrameResult(f))
      w1 == [w EXCEPT !.frames = AllocateFrame(w.frames, f),
                      !.mem[w.table][i] = TablePte(0)]
  IN  IF p \notin Ram THEN [w1 EXCEPT !.halted = TRUE]
      ELSE [w1 EXCEPT !.mem = [w1.mem EXCEPT ![p] = [k \in Index |-> EmptyPte],
                                             ![w.table][i] = TablePte(p)],
                      !.level[p] = w.level[w.table] - 1,
                      !.table = p]

\* One iteration of map_page's loop at index i of the current table.
NextTable(w, i) ==
  IF w.ret # OK \/ w.halted THEN w
  ELSE LET e == w.mem[w.table][i]
       IN  CASE e.kind = "empty" -> NewTable(w, i)
             [] e.kind = "leaf"  -> [w EXCEPT !.ret = ERR_ALREADY_MAPPED]
             [] e.kind = "table" -> [w EXCEPT !.table = e.ppn]

\* One iteration of unmap_page's loop.
FindTable(w, i) ==
  IF w.ret # OK THEN w
  ELSE LET e == w.mem[w.table][i]
       IN  CASE e.kind = "empty" -> [w EXCEPT !.ret = ERR_NOT_MAPPED]
             [] e.kind = "leaf"  -> [w EXCEPT !.ret = ERR_INCORRECT_MAP_TYPE]
             [] e.kind = "table" -> [w EXCEPT !.table = e.ppn]

(***************************************************************************)
(* for (i = type - 1; i > 0; i--) ... vpn_arr[i].  A page is walked with   *)
(* vpn_arr[2], then vpn_arr[1]; a megapage with vpn_arr[1] alone.          *)
(***************************************************************************)
MapWalk(w, vpn, type) ==
  CASE type = MAP_PAGE     -> NextTable(NextTable(w, VpnArr(vpn, 2)), VpnArr(vpn, 1))
    [] type = MAP_MEGAPAGE -> NextTable(w, VpnArr(vpn, 1))
    [] type = MAP_GIGAPAGE -> w

UnmapWalk(w, vpn, type) ==
  CASE type = MAP_PAGE     -> FindTable(FindTable(w, VpnArr(vpn, 2)), VpnArr(vpn, 1))
    [] type = MAP_MEGAPAGE -> FindTable(w, VpnArr(vpn, 1))
    [] type = MAP_GIGAPAGE -> w

\* Mutant: an existing entry is overwritten.
SetLeafOverwrites(w, i, ppn) ==
  IF w.ret # OK \/ w.halted THEN w ELSE [w EXCEPT !.mem[w.table][i] = LeafPte(ppn)]

\* map_page after its loop, at entry i of the table reached.
SetLeaf(w, i, ppn) ==
  IF w.ret # OK \/ w.halted THEN w
  ELSE IF w.mem[w.table][i].kind # "empty"
       THEN [w EXCEPT !.ret = ERR_ALREADY_MAPPED]
       ELSE [w EXCEPT !.mem[w.table][i] = LeafPte(ppn)]

\* unmap_page after its loop: any valid entry is zeroed, a pointer too.
ClearEntry(w, i) ==
  IF w.ret # OK THEN w
  ELSE IF w.mem[w.table][i].kind = "empty"
       THEN [w EXCEPT !.ret = ERR_NOT_MAPPED]
       ELSE [w EXCEPT !.mem[w.table][i] = EmptyPte]

\* The table argument, or current_pt() for nullptr.
RootOf(table) == IF table = NULL THEN satp ELSE table

\* Mutant: the alignment is checked after the walk.
MapPageAlignsLast(w, table, ppn, vpn, type) ==
  IF RootOf(table) = NULL THEN [w EXCEPT !.ret = ERR_NULL_PT]
  ELSE LET w1 == MapWalk([w EXCEPT !.table = RootOf(table)], vpn, type)
       IN  IF w1.ret = OK /\ (ppn % Align(type) # 0 \/ vpn % Align(type) # 0)
           THEN [w1 EXCEPT !.ret = ERR_ALIGN]
           ELSE SetLeaf(w1, VpnArr(vpn, 3 - type), ppn)

\* Mutant: the entry is found with the last index, whatever the size.
MapPageAtLastIndex(w, table, ppn, vpn, type) ==
  IF ppn % Align(type) # 0 \/ vpn % Align(type) # 0
  THEN [w EXCEPT !.ret = ERR_ALIGN]
  ELSE IF RootOf(table) = NULL THEN [w EXCEPT !.ret = ERR_NULL_PT]
  ELSE SetLeaf(MapWalk([w EXCEPT !.table = RootOf(table)], vpn, type),
               VpnArr(vpn, 0), ppn)

\* map_page(table, ppn, vpn, type), run on the memory of walk w.
MapPage(w, table, ppn, vpn, type) ==
  IF ppn % Align(type) # 0 \/ vpn % Align(type) # 0
  THEN [w EXCEPT !.ret = ERR_ALIGN]
  ELSE IF RootOf(table) = NULL THEN [w EXCEPT !.ret = ERR_NULL_PT]
  ELSE SetLeaf(MapWalk([w EXCEPT !.table = RootOf(table)], vpn, type),
               VpnArr(vpn, 3 - type), ppn)

\* unmap_page(table, vpn, type).
UnmapPage(w, table, vpn, type) ==
  IF vpn % Align(type) # 0 THEN [w EXCEPT !.ret = ERR_ALIGN]
  ELSE IF RootOf(table) = NULL THEN [w EXCEPT !.ret = ERR_NULL_PT]
  ELSE ClearEntry(UnmapWalk([w EXCEPT !.table = RootOf(table)], vpn, type),
                  VpnArr(vpn, 3 - type))

\* Mutant: the first free frame is looked up but not marked.
AllocateAPageUnmarked(w) ==
  LET ppn == FrameToPpn(RamPage, AllocateFrameResult(FirstFreeFrame(w.frames)))
      Try(vpn) == MapPage(w, NULL, ppn, vpn, MAP_PAGE)
      vpns == {vpn \in AllocVpns : Try(vpn).ret = OK}
  IN  IF vpns = {}
      THEN [walk |-> [w EXCEPT !.ret = ERR_UNABLE_TO_MAP], vpn |-> 0, ppn |-> 0]
      ELSE [walk |-> Try(Min(vpns)), vpn |-> Min(vpns), ppn |-> ppn]

(***************************************************************************)
(* allocate_a_page(): one frame, mapped at the first page of the range at  *)
(* which map_page succeeds.  A map_page that fails leaves memory as it     *)
(* was, so the loop amounts to the least page at which it does not fail.   *)
(***************************************************************************)
AllocateAPage(w) ==
  LET f == FirstFreeFrame(w.frames)
      ppn == FrameToPpn(RamPage, AllocateFrameResult(f))
      w1 == [w EXCEPT !.frames = AllocateFrame(w.frames, f)]
      Try(vpn) == MapPage(w1, NULL, ppn, vpn, MAP_PAGE)
      vpns == {vpn \in AllocVpns : Try(vpn).ret = OK}
  IN  IF vpns = {}
      THEN [walk |-> [w1 EXCEPT !.frames = DeallocateFrame(w1.frames, f),
                                !.ret = ERR_UNABLE_TO_MAP],
            vpn |-> 0, ppn |-> 0]
      ELSE [walk |-> Try(Min(vpns)), vpn |-> Min(vpns), ppn |-> ppn]

-----------------------------------------------------------------------------
(***************************************************************************)
(* The state machine.  Before satp is written map_page is given the root   *)
(* explicitly (enable_paging); afterwards callers pass nullptr.            *)
(***************************************************************************)

\* The arguments of a call: from page vpn, `pages` pages, to page ppn on.
BlockOf(vpn, pages, ppn) == [vpn |-> vpn, pages |-> pages, ppn |-> ppn]
NoBlock == BlockOf(0, 0, 0)
Sizes(types) == {Align(t) : t \in types}
Blocks == [vpn : Nat, pages : {0} \cup Sizes(MapType), ppn : Nat]

\* The bitmap after init_frames, and the first allocate_new_page_table().
BootBitmap ==
  [i \in 0..(FrameBytes - 1) |-> {j \in Bits : 8 * i + j \in BootFrames}]

Init ==
  LET root == FirstFreeFrame(BootBitmap)
  IN  /\ pt = FrameToPpn(RamPage, root)
      /\ frames = AllocateFrame(BootBitmap, root)
      /\ mem = [p \in Ram |-> IF p = pt THEN [i \in Index |-> EmptyPte] ELSE Stale]
      /\ level = [p \in Ram |-> IF p = pt THEN 2 ELSE -1]
      /\ satp = NULL
      /\ halted = FALSE
      /\ data = {}
      /\ last = [op |-> "init", ret |-> OK, block |-> NoBlock]

\* What the walk w did, as the outcome of the call `op` for a block of pages.
Commit(w, op, block) ==
  /\ mem' = w.mem
  /\ frames' = w.frames
  /\ level' = w.level
  /\ halted' = w.halted
  /\ last' = [op |-> op, ret |-> w.ret,
              block |-> IF w.ret = OK /\ ~w.halted THEN block ELSE NoBlock]

Tables == IF satp = NULL THEN {NULL, pt} ELSE {NULL}

CallMapPage(table, ppn, vpn, type) ==
  /\ ~halted
  /\ \E w \in {MapPage(Walk, table, ppn, vpn, type)} :
       Commit(w, "map", BlockOf(vpn, Align(type), ppn))
  /\ UNCHANGED <<pt, satp, data>>

CallUnmapPage(table, vpn, type) ==
  /\ ~halted
  /\ \E w \in {UnmapPage(Walk, table, vpn, type)} :
       Commit(w, "unmap", BlockOf(vpn, Align(type), 0))
  /\ UNCHANGED <<pt, satp, data>>

CallAllocateAPage ==
  /\ ~halted
  /\ \E a \in {AllocateAPage(Walk)} :
       /\ Commit(a.walk, "allocate", BlockOf(a.vpn, 1, a.ppn))
       /\ data' = IF a.walk.ret = OK /\ ~a.walk.halted THEN data \cup {a.ppn}
                                                       ELSE data
  /\ UNCHANGED <<pt, satp>>

\* The end of enable_paging(): the root table goes live.
WriteSatp ==
  /\ ~halted /\ satp = NULL
  /\ satp' = pt
  /\ UNCHANGED <<frames, mem, pt, halted, level, data, last>>

\* handle_trap(): while(1){}
Hang == halted /\ UNCHANGED vars

Next ==
  \/ \E table \in Tables, ppn \in CallPpns, vpn \in CallVpns, type \in MapTypes :
       CallMapPage(table, ppn, vpn, type)
  \/ \E table \in Tables, vpn \in CallVpns, type \in UnmapTypes :
       CallUnmapPage(table, vpn, type)
  \/ CallAllocateAPage
  \/ WriteSatp
  \/ Hang

Spec == Init /\ [][Next]_vars

-----------------------------------------------------------------------------
(***************************************************************************)
(* The hardware's walk (Sv39, privileged specification 4.3.2): what virtual*)
(* page vpn translates to under the table at page root.                    *)
(***************************************************************************)
Fault == -1

\* A leaf found at a level whose pages are n long, n-aligned.
Superpage(e, vpn, n) == IF e.ppn % n = 0 THEN e.ppn + (vpn % n) ELSE Fault

Translate(m, root, vpn) ==
  LET e2 == m[root][VpnArr(vpn, 2)]
      e1 == m[e2.ppn][VpnArr(vpn, 1)]
      e0 == m[e1.ppn][VpnArr(vpn, 0)]
  IN  CASE e2.kind = "leaf" -> Superpage(e2, vpn, Fanout * Fanout)
        [] e2.kind = "table" /\ e2.ppn \in Ram ->
             CASE e1.kind = "leaf" -> Superpage(e1, vpn, Fanout)
               [] e1.kind = "table" /\ e1.ppn \in Ram ->
                    IF e0.kind = "leaf" THEN e0.ppn ELSE Fault
               [] OTHER -> Fault
        [] OTHER -> Fault

TypeOK ==
  /\ frames \in Bitmap
  /\ mem \in [Ram -> [Index -> Pte]]
  /\ pt \in Ram /\ satp \in {NULL, pt}
  /\ halted \in BOOLEAN
  /\ level \in [Ram -> -1..2]
  /\ data \subseteq Nat
  /\ last \in [op : {"init", "map", "unmap", "allocate"},
               ret : ERR_UNABLE_TO_MAP..OK,
               block : Blocks]

TablePages == {p \in Ram : level[p] # -1}
FramesOf(pages) == {p - RamPage : p \in pages}

(***************************************************************************)
(* The tables always form a tree of fixed depth: the root is the only      *)
(* table of level 2; an entry that points to a table points one level      *)
(* down, never out of a level-0 table, and no two entries point to the     *)
(* same table; and every table sits in a frame of its own that is marked   *)
(* in the bitmap and not boot memory.  Otherwise a write through one       *)
(* mapping would change another, or the walk would take data for a table.  *)
(* Only while the kernel hangs may an entry be half made.                  *)
(***************************************************************************)
RootIsUnique == \A p \in Ram : level[p] = 2 <=> p = pt

EntriesPointDown ==
  \A p \in TablePages, i \in Index :
    mem[p][i].kind = "table" =>
      /\ mem[p][i].ppn \in Ram
      /\ level[p] > 0 /\ level[mem[p][i].ppn] = level[p] - 1

ParentsAreUnique ==
  \A p, q \in TablePages : \A i, j \in Index :
    (mem[p][i].kind = "table" /\ mem[q][j] = mem[p][i]) => (p = q /\ i = j)

TablesAreAllocated ==
  /\ FramesOf(TablePages) \cup BootFrames \subseteq Allocated(frames)
  /\ FramesOf(TablePages) \cap BootFrames = {}

TablesFormATree ==
  ~halted => RootIsUnique /\ EntriesPointDown /\ ParentsAreUnique
             /\ TablesAreAllocated

(***************************************************************************)
(* A page of RAM that allocate_a_page returned belongs to its caller: it   *)
(* holds no page table, is not boot memory and stays allocated.            *)
(***************************************************************************)
HandedOutPagesArePrivate ==
  \A p \in data \cap Ram :
    /\ level[p] = -1
    /\ p - RamPage \in Allocated(frames) \ BootFrames

(***************************************************************************)
(* allocate_a_page never returns a page twice, as long as some frame was   *)
(* free.  (With the bitmap full, allocate_frame's -1 goes unchecked and    *)
(* the page before RAM is handed out again and again.)                     *)
(***************************************************************************)
PagesAreHandedOutOnce ==
  [][(/\ last'.op = "allocate" /\ last'.ret = OK /\ ~halted'
      /\ Allocated(frames) # Frame) => data' # data]_vars

(***************************************************************************)
(* A call that returns an error leaves every table as it was, although the *)
(* tables on its way are made before the last entry is examined; and it    *)
(* costs no frame, except that a failing allocate_a_page loses one that is *)
(* beyond the bound of deallocate_frame.                                   *)
(***************************************************************************)
FailedCallsChangeNothing ==
  [][last'.ret # OK =>
       /\ mem' = mem /\ level' = level
       /\ Allocated(frames) \subseteq Allocated(frames')
       /\ \A f \in Allocated(frames') \ Allocated(frames) :
            last'.op = "allocate" /\ f >= FrameBytes]_vars

(***************************************************************************)
(* No call redirects a page: what a mapped page translates to only ever    *)
(* changes by an unmap_page that ends its translation.  Holds for every    *)
(* size, the misdirected megapages included, and when the kernel hangs     *)
(* half way.                                                               *)
(***************************************************************************)
MappingsAreStable ==
  [][\A v \in Vpn :
       LET before == Translate(mem, pt, v)
           after == Translate(mem', pt, v)
       IN  before # Fault =>
             after = before \/ (after = Fault /\ last'.op = "unmap")]_vars

(***************************************************************************)
(* The page tables implement an abstract address space when mapping pages  *)
(* and gigapages: a call that succeeds maps or unmaps exactly the block    *)
(* its arguments name (the page it returned, for allocate_a_page), and a   *)
(* call that fails moves no page.                                          *)
(***************************************************************************)
Space == INSTANCE AddressSpace WITH
           space <- [v \in Vpn |-> Translate(mem, pt, v)],
           call <- [op |-> last.op, block |-> last.block],
           MapSizes <- Sizes(MapTypes), UnmapSizes <- Sizes(UnmapTypes),
           Ppn <- CallPpns,
           AllocVpn <- AllocVpns,
           AllocPpn <- (RamPage - 1)..(RamPage + NumFrames - 1),
           Unmapped <- Fault
SpaceSpec == Space!Spec

(***************************************************************************)
(* What page.c:71 says of the entry map_page writes, "Map the page": after *)
(* a successful call vpn translates to ppn, for megapages too.             *)
(***************************************************************************)
MegapageMapsItsAddress ==
  \A ppn \in CallPpns, vpn \in CallVpns :
    LET w == MapPage(Walk, pt, ppn, vpn, MAP_MEGAPAGE)
    IN  (w.ret = OK /\ ~w.halted) => Translate(w.mem, pt, vpn) = ppn

(***************************************************************************)
(* What the comment in unmap_page (page.c:132) says: unmapping with a size *)
(* other than the one the page was mapped with is refused.  So a gigapage  *)
(* can be unmapped only where one is mapped.                               *)
(***************************************************************************)
UnmapRefusesWrongSize ==
  \A vpn \in CallVpns :
    LET w == UnmapPage(Walk, pt, vpn, MAP_GIGAPAGE)
    IN  w.ret = OK => mem[pt][VpnArr(vpn, 2)].kind = "leaf"
=============================================================================
