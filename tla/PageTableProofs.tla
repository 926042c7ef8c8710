-------------------------- MODULE PageTableProofs --------------------------
(***************************************************************************)
(* The properties of the page tables of src/page.c, for tables of any      *)
(* size, any RAM, any bitmap and any sequence of calls.                    *)
(***************************************************************************)
EXTENDS PageTable, FrameTheorems

-----------------------------------------------------------------------------
\* Numbers in base Fanout.

LEMMA IndexIsRemainder ==
  ASSUME NEW n \in Nat
  PROVE  n % Fanout \in Index
BY PageTableAssumption DEF Index

LEMMA DivisionIsUnique ==
  ASSUME NEW d \in Nat, d > 0, NEW q \in Nat, NEW r \in Nat, r < d
  PROVE  (d * q + r) \div d = q /\ (d * q + r) % d = r
OBVIOUS

LEMMA Division ==
  ASSUME NEW d \in Nat, d > 0, NEW n \in Nat
  PROVE  n \div d \in Nat /\ n % d \in Nat /\ n % d < d /\ n = d * (n \div d) + (n % d)
OBVIOUS

LEMMA VpnArrIsIndex ==
  ASSUME NEW vpn \in Nat, NEW i \in 0..2
  PROVE  VpnArr(vpn, i) \in Index
<1>1. Fanout * Fanout \in Nat /\ Fanout * Fanout > 0
  BY PageTableAssumption
<1>2. vpn \div Fanout \in Nat /\ vpn \div (Fanout * Fanout) \in Nat
  BY <1>1, PageTableAssumption, Division
<1> QED
  BY <1>2, IndexIsRemainder DEF VpnArr

-----------------------------------------------------------------------------
(***************************************************************************)
(* The invariant, stated of a walk record so that it can follow a call     *)
(* through its loop.  `Walk` is the record of the state itself.            *)
(***************************************************************************)
WalkType ==
  [mem : [Ram -> [Index -> Pte]], frames : Bitmap, level : [Ram -> -1..2],
   table : Nat, ret : ERR_UNABLE_TO_MAP..OK, halted : BOOLEAN]

TablesOf(w) == {p \in Ram : w.level[p] # -1}

Tree(w) ==
  /\ \A p \in Ram : w.level[p] = 2 <=> p = pt
  /\ \A p \in TablesOf(w), i \in Index :
       w.mem[p][i].kind = "table" =>
         /\ w.mem[p][i].ppn \in Ram
         /\ w.level[p] > 0 /\ w.level[w.mem[p][i].ppn] = w.level[p] - 1
  /\ \A p, q \in TablesOf(w) : \A i, j \in Index :
       (w.mem[p][i].kind = "table" /\ w.mem[q][j] = w.mem[p][i]) => (p = q /\ i = j)
  /\ \A p \in TablesOf(w) : p - RamPage \in Allocated(w.frames) \ BootFrames
  /\ BootFrames \subseteq Allocated(w.frames)

\* What can be relied on between two steps of a walk.
GoodWalk(w) == w \in WalkType /\ pt \in Ram /\ (~w.halted => Tree(w))

\* The loop goes on.
Going(w) == w.ret = OK /\ ~w.halted

\* The walk stands at a table of level n.
StandsAt(w, n) == w.table \in Ram /\ w.level[w.table] = n

(***************************************************************************)
(* Making tables disturbs nobody: every valid entry of a table stays, only *)
(* a page whose frame was free becomes a table, and no page is mapped or   *)
(* unmapped.                                                               *)
(***************************************************************************)
Grows(w, v) ==
  /\ Allocated(w.frames) \subseteq Allocated(v.frames)
  /\ \A p \in Ram : p - RamPage \in Allocated(w.frames) => v.level[p] = w.level[p]
  /\ \A p \in TablesOf(w), i \in Index :
       w.mem[p][i].kind # "empty" => v.mem[p][i] = w.mem[p][i]
  /\ \A u \in Nat : Translate(v.mem, pt, u) = Translate(w.mem, pt, u)

\* The tables and the bitmap are what they were.
Unchanged(w, v) ==
  v.mem = w.mem /\ v.frames = w.frames /\ v.level = w.level /\ v.halted = w.halted

\* Either nothing was done, or a table was made: then the walk cannot fail.
Fresh(w, v) ==
  \/ Unchanged(w, v)
  \/ v.halted /\ v.ret = OK
  \/ v.ret = OK /\ \A k \in Index : v.mem[v.table][k] = EmptyPte

\* A new, empty table is linked to entry i of the one w stood at.
AddsTable(w, v, i) ==
  /\ v.table \in Ram \ TablesOf(w)
  /\ Allocated(v.frames) = Allocated(w.frames) \cup {v.table - RamPage}
  /\ \A q \in Ram : v.level[q] = IF q = v.table THEN w.level[w.table] - 1 ELSE w.level[q]
  /\ \A k \in Index : v.mem[v.table][k] = EmptyPte
  /\ \A q \in Ram : q # v.table => \A k \in Index :
       v.mem[q][k] = IF q = w.table /\ k = i THEN TablePte(v.table) ELSE w.mem[q][k]

(***************************************************************************)
(* Pages that allocate_a_page returned: the page before RAM once no frame  *)
(* is left, else the page of a frame that stays marked and is no table.    *)
(***************************************************************************)
DataInv ==
  \A p \in data :
    \/ p = RamPage - 1
    \/ /\ p - RamPage \in Allocated(frames) \ BootFrames
       /\ p \in Ram => level[p] = -1

\* With satp = 0 allocate_a_page has no table to map its page in.
NothingHandedOutYet == last.op = "allocate" /\ last.ret = OK => satp = pt

IInv == TypeOK /\ TablesFormATree /\ DataInv /\ NothingHandedOutYet

-----------------------------------------------------------------------------
\* The frame a table or a page is put in.
LEMMA NewFrame ==
  ASSUME NEW b \in Bitmap
  PROVE  LET f == FirstFreeFrame(b)
             p == FrameToPpn(RamPage, AllocateFrameResult(f))
         IN  /\ f \in Nat /\ p \in Nat
             /\ AllocateFrame(b, f) \in Bitmap
             /\ Allocated(b) \subseteq Allocated(AllocateFrame(b, f))
             /\ \/ /\ p = RamPage + f /\ f \in Frame \ Allocated(b)
                   /\ Allocated(AllocateFrame(b, f)) = Allocated(b) \cup {f}
                \/ p = RamPage - 1 /\ f = NumFrames /\ Allocated(b) = Frame
                     /\ AllocateFrame(b, f) = b
<1> DEFINE f == FirstFreeFrame(b)
           p == FrameToPpn(RamPage, AllocateFrameResult(f))
<1>1. /\ f \in Nat
      /\ f \in Frame => f \notin Allocated(b)
      /\ f \notin Frame => f = NumFrames /\ Allocated(b) = Frame
  BY FirstFreeFrameIsLeast
<1> HIDE DEF f
<1>2. /\ AllocateFrame(b, f) \in Bitmap
      /\ Allocated(AllocateFrame(b, f)) = Allocated(b) \cup ({f} \cap Frame)
  BY <1>1, AllocateFrameMarks
<1>3. CASE f \in Frame
  <2>1. p = RamPage + f
    BY <1>3, FrameBytesAssumption DEF FrameToPpn, AllocateFrameResult, Frame, NumFrames
  <2> QED
    BY <1>1, <1>2, <1>3, <2>1, PageTableAssumption DEF f
<1>4. CASE f \notin Frame
  <2>1. p = RamPage - 1 /\ AllocateFrame(b, f) = b
    BY <1>1, <1>4, FrameBytesAssumption, PageTableAssumption
    DEF FrameToPpn, AllocateFrameResult, AllocateFrame, NoFrame, NumFrames
  <2> QED
    BY <1>1, <1>2, <1>4, <2>1, PageTableAssumption DEF f
<1> QED
  BY <1>3, <1>4

(***************************************************************************)
(* Translate, as a function of the three entries it reads.                 *)
(***************************************************************************)
Found(u, e2, e1, e0) ==
  CASE e2.kind = "leaf" -> Superpage(e2, u, Fanout * Fanout)
    [] e2.kind = "table" /\ e2.ppn \in Ram ->
         CASE e1.kind = "leaf" -> Superpage(e1, u, Fanout)
           [] e1.kind = "table" /\ e1.ppn \in Ram ->
                IF e0.kind = "leaf" THEN e0.ppn ELSE Fault
           [] OTHER -> Fault
    [] OTHER -> Fault

LEMMA TranslateReads ==
  ASSUME NEW m, NEW root, NEW u
  PROVE  LET e2 == m[root][VpnArr(u, 2)]
             e1 == m[e2.ppn][VpnArr(u, 1)]
             e0 == m[e1.ppn][VpnArr(u, 0)]
         IN  Translate(m, root, u) = Found(u, e2, e1, e0)
BY DEF Translate, Found

LEMMA FoundCases ==
  ASSUME NEW u, NEW e2, NEW e1, NEW e0
  PROVE  /\ e2.kind = "leaf" => Found(u, e2, e1, e0) = Superpage(e2, u, Fanout * Fanout)
         /\ e2.kind \notin {"leaf", "table"} => Found(u, e2, e1, e0) = Fault
         /\ e2.kind = "table" /\ e2.ppn \notin Ram => Found(u, e2, e1, e0) = Fault
         /\ e2.kind = "table" /\ e2.ppn \in Ram =>
              /\ e1.kind = "leaf" => Found(u, e2, e1, e0) = Superpage(e1, u, Fanout)
              /\ e1.kind \notin {"leaf", "table"} => Found(u, e2, e1, e0) = Fault
              /\ e1.kind = "table" /\ e1.ppn \notin Ram => Found(u, e2, e1, e0) = Fault
              /\ e1.kind = "table" /\ e1.ppn \in Ram =>
                   Found(u, e2, e1, e0) = IF e0.kind = "leaf" THEN e0.ppn ELSE Fault
BY DEF Found

-----------------------------------------------------------------------------
(***************************************************************************)
(* One iteration of map_page's loop.                                       *)
(***************************************************************************)

\* Linking an empty table, or none, translates no page differently.
LEMMA LinkingKeepsTranslation ==
  ASSUME NEW w, GoodWalk(w), Going(w),
         NEW t \in TablesOf(w), w.level[t] > 0,
         NEW i \in Index, w.mem[t][i].kind = "empty",
         NEW p \in Nat, p \notin TablesOf(w),
         NEW m \in [Ram -> [Index -> Pte]],
         p \in Ram => \A k \in Index : m[p][k] = EmptyPte,
         \A q \in Ram : q # p =>
           \A k \in Index : m[q][k] = IF q = t /\ k = i THEN TablePte(p) ELSE w.mem[q][k],
         NEW u \in Nat
  PROVE  Translate(m, pt, u) = Translate(w.mem, pt, u)
<1> DEFINE i2 == VpnArr(u, 2)
           i1 == VpnArr(u, 1)
           i0 == VpnArr(u, 0)
           e2 == w.mem[pt][i2]
           d2 == m[pt][i2]
           e1 == w.mem[e2.ppn][i1]
           d1 == m[d2.ppn][i1]
           e0 == w.mem[e1.ppn][i0]
           d0 == m[d1.ppn][i0]
<1>1. i0 \in Index /\ i1 \in Index /\ i2 \in Index
  BY VpnArrIsIndex
<1>2. w.mem \in [Ram -> [Index -> Pte]] /\ w.level \in [Ram -> -1..2] /\ pt \in Ram /\ Tree(w)
  BY DEF GoodWalk, Going, WalkType
<1>3. pt \in TablesOf(w) /\ pt # p
  BY <1>2 DEF Tree, TablesOf
<1>4. TablePte(p).kind = "table" /\ TablePte(p).ppn = p /\ EmptyPte.kind = "empty"
  BY DEF TablePte, EmptyPte
<1>5. /\ Translate(w.mem, pt, u) = Found(u, e2, e1, e0)
      /\ Translate(m, pt, u) = Found(u, d2, d1, d0)
  BY TranslateReads
<1> SUFFICES Found(u, e2, e1, e0) = Found(u, d2, d1, d0)
  BY <1>5
<1>6. CASE pt = t /\ i2 = i
  <2>1. e2.kind = "empty" /\ d2 = TablePte(p)
    BY <1>1, <1>2, <1>3, <1>6
  <2>2. p \in Ram => d1.kind = "empty"
    BY <1>1, <1>4, <2>1
  <2> HIDE DEF e2, e1, e0, d2, d1, d0
  <2> QED
    BY <1>4, <2>1, <2>2, FoundCases
<1>7. CASE ~(pt = t /\ i2 = i)
  <2>1. d2 = e2 /\ e2 \in Pte
    BY <1>1, <1>2, <1>3, <1>7
  <2>2. CASE e2.kind # "table" \/ e2.ppn \notin Ram
    <3> HIDE DEF e2, e1, e0, d2, d1, d0
    <3> QED
      BY <2>1, <2>2, FoundCases DEF Pte
  <2>3. CASE e2.kind = "table" /\ e2.ppn \in Ram
    <3>1. e2.ppn \in TablesOf(w) /\ e2.ppn # p /\ w.level[e2.ppn] = 1
      BY <1>1, <1>2, <1>3, <2>3 DEF Tree, TablesOf
    <3>2. CASE e2.ppn = t /\ i1 = i
      <4>1. e1.kind = "empty" /\ d1 = TablePte(p)
        BY <1>1, <2>1, <2>3, <3>1, <3>2
      <4>2. p \in Ram => d0.kind = "empty"
        BY <1>1, <1>4, <4>1
      <4> HIDE DEF e2, e1, e0, d2, d1, d0
      <4> QED
        BY <1>4, <2>1, <2>3, <4>1, <4>2, FoundCases
    <3>3. CASE ~(e2.ppn = t /\ i1 = i)
      <4>1. d1 = e1 /\ e1 \in Pte
        BY <1>1, <1>2, <2>1, <2>3, <3>1, <3>3
      <4>2. CASE e1.kind # "table" \/ e1.ppn \notin Ram
        <5> HIDE DEF e2, e1, e0, d2, d1, d0
        <5> QED
          BY <2>1, <2>3, <4>1, <4>2, FoundCases DEF Pte
      <4>3. CASE e1.kind = "table" /\ e1.ppn \in Ram
        <5>1. e1.ppn \in TablesOf(w) /\ w.level[e1.ppn] = 0
          <6>1. /\ w.level[e2.ppn] > 0
                /\ w.level[w.mem[e2.ppn][i1].ppn] = w.level[e2.ppn] - 1
            <7> HIDE DEF e2
            <7> QED
              BY <1>1, <1>2, <3>1, <4>3 DEF Tree
          <6> HIDE DEF e2
          <6> QED
            BY <3>1, <4>3, <6>1 DEF TablesOf
        <5>2. d0 = e0
          <6> HIDE DEF e1, i0
          <6>1. e1.ppn # t /\ e1.ppn # p
            BY <5>1, SMTT(30)
          <6>2. m[e1.ppn][i0] = w.mem[e1.ppn][i0]
            BY <1>1, <4>3, <6>1
          <6> QED
            BY <4>1, <6>2 DEF e1
        <5> HIDE DEF e2, e1, e0, d2, d1, d0
        <5> QED
          BY <2>1, <2>3, <4>1, <4>3, <5>2, FoundCases
      <4> QED
        BY <4>2, <4>3
    <3> QED
      BY <3>2, <3>3
  <2> QED
    BY <2>2, <2>3
<1> QED
  BY <1>6, <1>7

\* The frame is taken and the entry made valid, but there is no page to zero.
LEMMA NewTableFaults ==
  ASSUME NEW w, GoodWalk(w), Going(w), NEW n \in 1..2, StandsAt(w, n),
         NEW i \in Index, w.mem[w.table][i].kind = "empty",
         FrameToPpn(RamPage, AllocateFrameResult(FirstFreeFrame(w.frames))) \notin Ram
  PROVE  LET v == NewTable(w, i)
         IN  GoodWalk(v) /\ Grows(w, v) /\ v.ret = OK /\ v.halted
<1> DEFINE f == FirstFreeFrame(w.frames)
           p == FrameToPpn(RamPage, AllocateFrameResult(f))
           b == AllocateFrame(w.frames, f)
           t == w.table
           v == NewTable(w, i)
<1>1. /\ w \in WalkType /\ pt \in Ram /\ t \in TablesOf(w) /\ w.ret = OK
      /\ w.level[t] > 0
  BY DEF GoodWalk, Going, StandsAt, TablesOf
<1>2. b \in Bitmap /\ Allocated(w.frames) \subseteq Allocated(b)
  BY <1>1, NewFrame DEF WalkType
<1>3. v = [[w EXCEPT !.frames = b, !.mem[t][i] = TablePte(0)] EXCEPT !.halted = TRUE]
  BY DEF NewTable
<1> HIDE DEF b, v
<1>4. /\ v \in WalkType /\ v.ret = OK /\ v.halted /\ v.level = w.level /\ v.frames = b
      /\ \A q \in Ram, k \in Index :
           v.mem[q][k] = IF q = t /\ k = i THEN TablePte(0) ELSE w.mem[q][k]
  <2>1. TablePte(0) \in Pte
    BY DEF TablePte, Pte
  <2> QED
    BY <1>1, <1>2, <1>3, <2>1 DEF WalkType, TablesOf
<1>5. 0 \notin Ram
  BY PageTableAssumption DEF Ram
<1>6. ASSUME NEW u \in Nat  PROVE Translate(v.mem, pt, u) = Translate(w.mem, pt, u)
  <2>1. v.mem \in [Ram -> [Index -> Pte]] /\ 0 \notin TablesOf(w)
    BY <1>4, <1>5 DEF WalkType, TablesOf
  <2> QED
    BY <1>1, <1>4, <1>5, <2>1, LinkingKeepsTranslation
<1>7. Grows(w, v)
  BY <1>1, <1>2, <1>4, <1>6 DEF Grows, TablesOf
<1> QED
  BY <1>1, <1>4, <1>7 DEF GoodWalk, v

\* A new table, linked and empty.
LEMMA NewTableLinks ==
  ASSUME NEW w, GoodWalk(w), Going(w), NEW n \in 1..2, StandsAt(w, n),
         NEW i \in Index, w.mem[w.table][i].kind = "empty",
         FrameToPpn(RamPage, AllocateFrameResult(FirstFreeFrame(w.frames))) \in Ram
  PROVE  LET v == NewTable(w, i)
         IN  /\ GoodWalk(v) /\ Grows(w, v) /\ Going(v) /\ StandsAt(v, n - 1)
             /\ v.mem[w.table][i] = TablePte(v.table)
             /\ \A k \in Index : v.mem[v.table][k] = EmptyPte
             /\ AddsTable(w, v, i)
<1> DEFINE f == FirstFreeFrame(w.frames)
           p == FrameToPpn(RamPage, AllocateFrameResult(f))
           b == AllocateFrame(w.frames, f)
           t == w.table
           v == NewTable(w, i)
<1>1. /\ w \in WalkType /\ pt \in Ram /\ t \in TablesOf(w) /\ w.ret = OK /\ ~w.halted
      /\ Tree(w) /\ w.level[t] = n
  BY DEF GoodWalk, Going, StandsAt, TablesOf
<1>2. /\ p \in Ram /\ p \in Nat /\ b \in Bitmap
      /\ p - RamPage \in Frame \ Allocated(w.frames)
      /\ Allocated(b) = Allocated(w.frames) \cup {p - RamPage}
  BY <1>1, NewFrame, PageTableAssumption DEF WalkType, Ram, Frame
<1>3. p \notin TablesOf(w) /\ p # t /\ p # pt
  <2>1. p \notin TablesOf(w)
    BY <1>1, <1>2 DEF Tree
  <2> QED
    BY <1>1, <2>1 DEF Tree, TablesOf
<1>4. v = [[w EXCEPT !.frames = b, !.mem[t][i] = TablePte(0)] EXCEPT
            !.mem = [[w EXCEPT !.frames = b, !.mem[t][i] = TablePte(0)].mem EXCEPT
                       ![p] = [k \in Index |-> EmptyPte], ![t][i] = TablePte(p)],
            !.level[p] = w.level[t] - 1, !.table = p]
  BY <1>2 DEF NewTable
<1> HIDE DEF b, p, v
<1>5. TablePte(0) \in Pte /\ TablePte(p) \in Pte /\ EmptyPte \in Pte
  BY <1>2 DEF TablePte, Pte, EmptyPte
<1>6. /\ v \in WalkType /\ v.ret = OK /\ ~v.halted /\ v.frames = b /\ v.table = p
      /\ \A q \in Ram : v.level[q] = IF q = p THEN n - 1 ELSE w.level[q]
      /\ \A k \in Index : v.mem[p][k] = EmptyPte
      /\ \A q \in Ram : q # p => \A k \in Index :
           v.mem[q][k] = IF q = t /\ k = i THEN TablePte(p) ELSE w.mem[q][k]
  <2> DEFINE m == [w.mem EXCEPT ![t][i] = TablePte(0)]
             m2 == [m EXCEPT ![p] = [k \in Index |-> EmptyPte], ![t][i] = TablePte(p)]
  <2>1. m \in [Ram -> [Index -> Pte]] /\ m2 \in [Ram -> [Index -> Pte]]
    BY <1>1, <1>2, <1>5 DEF WalkType, TablesOf
  <2>2. /\ v = [w EXCEPT !.frames = b, !.mem = m2, !.level[p] = w.level[t] - 1, !.table = p]
        /\ v \in WalkType
    <3> DEFINE r == [w EXCEPT !.frames = b, !.mem[t][i] = TablePte(0)]
    <3>1. r = [w EXCEPT !.frames = b, !.mem = m]
      BY <1>1 DEF WalkType
    <3>2. v = [r EXCEPT !.mem = m2, !.level[p] = w.level[t] - 1, !.table = p]
      BY <1>1, <1>4, <3>1 DEF WalkType
    <3> HIDE DEF r, m, m2
    <3>3. w.level[t] - 1 \in -1..2
      BY <1>1
    <3> QED
      BY <1>1, <1>2, <2>1, <3>1, <3>2, <3>3 DEF WalkType
  <2>3. \A q \in Ram : q # p /\ q # t => m2[q] = w.mem[q]
    BY <1>1, <1>2, <1>3 DEF WalkType, TablesOf
  <2>4. \A k \in Index : m2[p][k] = EmptyPte
    BY <1>1, <1>2, <1>3 DEF WalkType, TablesOf
  <2>5. \A k \in Index : m2[t][k] = IF k = i THEN TablePte(p) ELSE w.mem[t][k]
    BY <1>1, <1>2, <1>3 DEF WalkType, TablesOf
  <2> HIDE DEF m2
  <2> QED
    BY <1>1, <1>2, <2>1, <2>2, <2>3, <2>4, <2>5 DEF WalkType, TablesOf
<1>7. ASSUME NEW u \in Nat  PROVE Translate(v.mem, pt, u) = Translate(w.mem, pt, u)
  <2>1. v.mem \in [Ram -> [Index -> Pte]] /\ w.level[t] > 0 /\ GoodWalk(w) /\ Going(w)
    BY <1>1, <1>6 DEF WalkType
  <2> QED
    BY <1>1, <1>2, <1>3, <1>6, <2>1, LinkingKeepsTranslation
<1>8. TablePte(p).kind = "table" /\ TablePte(p).ppn = p /\ EmptyPte.kind = "empty"
  BY DEF TablePte, EmptyPte
<1>9. Grows(w, v)
  <2>1. Allocated(w.frames) \subseteq Allocated(v.frames)
    BY <1>2, <1>6
  <2>2. ASSUME NEW q \in Ram, q - RamPage \in Allocated(w.frames)
        PROVE  v.level[q] = w.level[q]
    BY <1>2, <1>6, <2>2
  <2>3. ASSUME NEW q \in TablesOf(w), NEW k \in Index, w.mem[q][k].kind # "empty"
        PROVE  v.mem[q][k] = w.mem[q][k]
    BY <1>3, <1>6, <2>3 DEF TablesOf
  <2> QED
    BY <1>7, <2>1, <2>2, <2>3 DEF Grows
<1>10. Tree(v)
  <2>1. TablesOf(v) = TablesOf(w) \cup {p}
    <3>1. \A q \in Ram : v.level[q] # -1 <=> q = p \/ w.level[q] # -1
      BY <1>2, <1>6
    <3> QED
      BY <1>2, <3>1 DEF TablesOf
  <2>2. \A q \in Ram : v.level[q] = 2 <=> q = pt
    BY <1>1, <1>2, <1>3, <1>6 DEF Tree
  <2>3. ASSUME NEW q \in TablesOf(v), NEW k \in Index, v.mem[q][k].kind = "table"
        PROVE  /\ q \in TablesOf(w)
               /\ \/ q = t /\ k = i /\ v.mem[q][k] = TablePte(p)
                  \/ (q # t \/ k # i) /\ v.mem[q][k] = w.mem[q][k]
    BY <1>6, <1>8, <2>1, <2>3 DEF TablesOf
  <2>4. ASSUME NEW q \in TablesOf(v), NEW k \in Index, v.mem[q][k].kind = "table"
        PROVE  /\ v.mem[q][k].ppn \in Ram
               /\ v.level[q] > 0 /\ v.level[v.mem[q][k].ppn] = v.level[q] - 1
    <3>1. CASE q = t /\ k = i /\ v.mem[q][k] = TablePte(p)
      <4>1. v.level[t] = n /\ v.level[p] = n - 1
        BY <1>1, <1>2, <1>3, <1>6 DEF TablesOf
      <4> QED
        BY <1>2, <1>8, <3>1, <4>1
    <3>2. CASE q \in TablesOf(w) /\ v.mem[q][k] = w.mem[q][k]
      <4>1. /\ w.mem[q][k].ppn \in Ram
            /\ w.level[q] > 0 /\ w.level[w.mem[q][k].ppn] = w.level[q] - 1
        BY <1>1, <2>4, <3>2 DEF Tree
      <4>2. w.mem[q][k].ppn \in TablesOf(w) /\ q \in Ram
        BY <1>1, <3>2, <4>1 DEF TablesOf, WalkType
      <4> QED
        BY <1>3, <1>6, <3>2, <4>1, <4>2
    <3> QED
      BY <2>3, <2>4, <3>1, <3>2
  <2>5. ASSUME NEW q \in TablesOf(v), NEW r \in TablesOf(v), NEW k \in Index, NEW j \in Index,
               v.mem[q][k].kind = "table", v.mem[r][j] = v.mem[q][k]
        PROVE  q = r /\ k = j
    <3>1. /\ q \in TablesOf(w)
          /\ \/ q = t /\ k = i /\ v.mem[q][k] = TablePte(p)
             \/ (q # t \/ k # i) /\ v.mem[q][k] = w.mem[q][k]
      BY <2>3, <2>5
    <3>2. /\ r \in TablesOf(w)
          /\ \/ r = t /\ j = i /\ v.mem[r][j] = TablePte(p)
             \/ (r # t \/ j # i) /\ v.mem[r][j] = w.mem[r][j]
      BY <2>3, <2>5
    <3>3. \A s \in TablesOf(w), l \in Index :
            w.mem[s][l].kind = "table" => w.mem[s][l].ppn # p
      <4> SUFFICES ASSUME NEW s \in TablesOf(w), NEW l \in Index, w.mem[s][l].kind = "table"
                   PROVE  w.mem[s][l].ppn \in TablesOf(w)
        BY <1>3
      <4>1. /\ w.mem[s][l].ppn \in Ram
            /\ w.level[s] > 0 /\ w.level[w.mem[s][l].ppn] = w.level[s] - 1
        BY <1>1 DEF Tree
      <4> QED
        BY <1>1, <4>1 DEF TablesOf, WalkType
    <3> QED
      BY <1>1, <1>8, <2>5, <3>1, <3>2, <3>3 DEF Tree
  <2>6. /\ \A q \in TablesOf(v) : q - RamPage \in Allocated(v.frames) \ BootFrames
        /\ BootFrames \subseteq Allocated(v.frames)
    BY <1>1, <1>2, <1>6, <2>1 DEF Tree
  <2> QED
    BY <2>2, <2>4, <2>5, <2>6 DEF Tree
<1>11. AddsTable(w, v, i)
  BY <1>1, <1>2, <1>3, <1>6 DEF AddsTable
<1> QED
  BY <1>1, <1>2, <1>3, <1>6, <1>9, <1>10, <1>11 DEF GoodWalk, Going, StandsAt, TablesOf, v

\* An iteration at a table of level n > 0: the walk goes on one level below,
\* or faults, or stops without having changed anything.
LEMMA NextTableStep ==
  ASSUME NEW w, GoodWalk(w), NEW n \in 1..2, Going(w) => StandsAt(w, n), NEW i \in Index
  PROVE  LET v == NextTable(w, i)
         IN  /\ GoodWalk(v) /\ Grows(w, v)
             /\ Going(v) => /\ Going(w) /\ StandsAt(v, n - 1)
                            /\ v.mem[w.table][i] = TablePte(v.table)
             /\ Fresh(w, v) /\ (v.ret # OK => Unchanged(w, v))
             /\ Going(w) /\ w.mem[w.table][i].kind = "empty" =>
                  v.ret = OK /\ (v.halted \/ \A k \in Index : v.mem[v.table][k] = EmptyPte)
<1> DEFINE v == NextTable(w, i)
           e == w.mem[w.table][i]
<1>1. w \in WalkType /\ pt \in Ram
  BY DEF GoodWalk
<1>2. Grows(w, w) /\ Unchanged(w, w)
  BY DEF Grows, Unchanged
<1>3. CASE ~Going(w)
  BY <1>2, <1>3 DEF NextTable, Going, Fresh
<1>4. CASE Going(w)
  <2>1. w.table \in Ram /\ w.level[w.table] = n /\ e \in Pte /\ Tree(w)
    BY <1>1, <1>4 DEF StandsAt, WalkType, GoodWalk, Going
  <2>2. CASE e.kind = "empty"
    <3>1. v = NewTable(w, i)
      BY <1>4, <2>2 DEF NextTable, Going
    <3> HIDE DEF v
    <3> QED
      BY <1>4, <2>2, <3>1, NewTableFaults, NewTableLinks DEF Going, Fresh, v
  <2>3. CASE e.kind = "leaf"
    <3>1. v = [w EXCEPT !.ret = ERR_ALREADY_MAPPED]
      BY <1>4, <2>3 DEF NextTable, Going
    <3>2. v \in WalkType /\ v.ret # OK /\ Unchanged(w, v)
      BY <1>1, <3>1 DEF WalkType, Unchanged, OK, ERR_ALREADY_MAPPED, ERR_UNABLE_TO_MAP
    <3> HIDE DEF v
    <3>3. GoodWalk(v) /\ Grows(w, v) /\ ~Going(v)
      BY <1>1, <1>2, <2>1, <3>2 DEF GoodWalk, Grows, Going, Unchanged, Tree, TablesOf
    <3> QED
      BY <2>3, <3>2, <3>3 DEF Fresh, v
  <2>4. CASE e.kind = "table"
    <3>1. v = [w EXCEPT !.table = e.ppn]
      BY <1>4, <2>4 DEF NextTable, Going
    <3>2. e.ppn \in Ram /\ e.ppn \in Nat /\ w.level[e.ppn] = n - 1 /\ e = TablePte(e.ppn)
      BY <2>1, <2>4 DEF Tree, TablesOf, Pte, TablePte
    <3>3. v \in WalkType /\ v.ret = w.ret /\ v.table = e.ppn /\ Unchanged(w, v)
      BY <1>1, <3>1, <3>2 DEF WalkType, Unchanged
    <3> HIDE DEF v
    <3>4. GoodWalk(v) /\ Grows(w, v)
      BY <1>1, <1>2, <2>1, <3>3 DEF GoodWalk, Grows, Unchanged, Tree, TablesOf
    <3>5. StandsAt(v, n - 1) /\ v.mem[w.table][i] = TablePte(v.table) /\ Going(v)
      BY <1>4, <3>2, <3>3 DEF StandsAt, Unchanged, Going
    <3> QED
      BY <1>4, <2>4, <3>3, <3>4, <3>5 DEF Fresh, Going, v
  <2> QED
    BY <2>1, <2>2, <2>3, <2>4 DEF Pte
<1> QED
  BY <1>3, <1>4

\* Grows and Unchanged follow a walk through its iterations.
LEMMA GrowsIsTransitive ==
  ASSUME NEW w, NEW v, NEW x, GoodWalk(w), GoodWalk(v), GoodWalk(x),
         ~v.halted \/ x = v, ~w.halted, Grows(w, v), Grows(v, x)
  PROVE  Grows(w, x)
<1>1. CASE x = v
  BY <1>1
<1>2. CASE ~v.halted
  <2>1. Tree(w) /\ w \in WalkType /\ v \in WalkType
    BY <1>2 DEF GoodWalk
  <2>2. \A p \in TablesOf(w) : p \in TablesOf(v)
    BY <2>1 DEF Tree, Grows, TablesOf
  <2> QED
    BY <2>2 DEF Grows
<1> QED
  BY <1>1, <1>2

(***************************************************************************)
(* The loop of map_page, from the root.                                    *)
(***************************************************************************)
LEMMA MapWalkStep ==
  ASSUME NEW w, GoodWalk(w), Going(w), w.table = pt, NEW vpn \in Nat, NEW type \in MapType
  PROVE  LET v == MapWalk(w, vpn, type)
         IN  /\ GoodWalk(v) /\ Grows(w, v)
             /\ v.ret # OK => Unchanged(w, v)
             /\ Fresh(w, v)
             /\ Going(v) => StandsAt(v, 3 - type)
             /\ Going(v) /\ type = MAP_GIGAPAGE => v.table = pt
             /\ Going(v) /\ type = MAP_PAGE =>
                  \E t \in Ram : /\ v.mem[pt][VpnArr(vpn, 2)] = TablePte(t)
                                 /\ v.mem[t][VpnArr(vpn, 1)] = TablePte(v.table)
<1> DEFINE i2 == VpnArr(vpn, 2)
           i1 == VpnArr(vpn, 1)
           v == MapWalk(w, vpn, type)
<1>1. i1 \in Index /\ i2 \in Index
  BY VpnArrIsIndex
<1>2. StandsAt(w, 2) /\ pt \in TablesOf(w)
  BY DEF GoodWalk, Going, Tree, StandsAt, TablesOf
<1>3. CASE type = MAP_GIGAPAGE
  <2>1. v = w
    BY <1>3 DEF MapWalk, MAP_PAGE, MAP_MEGAPAGE, MAP_GIGAPAGE
  <2>2. Grows(w, w) /\ Unchanged(w, w)
    BY DEF Grows, Unchanged
  <2> QED
    BY <1>2, <1>3, <2>1, <2>2 DEF Fresh, MAP_PAGE, MAP_GIGAPAGE
<1>4. CASE type = MAP_MEGAPAGE
  <2>1. v = NextTable(w, i1)
    BY <1>4 DEF MapWalk, MAP_PAGE, MAP_MEGAPAGE, MAP_GIGAPAGE
  <2> HIDE DEF v, i1
  <2>2. /\ GoodWalk(v) /\ Grows(w, v) /\ Going(v) => StandsAt(v, 2 - 1)
        /\ Fresh(w, v) /\ (v.ret # OK => Unchanged(w, v))
    BY <1>1, <1>2, <2>1, NextTableStep
  <2>3. GoodWalk(v) /\ Grows(w, v)
    BY <1>1, <1>2, <2>1, NextTableStep
  <2> QED
    BY <1>4, <2>2, <2>3 DEF v, MAP_PAGE, MAP_MEGAPAGE, MAP_GIGAPAGE
<1>5. CASE type = MAP_PAGE
  <2> DEFINE x == NextTable(w, i2)
  <2>1. v = NextTable(x, i1)
    BY <1>5 DEF MapWalk, MAP_PAGE, MAP_MEGAPAGE, MAP_GIGAPAGE
  <2> HIDE DEF v, x, i1, i2
  <2>2. /\ GoodWalk(x) /\ Grows(w, x) /\ Fresh(w, x)
        /\ x.ret # OK => Unchanged(w, x)
        /\ Going(x) => StandsAt(x, 1) /\ x.mem[pt][i2] = TablePte(x.table)
    <3>1. 2 \in 1..2 /\ 2 - 1 = 1
      OBVIOUS
    <3> QED
      BY <1>1, <1>2, <3>1, NextTableStep DEF x
  <2>3. /\ GoodWalk(v) /\ Grows(x, v) /\ Fresh(x, v)
        /\ v.ret # OK => Unchanged(x, v)
        /\ Going(v) => /\ Going(x) /\ StandsAt(v, 0)
                       /\ v.mem[x.table][i1] = TablePte(v.table)
        /\ Going(x) /\ x.mem[x.table][i1].kind = "empty" =>
             v.ret = OK /\ (v.halted \/ \A k \in Index : v.mem[v.table][k] = EmptyPte)
    <3>1. 1 \in 1..2 /\ 1 - 1 = 0
      OBVIOUS
    <3> QED
      BY <1>1, <2>1, <2>2, <3>1, NextTableStep
  <2>4. ~Going(x) => v = x
    BY <2>1 DEF NextTable, Going
  <2>5. Grows(w, v)
    BY <2>2, <2>3, <2>4, GrowsIsTransitive DEF Going
  <2>6. EmptyPte.kind = "empty"
    BY DEF EmptyPte
  <2>7. Fresh(w, v) /\ (v.ret # OK => Unchanged(w, v))
    <3>1. CASE ~Going(x)
      BY <2>2, <2>4, <3>1
    <3>2. CASE Going(x) /\ Unchanged(w, x)
      BY <2>3, <3>2 DEF Fresh, Unchanged
    <3>3. CASE Going(x) /\ \A k \in Index : x.mem[x.table][k] = EmptyPte
      BY <1>1, <2>3, <2>6, <3>3 DEF Fresh
    <3> QED
      BY <2>2, <3>1, <3>2, <3>3 DEF Fresh, Going
  <2>8. Going(v) => v.mem[pt][i2] = TablePte(x.table) /\ x.table \in Ram
    <3> SUFFICES ASSUME Going(v)  PROVE v.mem[pt][i2] = TablePte(x.table) /\ x.table \in Ram
      OBVIOUS
    <3>1. Going(x) /\ x.table \in Ram /\ x.mem[pt][i2] = TablePte(x.table)
      BY <2>2, <2>3 DEF StandsAt
    <3>2. pt \in TablesOf(x)
      BY <3>1, <2>2 DEF Going, GoodWalk, Tree, TablesOf
    <3>3. x.mem[pt][i2].kind # "empty"
      BY <3>1 DEF TablePte
    <3> QED
      BY <1>1, <2>3, <3>1, <3>2, <3>3 DEF Grows
  <2> QED
    BY <1>5, <2>3, <2>5, <2>7, <2>8 DEF v, i1, i2, MAP_PAGE, MAP_GIGAPAGE
<1> QED
  BY <1>3, <1>4, <1>5 DEF MapType

-----------------------------------------------------------------------------
(***************************************************************************)
(* Writing one entry of a table.                                           *)
(***************************************************************************)

\* Translating u reads entry i of table t.
Reads(m, u, t, i) ==
  LET e2 == m[pt][VpnArr(u, 2)]
      e1 == m[e2.ppn][VpnArr(u, 1)]
  IN  \/ t = pt /\ i = VpnArr(u, 2)
      \/ /\ e2.kind = "table" /\ e2.ppn \in Ram
         /\ \/ t = e2.ppn /\ i = VpnArr(u, 1)
            \/ e1.kind = "table" /\ e1.ppn \in Ram /\ t = e1.ppn /\ i = VpnArr(u, 0)

\* Two memories that differ in entry i of table t at most.
DifferAt(m, m2, t, i) ==
  /\ m \in [Ram -> [Index -> Pte]] /\ m2 \in [Ram -> [Index -> Pte]]
  /\ t \in Ram /\ i \in Index
  /\ \A q \in Ram, k \in Index : (q # t \/ k # i) => m2[q][k] = m[q][k]

\* A page whose translation does not read the entry is not affected; one whose
\* translation reads it still does, and faults if the entry is empty.
LEMMA WritingOneEntry ==
  ASSUME pt \in Ram, NEW m, NEW m2, NEW t, NEW i, DifferAt(m, m2, t, i), NEW u \in Nat
  PROVE  /\ ~Reads(m, u, t, i) => Translate(m2, pt, u) = Translate(m, pt, u)
         /\ Reads(m, u, t, i) <=> Reads(m2, u, t, i)
         /\ Reads(m, u, t, i) /\ m[t][i].kind = "empty" => Translate(m, pt, u) = Fault
         /\ Reads(m, u, t, i) /\ m2[t][i].kind = "empty" => Translate(m2, pt, u) = Fault
<1> DEFINE i2 == VpnArr(u, 2)
           i1 == VpnArr(u, 1)
           i0 == VpnArr(u, 0)
           e2 == m[pt][i2]
           d2 == m2[pt][i2]
           e1 == m[e2.ppn][i1]
           d1 == m2[d2.ppn][i1]
           e0 == m[e1.ppn][i0]
           d0 == m2[d1.ppn][i0]
<1>1. i0 \in Index /\ i1 \in Index /\ i2 \in Index
  BY VpnArrIsIndex
<1>d. /\ m \in [Ram -> [Index -> Pte]] /\ m2 \in [Ram -> [Index -> Pte]]
      /\ t \in Ram /\ i \in Index
      /\ \A q \in Ram, k \in Index : (q # t \/ k # i) => m2[q][k] = m[q][k]
  BY DEF DifferAt
<1>2. /\ Translate(m, pt, u) = Found(u, e2, e1, e0)
      /\ Translate(m2, pt, u) = Found(u, d2, d1, d0)
  BY TranslateReads
<1>3. /\ t = pt /\ i = i2 => e2 = m[t][i] /\ d2 = m2[t][i]
      /\ t # pt \/ i # i2 => d2 = e2
      /\ e2 \in Pte /\ d2 \in Pte
  BY <1>1, <1>d
<1>4. e2.ppn \in Ram /\ d2 = e2 =>
        /\ t = e2.ppn /\ i = i1 => e1 = m[t][i] /\ d1 = m2[t][i]
        /\ t # e2.ppn \/ i # i1 => d1 = e1
  BY <1>1, <1>d
<1>5. /\ e2.ppn \in Ram => e1 \in Pte
      /\ d2.ppn \in Ram => d1 \in Pte
  BY <1>1, <1>d
<1>6. e1.ppn \in Ram /\ d1 = e1 =>
        /\ t = e1.ppn /\ i = i0 => e0 = m[t][i] /\ d0 = m2[t][i]
        /\ t # e1.ppn \/ i # i0 => d0 = e0
  <2> HIDE DEF e1, d1, i0
  <2> QED
    BY <1>1, <1>d, SMTT(30)
<1>7. Reads(m, u, t, i) <=>
        \/ t = pt /\ i = i2
        \/ /\ e2.kind = "table" /\ e2.ppn \in Ram
           /\ \/ t = e2.ppn /\ i = i1
              \/ e1.kind = "table" /\ e1.ppn \in Ram /\ t = e1.ppn /\ i = i0
  BY DEF Reads
<1>8. Reads(m2, u, t, i) <=>
        \/ t = pt /\ i = i2
        \/ /\ d2.kind = "table" /\ d2.ppn \in Ram
           /\ \/ t = d2.ppn /\ i = i1
              \/ d1.kind = "table" /\ d1.ppn \in Ram /\ t = d1.ppn /\ i = i0
  BY DEF Reads
<1> HIDE DEF e2, e1, e0, d2, d1, d0, i2, i1, i0
<1>9. ~Reads(m, u, t, i) => Found(u, d2, d1, d0) = Found(u, e2, e1, e0)
  BY <1>3, <1>4, <1>5, <1>6, <1>7, FoundCases DEF Pte
<1>10. Reads(m, u, t, i) <=> Reads(m2, u, t, i)
  BY <1>3, <1>4, <1>5, <1>6, <1>7, <1>8
<1>11. Reads(m, u, t, i) /\ m[t][i].kind = "empty" => Found(u, e2, e1, e0) = Fault
  BY <1>3, <1>4, <1>5, <1>6, <1>7, FoundCases
<1>12. Reads(m, u, t, i) /\ m2[t][i].kind = "empty" => Found(u, d2, d1, d0) = Fault
  BY <1>3, <1>4, <1>5, <1>6, <1>7, FoundCases
<1> QED
  BY <1>2, <1>9, <1>10, <1>11, <1>12

\* A leaf, or nothing, in the place of any entry leaves a tree.
LEMMA WriteKeepsTree ==
  ASSUME NEW w, GoodWalk(w), Going(w), NEW t \in Ram, NEW i \in Index,
         NEW e \in Pte, e.kind # "table"
  PROVE  LET v == [w EXCEPT !.mem[t][i] = e]
         IN  /\ GoodWalk(v) /\ Going(v)
             /\ v.frames = w.frames /\ v.level = w.level /\ v.table = w.table
             /\ \A q \in Ram, k \in Index :
                  v.mem[q][k] = IF q = t /\ k = i THEN e ELSE w.mem[q][k]
<1> DEFINE v == [w EXCEPT !.mem[t][i] = e]
<1>1. w \in WalkType /\ Tree(w)
  BY DEF GoodWalk, Going
<1>2. /\ v \in WalkType /\ v.ret = w.ret /\ v.halted = w.halted
      /\ v.frames = w.frames /\ v.level = w.level /\ v.table = w.table
      /\ \A q \in Ram, k \in Index :
           v.mem[q][k] = IF q = t /\ k = i THEN e ELSE w.mem[q][k]
  BY <1>1 DEF WalkType
<1> HIDE DEF v
<1>3. \A q \in TablesOf(v), k \in Index :
        v.mem[q][k].kind = "table" => q \in TablesOf(w) /\ v.mem[q][k] = w.mem[q][k]
  BY <1>2 DEF TablesOf
<1>4. TablesOf(v) = TablesOf(w)
  BY <1>2 DEF TablesOf
<1>5. \A q, r \in TablesOf(v) : \A k, j \in Index :
        (v.mem[q][k].kind = "table" /\ v.mem[r][j] = v.mem[q][k]) => (q = r /\ k = j)
  BY <1>1, <1>3 DEF Tree
<1>6. Tree(v)
  BY <1>1, <1>2, <1>3, <1>4, <1>5 DEF Tree
<1> QED
  BY <1>2, <1>6 DEF GoodWalk, Going, v

\* The end of map_page: the entry was empty, or nothing is written.
LEMMA SetLeafStep ==
  ASSUME NEW w, GoodWalk(w), Going(w) => w.table \in Ram, NEW i \in Index, NEW ppn \in Nat
  PROVE  LET v == SetLeaf(w, i, ppn)
         IN  /\ GoodWalk(v)
             /\ v.frames = w.frames /\ v.level = w.level /\ v.halted = w.halted
             /\ ~Going(v) => v.mem = w.mem
             /\ Going(w) /\ w.mem[w.table][i] = EmptyPte => Going(v)
             /\ ~Going(w) => v = w
             /\ Going(v) =>
                  /\ Going(w) /\ w.mem[w.table][i].kind = "empty"
                  /\ \A q \in Ram, k \in Index :
                       v.mem[q][k] = IF q = w.table /\ k = i THEN LeafPte(ppn)
                                     ELSE w.mem[q][k]
             /\ \A u \in Nat : Translate(w.mem, pt, u) # Fault =>
                                 Translate(v.mem, pt, u) = Translate(w.mem, pt, u)
<1> DEFINE v == SetLeaf(w, i, ppn)
           t == w.table
<1>1. w \in WalkType /\ pt \in Ram
  BY DEF GoodWalk
<1>2. CASE ~Going(w)
  BY <1>2 DEF SetLeaf, Going
<1>3. CASE Going(w) /\ w.mem[t][i].kind # "empty"
  <2>1. v = [w EXCEPT !.ret = ERR_ALREADY_MAPPED]
    BY <1>3 DEF SetLeaf, Going
  <2>2. v \in WalkType /\ v.ret # OK /\ Unchanged(w, v)
    BY <1>1, <2>1 DEF WalkType, Unchanged, OK, ERR_ALREADY_MAPPED, ERR_UNABLE_TO_MAP
  <2> HIDE DEF v
  <2>3. GoodWalk(v)
    BY <2>2 DEF GoodWalk, Unchanged, Tree, TablesOf
  <2> QED
    BY <1>3, <2>2, <2>3 DEF Unchanged, Going, v, EmptyPte
<1>4. CASE Going(w) /\ w.mem[t][i].kind = "empty"
  <2>1. v = [w EXCEPT !.mem[t][i] = LeafPte(ppn)]
    BY <1>4 DEF SetLeaf, Going
  <2>2. LeafPte(ppn) \in Pte /\ LeafPte(ppn).kind # "table"
    BY DEF LeafPte, Pte
  <2>3. /\ GoodWalk(v) /\ Going(v)
        /\ v.frames = w.frames /\ v.level = w.level
        /\ \A q \in Ram, k \in Index :
             v.mem[q][k] = IF q = t /\ k = i THEN LeafPte(ppn) ELSE w.mem[q][k]
    BY <1>4, <2>1, <2>2, WriteKeepsTree
  <2> HIDE DEF v
  <2>4. ASSUME NEW u \in Nat, Translate(w.mem, pt, u) # Fault
        PROVE  Translate(v.mem, pt, u) = Translate(w.mem, pt, u)
    <3>1. v.mem \in [Ram -> [Index -> Pte]] /\ w.mem \in [Ram -> [Index -> Pte]]
      BY <1>1, <2>3 DEF GoodWalk, WalkType
    <3>2. t \in Ram /\ \A q \in Ram, k \in Index : (q # t \/ k # i) => v.mem[q][k] = w.mem[q][k]
      BY <1>4, <2>3
    <3>3. DifferAt(w.mem, v.mem, t, i)
      BY <3>1, <3>2 DEF DifferAt
    <3>4. /\ ~Reads(w.mem, u, t, i) => Translate(v.mem, pt, u) = Translate(w.mem, pt, u)
          /\ Reads(w.mem, u, t, i) /\ w.mem[t][i].kind = "empty" =>
               Translate(w.mem, pt, u) = Fault
      BY <1>1, <3>3, WritingOneEntry
    <3> QED
      BY <1>4, <2>4, <3>4
  <2>5. v.halted = w.halted
    BY <1>1, <1>4, <2>3 DEF Going, GoodWalk, WalkType
  <2> QED
    BY <1>4, <2>3, <2>4, <2>5 DEF v
<1> QED
  BY <1>2, <1>3, <1>4

-----------------------------------------------------------------------------
(***************************************************************************)
(* map_page, unmap_page and allocate_a_page.                               *)
(***************************************************************************)

\* What map_page does for everybody else: frames stay marked, no page in a
\* marked frame becomes a table, no mapping is redirected.
Respects(w, v) ==
  /\ Allocated(w.frames) \subseteq Allocated(v.frames)
  /\ \A p \in Ram : p - RamPage \in Allocated(w.frames) => v.level[p] = w.level[p]
  /\ \A u \in Nat : Translate(w.mem, pt, u) # Fault =>
                      Translate(v.mem, pt, u) = Translate(w.mem, pt, u)

\* The start of a walk.
LEMMA StartOfWalk ==
  ASSUME NEW w, GoodWalk(w), Going(w)
  PROVE  LET x == [w EXCEPT !.table = pt]
         IN  GoodWalk(x) /\ Going(x) /\ x.table = pt /\ Unchanged(w, x)
<1> DEFINE x == [w EXCEPT !.table = pt]
<1>1. w \in WalkType /\ Tree(w) /\ pt \in Ram /\ pt \in Nat
  BY PageTableAssumption DEF GoodWalk, Going, Ram
<1>2. x \in WalkType /\ x.ret = w.ret /\ x.table = pt /\ Unchanged(w, x)
  BY <1>1 DEF WalkType, Unchanged
<1> HIDE DEF x
<1>3. Tree(x)
  BY <1>1, <1>2 DEF Tree, TablesOf, Unchanged
<1> QED
  BY <1>1, <1>2, <1>3 DEF GoodWalk, Going, Unchanged, x

\* An early return with an error.
LEMMA EarlyReturn ==
  ASSUME NEW w, GoodWalk(w), NEW r \in ERR_UNABLE_TO_MAP..OK
  PROVE  LET v == [w EXCEPT !.ret = r]
         IN  GoodWalk(v) /\ Unchanged(w, v) /\ v.ret = r
<1> DEFINE v == [w EXCEPT !.ret = r]
<1>1. v \in WalkType /\ v.ret = r /\ Unchanged(w, v)
  BY DEF GoodWalk, WalkType, Unchanged
<1> HIDE DEF v
<1>2. GoodWalk(v)
  BY <1>1 DEF GoodWalk, Tree, TablesOf, Unchanged
<1> QED
  BY <1>1, <1>2 DEF v

LEMMA MapPageStep ==
  ASSUME NEW w, GoodWalk(w), Going(w), satp \in {NULL, pt}, NEW table \in {NULL, pt},
         NEW ppn \in Nat, NEW vpn \in Nat, NEW type \in MapType
  PROVE  LET v == MapPage(w, table, ppn, vpn, type)
         IN  /\ GoodWalk(v) /\ Respects(w, v)
             /\ v.ret # OK => Unchanged(w, v)
             /\ v.ret = OK => RootOf(table) # NULL
<1> DEFINE v == MapPage(w, table, ppn, vpn, type)
           x == [w EXCEPT !.table = pt]
           y == MapWalk(x, vpn, type)
           i == VpnArr(vpn, 3 - type)
<1>1. CASE ppn % Align(type) # 0 \/ vpn % Align(type) # 0
  <2>1. v = [w EXCEPT !.ret = ERR_ALIGN]
    BY <1>1 DEF MapPage
  <2>2. ERR_ALIGN \in ERR_UNABLE_TO_MAP..OK /\ ERR_ALIGN # OK
    BY DEF ERR_UNABLE_TO_MAP, ERR_ALIGN, OK
  <2> QED
    BY <2>1, <2>2, EarlyReturn DEF Respects, Unchanged
<1>2. CASE ~(ppn % Align(type) # 0 \/ vpn % Align(type) # 0) /\ RootOf(table) = NULL
  <2>1. v = [w EXCEPT !.ret = ERR_NULL_PT]
    BY <1>2 DEF MapPage
  <2>2. ERR_NULL_PT \in ERR_UNABLE_TO_MAP..OK /\ ERR_NULL_PT # OK
    BY DEF ERR_UNABLE_TO_MAP, ERR_NULL_PT, OK
  <2> QED
    BY <2>1, <2>2, EarlyReturn DEF Respects, Unchanged
<1>3. CASE ~(ppn % Align(type) # 0 \/ vpn % Align(type) # 0) /\ RootOf(table) # NULL
  <2>1. RootOf(table) = pt
    BY <1>3 DEF RootOf
  <2>2. v = SetLeaf(y, i, ppn)
    BY <1>3, <2>1 DEF MapPage
  <2>3. GoodWalk(x) /\ Going(x) /\ x.table = pt /\ Unchanged(w, x)
    BY StartOfWalk
  <2>4. i \in Index
    BY VpnArrIsIndex DEF MapType, MAP_PAGE, MAP_MEGAPAGE, MAP_GIGAPAGE
  <2> HIDE DEF v, x, i
  <2>5. /\ GoodWalk(y) /\ Grows(x, y) /\ Fresh(x, y)
        /\ y.ret # OK => Unchanged(x, y)
        /\ Going(y) => y.table \in Ram
    BY <2>3, MapWalkStep DEF StandsAt
  <2> HIDE DEF y
  <2>6. /\ GoodWalk(v)
        /\ v.frames = y.frames /\ v.level = y.level /\ v.halted = y.halted
        /\ ~Going(v) => v.mem = y.mem
        /\ Going(y) /\ y.mem[y.table][i] = EmptyPte => Going(v)
        /\ ~Going(y) => v = y
        /\ \A u \in Nat : Translate(y.mem, pt, u) # Fault =>
                            Translate(v.mem, pt, u) = Translate(y.mem, pt, u)
    BY <2>2, <2>4, <2>5, SetLeafStep
  <2>7. Respects(w, v)
    BY <2>3, <2>5, <2>6 DEF Respects, Grows, Unchanged
  <2>8. ASSUME v.ret # OK  PROVE Unchanged(w, v)
    <3>1. Unchanged(x, y) => Unchanged(x, v)
      BY <2>6, <2>8 DEF Unchanged, Going
    <3>2. Unchanged(x, y)
      BY <2>4, <2>5, <2>6, <2>8 DEF Fresh, Going
    <3> QED
      BY <2>3, <3>1, <3>2 DEF Unchanged
  <2> QED
    BY <1>3, <2>6, <2>7, <2>8 DEF v
<1> QED
  BY <1>1, <1>2, <1>3

\* One iteration of unmap_page's loop.
LEMMA FindTableStep ==
  ASSUME NEW w, GoodWalk(w), ~w.halted, NEW n \in 1..2, Going(w) => StandsAt(w, n),
         NEW i \in Index
  PROVE  LET v == FindTable(w, i)
         IN  /\ GoodWalk(v) /\ Unchanged(w, v)
             /\ Going(v) => /\ Going(w) /\ StandsAt(v, n - 1)
                            /\ w.mem[w.table][i] = TablePte(v.table)
<1> DEFINE v == FindTable(w, i)
           e == w.mem[w.table][i]
<1>1. CASE ~Going(w)
  BY <1>1 DEF FindTable, Going, Unchanged
<1>2. CASE Going(w)
  <2>1. w \in WalkType /\ w.table \in Ram /\ w.level[w.table] = n /\ e \in Pte /\ Tree(w)
    BY <1>2 DEF StandsAt, WalkType, GoodWalk, Going
  <2>2. CASE e.kind # "table"
    <3>1. \E r \in ERR_UNABLE_TO_MAP..OK : r # OK /\ v = [w EXCEPT !.ret = r]
      <4>1. /\ ERR_NOT_MAPPED \in ERR_UNABLE_TO_MAP..OK /\ ERR_NOT_MAPPED # OK
            /\ ERR_INCORRECT_MAP_TYPE \in ERR_UNABLE_TO_MAP..OK
            /\ ERR_INCORRECT_MAP_TYPE # OK
        BY DEF ERR_NOT_MAPPED, ERR_INCORRECT_MAP_TYPE, ERR_UNABLE_TO_MAP, OK
      <4>2. e.kind = "empty" => v = [w EXCEPT !.ret = ERR_NOT_MAPPED]
        BY <1>2 DEF FindTable, Going
      <4>3. e.kind = "leaf" => v = [w EXCEPT !.ret = ERR_INCORRECT_MAP_TYPE]
        BY <1>2 DEF FindTable, Going
      <4> QED
        BY <2>1, <2>2, <4>1, <4>2, <4>3 DEF Pte
    <3> HIDE DEF v
    <3> QED
      BY <3>1, EarlyReturn DEF Going, v
  <2>3. CASE e.kind = "table"
    <3>1. v = [w EXCEPT !.table = e.ppn]
      BY <1>2, <2>3 DEF FindTable, Going
    <3>2. e.ppn \in Ram /\ e.ppn \in Nat /\ w.level[e.ppn] = n - 1 /\ e = TablePte(e.ppn)
      BY <2>1, <2>3 DEF Tree, TablesOf, Pte, TablePte
    <3>3. v \in WalkType /\ v.ret = w.ret /\ v.table = e.ppn /\ Unchanged(w, v)
      BY <2>1, <3>1, <3>2 DEF WalkType, Unchanged
    <3> HIDE DEF v
    <3>4. GoodWalk(v)
      BY <2>1, <3>3 DEF GoodWalk, Unchanged, Tree, TablesOf
    <3> QED
      BY <1>2, <3>2, <3>3, <3>4 DEF StandsAt, Unchanged, Going, v
  <2> QED
    BY <2>2, <2>3
<1> QED
  BY <1>1, <1>2

LEMMA UnmapWalkStep ==
  ASSUME NEW w, GoodWalk(w), Going(w), w.table = pt, NEW vpn \in Nat, NEW type \in MapType
  PROVE  LET v == UnmapWalk(w, vpn, type)
         IN  /\ GoodWalk(v) /\ Unchanged(w, v)
             /\ Going(v) => StandsAt(v, 3 - type)
             /\ Going(v) /\ type = MAP_GIGAPAGE => v.table = pt
             /\ Going(v) /\ type = MAP_PAGE =>
                  \E t \in Ram : /\ v.mem[pt][VpnArr(vpn, 2)] = TablePte(t)
                                 /\ v.mem[t][VpnArr(vpn, 1)] = TablePte(v.table)
<1> DEFINE i2 == VpnArr(vpn, 2)
           i1 == VpnArr(vpn, 1)
           v == UnmapWalk(w, vpn, type)
<1>1. i1 \in Index /\ i2 \in Index
  BY VpnArrIsIndex
<1>2. StandsAt(w, 2) /\ ~w.halted /\ 2 - 1 = 1 /\ 1 - 1 = 0
  BY DEF GoodWalk, Going, Tree, StandsAt
<1>3. CASE type = MAP_GIGAPAGE
  <2>1. v = w
    BY <1>3 DEF UnmapWalk, MAP_PAGE, MAP_MEGAPAGE, MAP_GIGAPAGE
  <2> QED
    BY <1>2, <1>3, <2>1 DEF Unchanged, MAP_PAGE, MAP_GIGAPAGE
<1>4. CASE type = MAP_MEGAPAGE
  <2>1. v = FindTable(w, i1)
    BY <1>4 DEF UnmapWalk, MAP_PAGE, MAP_MEGAPAGE, MAP_GIGAPAGE
  <2> HIDE DEF v, i1
  <2>2. GoodWalk(v) /\ Unchanged(w, v) /\ (Going(v) => StandsAt(v, 1))
    BY <1>1, <1>2, <2>1, FindTableStep
  <2> QED
    BY <1>4, <2>2 DEF v, MAP_PAGE, MAP_MEGAPAGE, MAP_GIGAPAGE
<1>5. CASE type = MAP_PAGE
  <2> DEFINE x == FindTable(w, i2)
  <2>1. v = FindTable(x, i1)
    BY <1>5 DEF UnmapWalk, MAP_PAGE, MAP_MEGAPAGE, MAP_GIGAPAGE
  <2> HIDE DEF v, x, i1, i2
  <2>2. /\ GoodWalk(x) /\ Unchanged(w, x) /\ ~x.halted
        /\ Going(x) => StandsAt(x, 1) /\ w.mem[pt][i2] = TablePte(x.table)
    <3>1. 2 \in 1..2
      OBVIOUS
    <3> QED
      BY <1>1, <1>2, <3>1, FindTableStep DEF x, Unchanged
  <2>3. /\ GoodWalk(v) /\ Unchanged(x, v)
        /\ Going(v) => /\ Going(x) /\ StandsAt(v, 0)
                       /\ x.mem[x.table][i1] = TablePte(v.table)
    <3>1. 1 \in 1..2
      OBVIOUS
    <3> QED
      BY <1>1, <1>2, <2>1, <2>2, <3>1, FindTableStep
  <2>4. Going(v) => x.table \in Ram
    BY <2>2, <2>3 DEF StandsAt
  <2> QED
    BY <1>5, <2>2, <2>3, <2>4 DEF v, i1, i2, Unchanged, MAP_PAGE, MAP_GIGAPAGE
<1> QED
  BY <1>3, <1>4, <1>5 DEF MapType

\* The end of unmap_page: the entry is zeroed, whatever it was.
LEMMA ClearEntryStep ==
  ASSUME NEW w, GoodWalk(w), ~w.halted, Going(w) => w.table \in Ram, NEW i \in Index
  PROVE  LET v == ClearEntry(w, i)
         IN  /\ GoodWalk(v)
             /\ v.frames = w.frames /\ v.level = w.level /\ v.halted = w.halted
             /\ ~Going(v) => v.mem = w.mem
             /\ Going(v) =>
                  /\ Going(w) /\ v.mem[w.table][i] = EmptyPte
                  /\ DifferAt(w.mem, v.mem, w.table, i)
<1> DEFINE v == ClearEntry(w, i)
           t == w.table
<1>1. w \in WalkType /\ pt \in Ram
  BY DEF GoodWalk
<1>2. CASE ~Going(w)
  BY <1>2 DEF ClearEntry, Going
<1>3. CASE Going(w) /\ w.mem[t][i].kind = "empty"
  <2>1. v = [w EXCEPT !.ret = ERR_NOT_MAPPED]
    BY <1>3 DEF ClearEntry, Going
  <2>2. ERR_NOT_MAPPED \in ERR_UNABLE_TO_MAP..OK /\ ERR_NOT_MAPPED # OK
    BY DEF ERR_NOT_MAPPED, ERR_UNABLE_TO_MAP, OK
  <2> HIDE DEF v
  <2> QED
    BY <2>1, <2>2, EarlyReturn DEF Unchanged, Going, v
<1>4. CASE Going(w) /\ w.mem[t][i].kind # "empty"
  <2>1. v = [w EXCEPT !.mem[t][i] = EmptyPte]
    BY <1>4 DEF ClearEntry, Going
  <2>2. EmptyPte \in Pte /\ EmptyPte.kind # "table"
    BY DEF EmptyPte, Pte
  <2>3. /\ GoodWalk(v) /\ Going(v)
        /\ v.frames = w.frames /\ v.level = w.level
        /\ \A q \in Ram, k \in Index :
             v.mem[q][k] = IF q = t /\ k = i THEN EmptyPte ELSE w.mem[q][k]
    BY <1>4, <2>1, <2>2, WriteKeepsTree
  <2> HIDE DEF v
  <2>4. v.mem \in [Ram -> [Index -> Pte]] /\ w.mem \in [Ram -> [Index -> Pte]]
    BY <1>1, <2>3 DEF GoodWalk, WalkType
  <2>5. DifferAt(w.mem, v.mem, t, i) /\ v.mem[t][i] = EmptyPte
    BY <1>4, <2>3, <2>4 DEF DifferAt
  <2>6. v.halted = w.halted
    BY <1>1, <1>4, <2>3 DEF Going, GoodWalk, WalkType
  <2> QED
    BY <1>4, <2>3, <2>5, <2>6 DEF v
<1> QED
  BY <1>2, <1>3, <1>4

LEMMA UnmapPageStep ==
  ASSUME NEW w, GoodWalk(w), Going(w), satp \in {NULL, pt}, NEW table \in {NULL, pt},
         NEW vpn \in Nat, NEW type \in MapType
  PROVE  LET v == UnmapPage(w, table, vpn, type)
         IN  /\ GoodWalk(v)
             /\ v.frames = w.frames /\ v.level = w.level /\ v.halted = w.halted
             /\ v.ret # OK => v.mem = w.mem
             /\ \A u \in Nat : \/ Translate(v.mem, pt, u) = Translate(w.mem, pt, u)
                               \/ Translate(v.mem, pt, u) = Fault
<1> DEFINE v == UnmapPage(w, table, vpn, type)
           x == [w EXCEPT !.table = pt]
           y == UnmapWalk(x, vpn, type)
           i == VpnArr(vpn, 3 - type)
<1>1. CASE vpn % Align(type) # 0
  <2>1. v = [w EXCEPT !.ret = ERR_ALIGN]
    BY <1>1 DEF UnmapPage
  <2>2. ERR_ALIGN \in ERR_UNABLE_TO_MAP..OK
    BY DEF ERR_UNABLE_TO_MAP, ERR_ALIGN, OK
  <2> QED
    BY <2>1, <2>2, EarlyReturn DEF Unchanged
<1>2. CASE ~(vpn % Align(type) # 0) /\ RootOf(table) = NULL
  <2>1. v = [w EXCEPT !.ret = ERR_NULL_PT]
    BY <1>2 DEF UnmapPage
  <2>2. ERR_NULL_PT \in ERR_UNABLE_TO_MAP..OK
    BY DEF ERR_UNABLE_TO_MAP, ERR_NULL_PT, OK
  <2> QED
    BY <2>1, <2>2, EarlyReturn DEF Unchanged
<1>3. CASE ~(vpn % Align(type) # 0) /\ RootOf(table) # NULL
  <2>1. v = ClearEntry(y, i)
    BY <1>3 DEF UnmapPage, RootOf
  <2>2. GoodWalk(x) /\ Going(x) /\ x.table = pt /\ Unchanged(w, x)
    BY StartOfWalk
  <2>3. i \in Index
    BY VpnArrIsIndex DEF MapType, MAP_PAGE, MAP_MEGAPAGE, MAP_GIGAPAGE
  <2> HIDE DEF v, x, i
  <2>4. GoodWalk(y) /\ Unchanged(x, y) /\ (Going(y) => y.table \in Ram) /\ ~y.halted
    BY <2>2, UnmapWalkStep DEF StandsAt, Unchanged, Going
  <2> HIDE DEF y
  <2>5. /\ GoodWalk(v)
        /\ v.frames = y.frames /\ v.level = y.level /\ v.halted = y.halted
        /\ ~Going(v) => v.mem = y.mem
        /\ Going(v) => /\ Going(y) /\ v.mem[y.table][i] = EmptyPte
                       /\ DifferAt(y.mem, v.mem, y.table, i)
    BY <2>1, <2>3, <2>4, ClearEntryStep
  <2>6. ASSUME NEW u \in Nat
        PROVE  \/ Translate(v.mem, pt, u) = Translate(y.mem, pt, u)
               \/ Translate(v.mem, pt, u) = Fault
    <3>1. CASE ~Going(v)
      BY <2>5, <3>1
    <3>2. CASE Going(v)
      BY <2>4, <2>5, <3>2, WritingOneEntry DEF GoodWalk, EmptyPte
    <3> QED
      BY <3>1, <3>2
  <2> QED
    BY <2>2, <2>4, <2>5, <2>6 DEF Unchanged, Going, v
<1> QED
  BY <1>1, <1>2, <1>3

\* Marking frames leaves a tree.
LEMMA MarkingKeepsTree ==
  ASSUME NEW w, GoodWalk(w), NEW b \in Bitmap, Allocated(w.frames) \subseteq Allocated(b)
  PROVE  LET x == [w EXCEPT !.frames = b]
         IN  /\ GoodWalk(x) /\ x.frames = b /\ x.mem = w.mem /\ x.level = w.level
             /\ x.halted = w.halted /\ x.ret = w.ret
<1> DEFINE x == [w EXCEPT !.frames = b]
<1>1. /\ x \in WalkType /\ x.frames = b /\ x.mem = w.mem /\ x.level = w.level
      /\ x.halted = w.halted /\ x.ret = w.ret
  BY DEF GoodWalk, WalkType
<1> HIDE DEF x
<1>2. Tree(w) => Tree(x)
  BY <1>1 DEF Tree, TablesOf
<1> QED
  BY <1>1, <1>2 DEF GoodWalk, x

\* The frame of a failed allocate_a_page is given back, if it is low enough.
LEMMA FrameGivenBack ==
  ASSUME NEW b \in Bitmap
  PROVE  LET f == FirstFreeFrame(b)
             c == DeallocateFrame(AllocateFrame(b, f), f)
         IN  /\ c \in Bitmap /\ Allocated(b) \subseteq Allocated(c)
             /\ \A g \in Allocated(c) \ Allocated(b) : g >= FrameBytes
<1> DEFINE f == FirstFreeFrame(b)
           a == AllocateFrame(b, f)
           c == DeallocateFrame(a, f)
<1>1. /\ f \in Nat /\ a \in Bitmap
      /\ \/ f \in Frame \ Allocated(b) /\ Allocated(a) = Allocated(b) \cup {f}
         \/ f = NumFrames /\ a = b
  BY NewFrame
<1> HIDE DEF f, a
<1>2. /\ c \in Bitmap
      /\ Allocated(c) = IF f < FrameBytes THEN Allocated(a) \ {f} ELSE Allocated(a)
  BY <1>1, DeallocateFrameClears
<1> HIDE DEF c
<1>3. NumFrames >= FrameBytes /\ FrameBytes \in Nat
  BY FrameBytesAssumption DEF NumFrames
<1> QED
  BY <1>1, <1>2, <1>3 DEF c, a, f

LEMMA AllocateAPageStep ==
  ASSUME NEW w, GoodWalk(w), Going(w), satp \in {NULL, pt}
  PROVE  LET a == AllocateAPage(w)
             v == a.walk
         IN  /\ GoodWalk(v) /\ Respects(w, v) /\ a.ppn \in Nat
             /\ v.ret # OK => /\ v.mem = w.mem /\ v.level = w.level /\ v.halted = w.halted
                              /\ \A g \in Allocated(v.frames) \ Allocated(w.frames) :
                                   g >= FrameBytes
             /\ v.ret = OK =>
                  /\ satp = pt /\ a.vpn \in Nat
                  /\ \/ a.ppn = RamPage - 1 /\ Allocated(w.frames) = Frame
                     \/ /\ a.ppn - RamPage \in Allocated(v.frames) \ Allocated(w.frames)
                        /\ a.ppn \in Ram => v.level[a.ppn] = -1
<1> DEFINE f == FirstFreeFrame(w.frames)
           b == AllocateFrame(w.frames, f)
           c == DeallocateFrame(b, f)
           ppn == FrameToPpn(RamPage, AllocateFrameResult(f))
           w1 == [w EXCEPT !.frames = b]
           Try(vpn) == MapPage(w1, NULL, ppn, vpn, MAP_PAGE)
           vpns == {vpn \in AllocVpns : Try(vpn).ret = OK}
           a == AllocateAPage(w)
<1>1. w \in WalkType /\ w.frames \in Bitmap /\ pt \in Ram /\ Tree(w)
  BY DEF GoodWalk, WalkType, Going
<1>2. /\ f \in Nat /\ ppn \in Nat /\ b \in Bitmap
      /\ Allocated(w.frames) \subseteq Allocated(b)
      /\ \/ /\ ppn = RamPage + f /\ f \in Frame \ Allocated(w.frames)
            /\ Allocated(b) = Allocated(w.frames) \cup {f}
         \/ ppn = RamPage - 1 /\ Allocated(w.frames) = Frame
  BY <1>1, NewFrame
<1>3. /\ GoodWalk(w1) /\ Going(w1) /\ w1.frames = b /\ w1.mem = w.mem /\ w1.level = w.level
      /\ w1.halted = w.halted
  BY <1>1, <1>2, MarkingKeepsTree DEF Going
<1>4. /\ vpns = {} => a = [walk |-> [w1 EXCEPT !.frames = DeallocateFrame(w1.frames, f),
                                               !.ret = ERR_UNABLE_TO_MAP],
                           vpn |-> 0, ppn |-> 0]
      /\ vpns # {} => a = [walk |-> Try(Min(vpns)), vpn |-> Min(vpns), ppn |-> ppn]
  BY DEF AllocateAPage
<1> HIDE DEF a
<1>5. CASE vpns = {}
  <2> DEFINE w2 == [w EXCEPT !.frames = c]
  <2>1. /\ c \in Bitmap /\ Allocated(w.frames) \subseteq Allocated(c)
        /\ \A g \in Allocated(c) \ Allocated(w.frames) : g >= FrameBytes
    BY <1>1, FrameGivenBack
  <2>2. a.walk = [w2 EXCEPT !.ret = ERR_UNABLE_TO_MAP] /\ a.ppn = 0
    <3>1. [w1 EXCEPT !.frames = DeallocateFrame(w1.frames, f), !.ret = ERR_UNABLE_TO_MAP]
            = [w2 EXCEPT !.ret = ERR_UNABLE_TO_MAP]
      BY <1>1, <1>3 DEF WalkType
    <3> QED
      BY <1>4, <1>5, <3>1
  <2> HIDE DEF c
  <2>3. /\ GoodWalk(w2) /\ w2.frames = c /\ w2.mem = w.mem /\ w2.level = w.level
        /\ w2.halted = w.halted
    BY <2>1, MarkingKeepsTree
  <2>4. ERR_UNABLE_TO_MAP \in ERR_UNABLE_TO_MAP..OK /\ ERR_UNABLE_TO_MAP # OK
    BY DEF ERR_UNABLE_TO_MAP, OK
  <2> HIDE DEF w2
  <2>5. GoodWalk(a.walk) /\ Unchanged(w2, a.walk) /\ a.walk.ret = ERR_UNABLE_TO_MAP
    BY <2>2, <2>3, <2>4, EarlyReturn
  <2> QED
    BY <2>1, <2>2, <2>3, <2>4, <2>5 DEF Unchanged, Respects, a
<1>6. CASE vpns # {}
  <2> DEFINE vpn == Min(vpns)
             v == Try(vpn)
  <2>1. vpn \in vpns
    <3>1. vpns \in SUBSET Nat
      BY PageTableAssumption DEF Vpn
    <3> HIDE DEF vpns
    <3> QED
      BY <1>6, <3>1, MinOfNats
  <2>2. vpn \in Nat /\ v.ret = OK
    BY <2>1, PageTableAssumption DEF Vpn
  <2>3. a.walk = v /\ a.vpn = vpn /\ a.ppn = ppn
    BY <1>4, <1>6
  <2> HIDE DEF vpns, vpn, w1, ppn, b, f
  <2>4. GoodWalk(v) /\ Respects(w1, v) /\ RootOf(NULL) # NULL
    <3>1. MAP_PAGE \in MapType /\ NULL \in {NULL, pt}
      BY DEF MapType
    <3> QED
      BY <1>2, <1>3, <2>2, <3>1, MapPageStep
  <2>5. satp = pt
    BY <2>4 DEF RootOf
  <2>6. Respects(w, v)
    BY <1>2, <1>3, <2>4 DEF Respects
  <2>7. ASSUME ppn = RamPage + f, f \in Frame \ Allocated(w.frames),
               Allocated(b) = Allocated(w.frames) \cup {f}
        PROVE  /\ ppn - RamPage \in Allocated(v.frames) \ Allocated(w.frames)
               /\ ppn \in Ram => v.level[ppn] = -1
    <3>1. ppn - RamPage = f
      BY <1>2, <2>7, PageTableAssumption
    <3>2. ppn \in Ram => w.level[ppn] = -1
      BY <1>1, <2>7, <3>1 DEF Tree, TablesOf
    <3> QED
      BY <1>3, <2>4, <2>7, <3>1, <3>2 DEF Respects
  <2>8. \/ ppn = RamPage - 1 /\ Allocated(w.frames) = Frame
        \/ /\ ppn - RamPage \in Allocated(v.frames) \ Allocated(w.frames)
           /\ ppn \in Ram => v.level[ppn] = -1
    BY <1>2, <2>7
  <2> HIDE DEF v
  <2> QED
    BY <1>2, <2>2, <2>3, <2>4, <2>5, <2>6, <2>8 DEF v, a
<1> QED
  BY <1>5, <1>6

-----------------------------------------------------------------------------
(***************************************************************************)
(* The state machine.                                                      *)
(***************************************************************************)

\* The invariant, of the state and of its walk record.
LEMMA StateIsGoodWalk == IInv /\ ~halted => GoodWalk(Walk) /\ Going(Walk)
<1> SUFFICES ASSUME IInv, ~halted  PROVE GoodWalk(Walk) /\ Going(Walk)
  OBVIOUS
<1>1. /\ Walk.mem = mem /\ Walk.frames = frames /\ Walk.level = level /\ Walk.ret = OK
      /\ Walk.halted = FALSE
  BY DEF Walk
<1>2. Walk \in WalkType /\ pt \in Ram
  BY DEF IInv, TypeOK, Walk, WalkType, NULL, OK, ERR_UNABLE_TO_MAP
<1>3. TablesOf(Walk) = TablePages
  BY <1>1 DEF TablesOf, TablePages
<1>4. Tree(Walk)
  <2>1. /\ RootIsUnique /\ EntriesPointDown /\ ParentsAreUnique
        /\ FramesOf(TablePages) \cup BootFrames \subseteq Allocated(frames)
        /\ FramesOf(TablePages) \cap BootFrames = {}
    BY DEF IInv, TablesFormATree, TablesAreAllocated
  <2>2. /\ \A p \in TablesOf(Walk) : p - RamPage \in Allocated(Walk.frames) \ BootFrames
        /\ BootFrames \subseteq Allocated(Walk.frames)
    BY <1>1, <1>3, <2>1 DEF FramesOf
  <2>3. \A p \in Ram : Walk.level[p] = 2 <=> p = pt
    BY <1>1, <2>1 DEF RootIsUnique
  <2>4. \A p \in TablesOf(Walk), i \in Index :
          Walk.mem[p][i].kind = "table" =>
            /\ Walk.mem[p][i].ppn \in Ram
            /\ Walk.level[p] > 0 /\ Walk.level[Walk.mem[p][i].ppn] = Walk.level[p] - 1
    BY <1>1, <1>3, <2>1 DEF EntriesPointDown
  <2>5. \A p, q \in TablesOf(Walk) : \A i, j \in Index :
          (Walk.mem[p][i].kind = "table" /\ Walk.mem[q][j] = Walk.mem[p][i])
            => (p = q /\ i = j)
    BY <1>1, <1>3, <2>1 DEF ParentsAreUnique
  <2> QED
    BY <2>2, <2>3, <2>4, <2>5 DEF Tree
<1> QED
  BY <1>1, <1>2, <1>4 DEF GoodWalk, Going

LEMMA NoBlockIsBlock == NoBlock \in Blocks
BY DEF NoBlock, BlockOf, Blocks

\* The block a call names.
LEMMA CalledBlocks ==
  ASSUME NEW vpn \in Nat, NEW ppn \in Nat
  PROVE  /\ \A type \in MapType : BlockOf(vpn, Align(type), ppn) \in Blocks
         /\ BlockOf(vpn, 1, ppn) \in Blocks
<1>1. \A type \in MapType : Align(type) \in Sizes(MapType)
  BY DEF Sizes
<1>2. 1 \in Sizes(MapType)
  <2>1. Align(MAP_PAGE) = 1
    BY DEF Align, MAP_PAGE, MAP_MEGAPAGE, MAP_GIGAPAGE
  <2> QED
    BY <1>1, <2>1 DEF MapType
<1> QED
  BY <1>1, <1>2 DEF BlockOf, Blocks

LEMMA CommittedWalk ==
  ASSUME IInv, NEW v, GoodWalk(v), NEW op \in {"map", "unmap", "allocate"},
         NEW block, v.ret = OK => block \in Blocks,
         Commit(v, op, block), pt' = pt, satp' = satp, data' \subseteq Nat
  PROVE  TypeOK' /\ TablesFormATree'
<1>1. /\ mem' = v.mem /\ frames' = v.frames /\ level' = v.level /\ halted' = v.halted
      /\ last' = [op |-> op, ret |-> v.ret,
                  block |-> IF v.ret = OK /\ ~v.halted THEN block ELSE NoBlock]
  BY DEF Commit
<1>2. v \in WalkType /\ pt \in Ram
  BY DEF GoodWalk
<1>3. TypeOK'
  <2>1. last' \in [op : {"init", "map", "unmap", "allocate"},
                   ret : ERR_UNABLE_TO_MAP..OK, block : Blocks]
    BY <1>1, <1>2, NoBlockIsBlock DEF WalkType
  <2> QED
    BY <1>1, <1>2, <2>1 DEF IInv, TypeOK, WalkType
<1>4. ASSUME ~halted'  PROVE (RootIsUnique /\ EntriesPointDown /\ ParentsAreUnique
                               /\ TablesAreAllocated)'
  <2>1. Tree(v)
    BY <1>1, <1>4 DEF GoodWalk
  <2>2. TablePages' = TablesOf(v)
    BY <1>1 DEF TablesOf, TablePages
  <2>3. RootIsUnique'
    BY <1>1, <2>1 DEF RootIsUnique, Tree
  <2>4. EntriesPointDown'
    BY <1>1, <2>1, <2>2 DEF EntriesPointDown, Tree
  <2>5. ParentsAreUnique'
    BY <1>1, <2>1, <2>2 DEF ParentsAreUnique, Tree
  <2>6. TablesAreAllocated'
    <3>1. Allocated(frames)' = Allocated(v.frames)
      BY <1>1
    <3>2. FramesOf(TablePages)' = {p - RamPage : p \in TablesOf(v)}
      BY <2>2 DEF FramesOf
    <3> QED
      BY <2>1, <3>1, <3>2 DEF TablesAreAllocated, Tree
  <2> QED
    BY <2>3, <2>4, <2>5, <2>6
<1> QED
  BY <1>3, <1>4 DEF TablesFormATree

\* What is handed out stays private through a call that respects it.
LEMMA DataStays ==
  ASSUME IInv, NEW v, Respects(Walk, v), frames' = v.frames, level' = v.level
  PROVE  \A p \in data :
           \/ p = RamPage - 1
           \/ /\ p - RamPage \in Allocated(frames)' \ BootFrames
              /\ p \in Ram => level'[p] = -1
<1>1. Walk.frames = frames /\ Walk.level = level
  BY DEF Walk
<1> QED
  BY <1>1 DEF IInv, DataInv, Respects

LEMMA CallMapPageIInv ==
  ASSUME IInv, NEW table \in {NULL, pt}, NEW ppn \in Nat, NEW vpn \in Nat,
         NEW type \in MapType, CallMapPage(table, ppn, vpn, type)
  PROVE  IInv'
<1> DEFINE v == MapPage(Walk, table, ppn, vpn, type)
<1>1. ~halted /\ Commit(v, "map", BlockOf(vpn, Align(type), ppn)) /\ pt' = pt /\ satp' = satp /\ data' = data
  BY DEF CallMapPage
<1>2. GoodWalk(v) /\ Respects(Walk, v)
  BY <1>1, StateIsGoodWalk, MapPageStep DEF IInv, TypeOK
<1> HIDE DEF v
<1>3. TypeOK' /\ TablesFormATree'
  BY <1>1, <1>2, CalledBlocks, CommittedWalk DEF IInv, TypeOK
<1>4. frames' = v.frames /\ level' = v.level /\ last'.op = "map"
  BY <1>1 DEF Commit
<1>5. DataInv'
  BY <1>1, <1>2, <1>4, DataStays DEF DataInv
<1> QED
  BY <1>3, <1>4, <1>5 DEF IInv, NothingHandedOutYet

LEMMA CallUnmapPageIInv ==
  ASSUME IInv, NEW table \in {NULL, pt}, NEW vpn \in Nat,
         NEW type \in MapType, CallUnmapPage(table, vpn, type)
  PROVE  IInv'
<1> DEFINE v == UnmapPage(Walk, table, vpn, type)
<1>1. ~halted /\ Commit(v, "unmap", BlockOf(vpn, Align(type), 0)) /\ pt' = pt /\ satp' = satp /\ data' = data
  BY DEF CallUnmapPage
<1>2. GoodWalk(v) /\ v.frames = Walk.frames /\ v.level = Walk.level
  BY <1>1, StateIsGoodWalk, UnmapPageStep DEF IInv, TypeOK
<1> HIDE DEF v
<1>3. TypeOK' /\ TablesFormATree'
  BY <1>1, <1>2, CalledBlocks, CommittedWalk DEF IInv, TypeOK
<1>4. frames' = frames /\ level' = level /\ last'.op = "unmap"
  BY <1>1, <1>2 DEF Commit, Walk
<1>5. DataInv'
  BY <1>1, <1>4 DEF IInv, DataInv
<1> QED
  BY <1>3, <1>4, <1>5 DEF IInv, NothingHandedOutYet

LEMMA CallAllocateAPageIInv == IInv /\ CallAllocateAPage => IInv'
<1> SUFFICES ASSUME IInv, CallAllocateAPage  PROVE IInv'
  OBVIOUS
<1> DEFINE a == AllocateAPage(Walk)
           v == a.walk
<1>1. /\ ~halted /\ Commit(v, "allocate", BlockOf(a.vpn, 1, a.ppn)) /\ pt' = pt /\ satp' = satp
      /\ data' = IF v.ret = OK /\ ~v.halted THEN data \cup {a.ppn} ELSE data
  BY DEF CallAllocateAPage
<1>2. /\ GoodWalk(v) /\ Respects(Walk, v) /\ a.ppn \in Nat
      /\ v.ret = OK =>
           /\ satp = pt /\ a.vpn \in Nat
           /\ \/ a.ppn = RamPage - 1
              \/ /\ a.ppn - RamPage \in Allocated(v.frames) \ Allocated(Walk.frames)
                 /\ a.ppn \in Ram => v.level[a.ppn] = -1
  BY <1>1, StateIsGoodWalk, AllocateAPageStep DEF IInv, TypeOK
<1> HIDE DEF a
<1>3. TypeOK' /\ TablesFormATree'
  <2>1. data' \subseteq Nat
    BY <1>1, <1>2 DEF IInv, TypeOK
  <2> QED
    BY <1>1, <1>2, <2>1, CalledBlocks, CommittedWalk
<1>4. /\ mem' = v.mem /\ frames' = v.frames /\ level' = v.level
      /\ last'.op = "allocate" /\ last'.ret = v.ret
  BY <1>1 DEF Commit
<1>5. BootFrames \subseteq Allocated(Walk.frames)
  BY <1>1, StateIsGoodWalk DEF GoodWalk, Going, Tree
<1>6. DataInv'
  <2>1. \A p \in data :
          \/ p = RamPage - 1
          \/ /\ p - RamPage \in Allocated(frames)' \ BootFrames
             /\ p \in Ram => level'[p] = -1
    BY <1>2, <1>4, DataStays
  <2>2. v.ret = OK =>
          \/ a.ppn = RamPage - 1
          \/ /\ a.ppn - RamPage \in Allocated(frames)' \ BootFrames
             /\ a.ppn \in Ram => level'[a.ppn] = -1
    BY <1>2, <1>4, <1>5
  <2> QED
    BY <1>1, <2>1, <2>2 DEF DataInv
<1> QED
  BY <1>1, <1>2, <1>3, <1>4, <1>6 DEF IInv, NothingHandedOutYet

LEMMA WriteSatpIInv == IInv /\ WriteSatp => IInv'
BY DEF IInv, WriteSatp, TypeOK, TablesFormATree, RootIsUnique, EntriesPointDown,
       ParentsAreUnique, TablesAreAllocated, TablePages, FramesOf, DataInv,
       NothingHandedOutYet

LEMMA StutterIInv == IInv /\ UNCHANGED vars => IInv'
BY DEF IInv, vars, TypeOK, TablesFormATree, RootIsUnique, EntriesPointDown,
       ParentsAreUnique, TablesAreAllocated, TablePages, FramesOf, DataInv,
       NothingHandedOutYet

\* The root is the first free frame, and RAM has it.
\* init_frames() marked the boot frames, enable_paging took the next for the root.
LEMMA RootTakesAFrame ==
  ASSUME Init
  PROVE  LET root == FirstFreeFrame(BootBitmap)
         IN  /\ root \in Frame \ BootFrames /\ root \in Nat /\ root < RamPages
             /\ frames \in Bitmap /\ Allocated(frames) = BootFrames \cup {root}
<1> DEFINE root == FirstFreeFrame(BootBitmap)
<1>1. BootBitmap \in Bitmap /\ Allocated(BootBitmap) = BootFrames
  <2>1. BootBitmap \in Bitmap
    BY DEF BootBitmap, Bitmap
  <2>2. ASSUME NEW g \in Frame  PROVE g \in Allocated(BootBitmap) <=> g \in BootFrames
    <3>1. /\ g \div 8 \in 0..(FrameBytes - 1) /\ g % 8 \in Bits
          /\ 8 * (g \div 8) + (g % 8) = g
      BY FrameNumbers, FrameBytesAssumption DEF Frame, NumFrames
    <3>2. BootBitmap[g \div 8] = {j \in Bits : 8 * (g \div 8) + j \in BootFrames}
      BY <3>1 DEF BootBitmap
    <3> QED
      BY <3>1, <3>2 DEF Allocated, IsAllocated
  <2> QED
    BY <2>1, <2>2, PageTableAssumption DEF Allocated
<1>2. /\ root \in Frame \ BootFrames /\ root \in Nat /\ root < RamPages
      /\ frames \in Bitmap /\ Allocated(frames) = BootFrames \cup {root}
  <2>1. PICK f \in Frame \ BootFrames : f < RamPages
    BY RootFrameAssumption
  <2>2. /\ root \in Nat
        /\ root \in Frame => root \notin Allocated(BootBitmap)
        /\ root \notin Frame => Allocated(BootBitmap) = Frame
        /\ \A g \in Frame : g < root => g \in Allocated(BootBitmap)
    BY <1>1, FirstFreeFrameIsLeast
  <2>3. frames = AllocateFrame(BootBitmap, root)
    BY DEF Init
  <2> HIDE DEF root
  <2>4. /\ frames \in Bitmap
        /\ Allocated(frames) = BootFrames \cup ({root} \cap Frame)
    BY <1>1, <2>2, <2>3, AllocateFrameMarks
  <2>5. root \in Frame
    BY <1>1, <2>1, <2>2
  <2>6. root <= f /\ f \in Nat
    BY <1>1, <2>1, <2>2, FrameBytesAssumption DEF Frame, NumFrames
  <2> QED
    BY <1>1, <2>1, <2>2, <2>4, <2>5, <2>6, PageTableAssumption
<1> QED
  BY <1>2

LEMMA InitIInv == Init => IInv
<1> SUFFICES ASSUME Init  PROVE IInv
  OBVIOUS
<1> DEFINE root == FirstFreeFrame(BootBitmap)
<1>1. /\ root \in Frame \ BootFrames /\ root \in Nat /\ root < RamPages
      /\ frames \in Bitmap /\ Allocated(frames) = BootFrames \cup {root}
  BY RootTakesAFrame
<1>2. /\ pt = RamPage + root
      /\ mem = [p \in Ram |-> IF p = pt THEN [i \in Index |-> EmptyPte] ELSE Stale]
      /\ level = [p \in Ram |-> IF p = pt THEN 2 ELSE -1]
      /\ satp = NULL /\ halted = FALSE /\ data = {} 
      /\ last = [op |-> "init", ret |-> OK, block |-> NoBlock]
  BY DEF Init, FrameToPpn
<1> HIDE DEF root
<1>3. pt \in Ram /\ pt - RamPage = root
  BY <1>1, <1>2, PageTableAssumption DEF Ram
<1>4. EmptyPte \in Pte /\ EmptyPte.kind = "empty"
  BY DEF EmptyPte, Pte
<1>5. TypeOK
  <2>1. mem \in [Ram -> [Index -> Pte]]
    BY <1>2, <1>4, PageTableAssumption
  <2>2. level \in [Ram -> -1..2]
    BY <1>2
  <2>3. last \in [op : {"init", "map", "unmap", "allocate"},
                  ret : ERR_UNABLE_TO_MAP..OK, block : Blocks]
    BY <1>2, NoBlockIsBlock DEF OK, ERR_UNABLE_TO_MAP
  <2> QED
    BY <1>1, <1>2, <1>3, <2>1, <2>2, <2>3 DEF TypeOK
<1>6. TablePages = {pt} /\ \A i \in Index : mem[pt][i] = EmptyPte
  BY <1>2, <1>3 DEF TablePages
<1>7. TablesFormATree
  <2>1. RootIsUnique
    BY <1>2, <1>3 DEF RootIsUnique
  <2>2. EntriesPointDown /\ ParentsAreUnique
    BY <1>4, <1>6 DEF EntriesPointDown, ParentsAreUnique
  <2>3. TablesAreAllocated
    BY <1>1, <1>3, <1>6 DEF TablesAreAllocated, FramesOf
  <2> QED
    BY <2>1, <2>2, <2>3 DEF TablesFormATree
<1> QED
  BY <1>2, <1>5, <1>7 DEF IInv, DataInv, NothingHandedOutYet

\* The arguments of the calls considered.
LEMMA CallArguments ==
  ASSUME IInv
  PROVE  /\ CallPpns \subseteq Nat /\ CallVpns \subseteq Nat /\ AllocVpns \subseteq Nat
         /\ MapTypes \subseteq MapType /\ UnmapTypes \subseteq MapType
         /\ Tables \subseteq {NULL, pt}
BY PageTableAssumption DEF Vpn, Tables

LEMMA NextIInv == IInv /\ [Next]_vars => IInv'
<1> SUFFICES ASSUME IInv, [Next]_vars  PROVE IInv'
  OBVIOUS
<1>1. ASSUME NEW table \in Tables, NEW ppn \in CallPpns, NEW vpn \in CallVpns,
             NEW type \in MapTypes, CallMapPage(table, ppn, vpn, type)
      PROVE  IInv'
  BY <1>1, CallArguments, CallMapPageIInv
<1>2. ASSUME NEW table \in Tables, NEW vpn \in CallVpns, NEW type \in UnmapTypes,
             CallUnmapPage(table, vpn, type)
      PROVE  IInv'
  BY <1>2, CallArguments, CallUnmapPageIInv
<1>3. CASE CallAllocateAPage
  BY <1>3, CallAllocateAPageIInv
<1>4. CASE WriteSatp
  BY <1>4, WriteSatpIInv
<1>5. CASE Hang
  BY <1>5, StutterIInv DEF Hang
<1>6. CASE UNCHANGED vars
  BY <1>6, StutterIInv
<1> QED
  BY <1>1, <1>2, <1>3, <1>4, <1>5, <1>6 DEF Next

(***************************************************************************)
(* The invariant holds in every state.                                     *)
(***************************************************************************)
THEOREM Invariance == Spec => []IInv
BY InitIInv, NextIInv, PTL DEF Spec

(***************************************************************************)
(* The bitmap, the memory of the tables and the results of calls have      *)
(* their types; the root stays the root.                                   *)
(***************************************************************************)
THEOREM PageTableTypeCorrect == Spec => []TypeOK
BY Invariance, PTL DEF IInv

(***************************************************************************)
(* Unless the kernel hangs, the tables form a tree of fixed depth, each in *)
(* a marked frame of its own, after any sequence of map_page, unmap_page   *)
(* and allocate_a_page calls of any sizes.                                 *)
(***************************************************************************)
THEOREM TablesStayATree == Spec => []TablesFormATree
BY Invariance, PTL DEF IInv

(***************************************************************************)
(* A page of RAM that allocate_a_page returned never becomes a page table, *)
(* is not boot memory and stays marked.                                    *)
(***************************************************************************)
THEOREM PagesArePrivate == Spec => []HandedOutPagesArePrivate
<1>1. IInv => HandedOutPagesArePrivate
  <2> SUFFICES ASSUME IInv, NEW p \in data \cap Ram
               PROVE  level[p] = -1 /\ p - RamPage \in Allocated(frames) \ BootFrames
    BY DEF HandedOutPagesArePrivate
  <2>1. p # RamPage - 1
    BY PageTableAssumption DEF Ram
  <2> QED
    BY <2>1 DEF IInv, DataInv
<1> QED
  BY <1>1, Invariance, PTL

-----------------------------------------------------------------------------
(***************************************************************************)
(* The action properties.  First, what each call does to the state.        *)
(***************************************************************************)

LEMMA CallMapPageEffect ==
  ASSUME IInv, NEW table \in {NULL, pt}, NEW ppn \in Nat, NEW vpn \in Nat,
         NEW type \in MapType, CallMapPage(table, ppn, vpn, type)
  PROVE  /\ last'.op = "map" /\ data' = data /\ pt' = pt
         /\ Allocated(frames) \subseteq Allocated(frames')
         /\ last'.ret # OK => mem' = mem /\ level' = level /\ frames' = frames
         /\ \A u \in Nat : Translate(mem, pt, u) # Fault =>
                             Translate(mem', pt, u) = Translate(mem, pt, u)
<1> DEFINE v == MapPage(Walk, table, ppn, vpn, type)
<1>1. ~halted /\ Commit(v, "map", BlockOf(vpn, Align(type), ppn)) /\ pt' = pt /\ data' = data
  BY DEF CallMapPage
<1>2. Respects(Walk, v) /\ (v.ret # OK => Unchanged(Walk, v))
  BY <1>1, StateIsGoodWalk, MapPageStep DEF IInv, TypeOK
<1>3. Walk.mem = mem /\ Walk.frames = frames /\ Walk.level = level
  BY DEF Walk
<1> HIDE DEF v
<1> QED
  BY <1>1, <1>2, <1>3 DEF Commit, Respects, Unchanged

LEMMA CallUnmapPageEffect ==
  ASSUME IInv, NEW table \in {NULL, pt}, NEW vpn \in Nat,
         NEW type \in MapType, CallUnmapPage(table, vpn, type)
  PROVE  /\ last'.op = "unmap" /\ data' = data /\ pt' = pt
         /\ level' = level /\ frames' = frames
         /\ last'.ret # OK => mem' = mem
         /\ \A u \in Nat : \/ Translate(mem', pt, u) = Translate(mem, pt, u)
                           \/ Translate(mem', pt, u) = Fault
<1> DEFINE v == UnmapPage(Walk, table, vpn, type)
<1>1. ~halted /\ Commit(v, "unmap", BlockOf(vpn, Align(type), 0)) /\ pt' = pt /\ data' = data
  BY DEF CallUnmapPage
<1>2. /\ v.frames = Walk.frames /\ v.level = Walk.level
      /\ v.ret # OK => v.mem = Walk.mem
      /\ \A u \in Nat : \/ Translate(v.mem, pt, u) = Translate(Walk.mem, pt, u)
                        \/ Translate(v.mem, pt, u) = Fault
  BY <1>1, StateIsGoodWalk, UnmapPageStep DEF IInv, TypeOK
<1>3. Walk.mem = mem /\ Walk.frames = frames /\ Walk.level = level
  BY DEF Walk
<1> HIDE DEF v
<1> QED
  BY <1>1, <1>2, <1>3 DEF Commit

LEMMA CallAllocateAPageEffect ==
  ASSUME IInv, CallAllocateAPage
  PROVE  /\ last'.op = "allocate" /\ pt' = pt
         /\ Allocated(frames) \subseteq Allocated(frames')
         /\ last'.ret # OK =>
              /\ mem' = mem /\ level' = level
              /\ \A g \in Allocated(frames') \ Allocated(frames) : g >= FrameBytes
         /\ last'.ret = OK /\ ~halted' /\ Allocated(frames) # Frame => data' # data
         /\ \A u \in Nat : Translate(mem, pt, u) # Fault =>
                             Translate(mem', pt, u) = Translate(mem, pt, u)
<1> DEFINE a == AllocateAPage(Walk)
           v == a.walk
<1>1. /\ ~halted /\ Commit(v, "allocate", BlockOf(a.vpn, 1, a.ppn)) /\ pt' = pt
      /\ data' = IF v.ret = OK /\ ~v.halted THEN data \cup {a.ppn} ELSE data
  BY DEF CallAllocateAPage
<1>2. /\ Respects(Walk, v)
      /\ v.ret # OK => /\ v.mem = Walk.mem /\ v.level = Walk.level
                       /\ \A g \in Allocated(v.frames) \ Allocated(Walk.frames) :
                            g >= FrameBytes
      /\ v.ret = OK =>
           \/ a.ppn = RamPage - 1 /\ Allocated(Walk.frames) = Frame
           \/ a.ppn - RamPage \in Allocated(v.frames) \ Allocated(Walk.frames)
  BY <1>1, StateIsGoodWalk, AllocateAPageStep DEF IInv, TypeOK
<1>3. Walk.mem = mem /\ Walk.frames = frames /\ Walk.level = level
  BY DEF Walk
<1> HIDE DEF a
<1>4. /\ mem' = v.mem /\ frames' = v.frames /\ level' = v.level /\ halted' = v.halted
      /\ last'.op = "allocate" /\ last'.ret = v.ret
  BY <1>1 DEF Commit
<1>5. ASSUME v.ret = OK, ~v.halted, Allocated(frames) # Frame  PROVE data' # data
  <2>1. a.ppn \in data' /\ a.ppn - RamPage \in Allocated(v.frames) \ Allocated(frames)
    BY <1>1, <1>2, <1>3, <1>5
  <2>2. a.ppn # RamPage - 1
    BY <2>1, PageTableAssumption DEF Allocated, Frame
  <2>3. a.ppn \notin data
    BY <2>1, <2>2 DEF IInv, DataInv
  <2> QED
    BY <2>1, <2>3
<1> QED
  BY <1>1, <1>2, <1>3, <1>4, <1>5 DEF Respects

(***************************************************************************)
(* allocate_a_page never returns a page twice while some frame is free.    *)
(***************************************************************************)
THEOREM HandedOutOnce == Spec => PagesAreHandedOutOnce
<1> DEFINE A == (/\ last'.op = "allocate" /\ last'.ret = OK /\ ~halted'
                 /\ Allocated(frames) # Frame) => data' # data
<1>1. IInv /\ [Next]_vars => [A]_vars
  <2> SUFFICES ASSUME IInv, Next, last'.op = "allocate", last'.ret = OK, ~halted',
                      Allocated(frames) # Frame, ~ UNCHANGED vars
               PROVE  data' # data
    OBVIOUS
  <2>1. ASSUME NEW table \in Tables, NEW ppn \in CallPpns, NEW vpn \in CallVpns,
               NEW type \in MapTypes, CallMapPage(table, ppn, vpn, type)
        PROVE  data' # data
    BY <2>1, CallArguments, CallMapPageEffect
  <2>2. ASSUME NEW table \in Tables, NEW vpn \in CallVpns, NEW type \in UnmapTypes,
               CallUnmapPage(table, vpn, type)
        PROVE  data' # data
    BY <2>2, CallArguments, CallUnmapPageEffect
  <2>3. CASE CallAllocateAPage
    BY <2>3, CallAllocateAPageEffect
  <2>4. CASE WriteSatp
    <3>1. last' = last /\ satp = NULL /\ pt # NULL
      BY <2>4, PageTableAssumption DEF WriteSatp, IInv, TypeOK, Ram, NULL
    <3> QED
      BY <3>1 DEF IInv, NothingHandedOutYet
  <2>5. CASE Hang
    BY <2>5 DEF Hang
  <2> QED
    BY <2>1, <2>2, <2>3, <2>4, <2>5 DEF Next
<1> QED
  BY <1>1, Invariance, PTL DEF Spec, PagesAreHandedOutOnce

(***************************************************************************)
(* A call that returns an error leaves every table as it was and costs no  *)
(* frame, but for one that deallocate_frame cannot give back.              *)
(***************************************************************************)
THEOREM FailuresAreClean == Spec => FailedCallsChangeNothing
<1> DEFINE A == last'.ret # OK =>
                  /\ mem' = mem /\ level' = level
                  /\ Allocated(frames) \subseteq Allocated(frames')
                  /\ \A f \in Allocated(frames') \ Allocated(frames) :
                       last'.op = "allocate" /\ f >= FrameBytes
<1>1. IInv /\ [Next]_vars => [A]_vars
  <2> SUFFICES ASSUME IInv, Next  PROVE A \/ UNCHANGED vars
    OBVIOUS
  <2>1. ASSUME NEW table \in Tables, NEW ppn \in CallPpns, NEW vpn \in CallVpns,
               NEW type \in MapTypes, CallMapPage(table, ppn, vpn, type)
        PROVE  A
    BY <2>1, CallArguments, CallMapPageEffect
  <2>2. ASSUME NEW table \in Tables, NEW vpn \in CallVpns, NEW type \in UnmapTypes,
               CallUnmapPage(table, vpn, type)
        PROVE  A
    BY <2>2, CallArguments, CallUnmapPageEffect
  <2>3. CASE CallAllocateAPage
    BY <2>3, CallAllocateAPageEffect
  <2>4. CASE WriteSatp
    BY <2>4 DEF WriteSatp
  <2>5. CASE Hang
    BY <2>5 DEF Hang
  <2> QED
    BY <2>1, <2>2, <2>3, <2>4, <2>5 DEF Next
<1> QED
  BY <1>1, Invariance, PTL DEF Spec, FailedCallsChangeNothing

(***************************************************************************)
(* No call redirects a page: what a mapped page translates to changes only *)
(* by an unmap_page that ends its translation, whatever the sizes.         *)
(***************************************************************************)
THEOREM MappingsStayPut == Spec => MappingsAreStable
<1> DEFINE A == \A v \in Vpn :
                  LET before == Translate(mem, pt, v)
                      after == Translate(mem', pt, v)
                  IN  before # Fault =>
                        after = before \/ (after = Fault /\ last'.op = "unmap")
<1>1. IInv /\ [Next]_vars => [A]_vars
  <2> SUFFICES ASSUME IInv, Next, NEW v \in Vpn, Translate(mem, pt, v) # Fault
               PROVE  \/ UNCHANGED vars
                      \/ Translate(mem', pt, v) = Translate(mem, pt, v)
                      \/ Translate(mem', pt, v) = Fault /\ last'.op = "unmap"
    BY Zenon
  <2>0. v \in Nat
    BY DEF Vpn
  <2>1. ASSUME NEW table \in Tables, NEW ppn \in CallPpns, NEW vpn \in CallVpns,
               NEW type \in MapTypes, CallMapPage(table, ppn, vpn, type)
        PROVE  Translate(mem', pt, v) = Translate(mem, pt, v)
    BY <2>0, <2>1, CallArguments, CallMapPageEffect
  <2>2. ASSUME NEW table \in Tables, NEW vpn \in CallVpns, NEW type \in UnmapTypes,
               CallUnmapPage(table, vpn, type)
        PROVE  \/ Translate(mem', pt, v) = Translate(mem, pt, v)
               \/ Translate(mem', pt, v) = Fault /\ last'.op = "unmap"
    BY <2>0, <2>2, CallArguments, CallUnmapPageEffect
  <2>3. CASE CallAllocateAPage
    BY <2>0, <2>3, CallAllocateAPageEffect
  <2>4. CASE WriteSatp
    BY <2>4 DEF WriteSatp
  <2>5. CASE Hang
    BY <2>5 DEF Hang
  <2> QED
    BY <2>1, <2>2, <2>3, <2>4, <2>5 DEF Next
<1> QED
  BY <1>1, Invariance, PTL DEF Spec, MappingsAreStable
=============================================================================
