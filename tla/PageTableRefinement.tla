------------------------ MODULE PageTableRefinement ------------------------
(***************************************************************************)
(* map_page, unmap_page and allocate_a_page of src/page.c implement the    *)
(* abstract address space, for tables of any size: a call with a page or a *)
(* gigapage that succeeds maps or unmaps exactly the block its arguments   *)
(* name, and nothing else moves.  (With megapages it does not: page.c:52   *)
(* walks to another block.)                                                *)
(* Then what the boot needs of its calls: in tables that hold pages only,  *)
(* each maps or unmaps its page, and the frames they take can be counted.  *)
(***************************************************************************)
EXTENDS PageTableProofs, FiniteSetTheorems

-----------------------------------------------------------------------------
\* A virtual page number is its three indices.

LEMMA QuotientIsBounded ==
  ASSUME NEW d \in Nat, d > 0, NEW b \in Nat, NEW n \in Nat, n < d * b
  PROVE  n \div d < b
<1>1. n \div d \in Nat /\ n >= d * (n \div d)
  BY Division
<1>2. CASE n \div d >= b
  <2> DEFINE q == n \div d
  <2> HIDE DEF q
  <2>1. q \in Nat /\ q >= b => d * q >= d * b
    OBVIOUS
  <2> QED
    BY <1>1, <1>2, <2>1 DEF q
<1> QED
  BY <1>1, <1>2

LEMMA VpnDigits ==
  ASSUME NEW u \in Vpn
  PROVE  /\ u \in Nat /\ Fanout \in Nat /\ Fanout * Fanout \in Nat
         /\ VpnArr(u, 2) \in Nat /\ VpnArr(u, 1) \in Nat /\ VpnArr(u, 0) \in Nat
         /\ VpnArr(u, 2) = u \div (Fanout * Fanout) /\ VpnArr(u, 1) = (u \div Fanout) % Fanout
         /\ (u \div Fanout) \div Fanout = u \div (Fanout * Fanout)
         /\ u = (Fanout * Fanout) * VpnArr(u, 2) + (Fanout * VpnArr(u, 1) + VpnArr(u, 0))
<1> DEFINE F == Fanout
           n == F * F
           q == u \div F
           q2 == q \div F
<1>1. F \in Nat /\ F > 1 /\ n \in Nat /\ n > 0 /\ u \in Nat /\ u < n * F
  BY PageTableAssumption DEF Vpn
<1>2. q \in Nat /\ u % F \in Nat /\ u % F < F /\ u = F * q + (u % F)
  BY <1>1, Division
<1> HIDE DEF q
<1>3. q2 \in Nat /\ q % F \in Nat /\ q % F < F /\ q = F * q2 + (q % F)
  BY <1>1, <1>2, Division
<1> HIDE DEF q2
<1>4. u = n * q2 + (F * (q % F) + (u % F))
  <2>1. \A a, b, c \in Nat : F * (F * a + b) + c = (F * F) * a + (F * b + c)
    BY <1>1
  <2> QED
    BY <1>2, <1>3, <2>1
<1>5. F * (q % F) + (u % F) \in Nat /\ F * (q % F) + (u % F) < n
  <2>1. \A b, c \in Nat : b < F /\ c < F => F * b + c \in Nat /\ F * b + c < F * F
    <3> SUFFICES ASSUME NEW b \in Nat, NEW c \in Nat, b < F, c < F
                 PROVE  F * b + c \in Nat /\ F * b + c < F * F
      OBVIOUS
    <3>1. F * b + F <= F * F
      <4>1. b + 1 <= F
        BY <1>1
      <4>2. F * (b + 1) <= F * F
        BY <1>1, <4>1
      <4> QED
        BY <1>1, <4>2
    <3> QED
      BY <1>1, <3>1
  <2> QED
    BY <1>2, <1>3, <2>1
<1>6. q2 = u \div n
  <2> DEFINE r == F * (q % F) + (u % F)
  <2>1. r \in Nat /\ r < n /\ u = n * q2 + r
    BY <1>4, <1>5
  <2> HIDE DEF r, n
  <2> QED
    BY <1>1, <1>3, <2>1, DivisionIsUnique
<1>7. q2 < F
  BY <1>1, <1>6, QuotientIsBounded
<1>8. q2 % F = q2
  BY <1>1, <1>3, <1>7
<1>9. /\ VpnArr(u, 2) = (u \div n) % F /\ VpnArr(u, 1) = q % F
      /\ VpnArr(u, 0) = u % F
  BY DEF VpnArr, q
<1>10. q2 = (u \div F) \div F /\ q = u \div F
  BY DEF q2, q
<1> QED
  BY <1>1, <1>2, <1>3, <1>4, <1>6, <1>8, <1>9, <1>10

\* A block of Fanout * Fanout pages is the pages of one first-level entry.
LEMMA GigapageBlock ==
  ASSUME NEW u \in Vpn, NEW vpn \in Vpn, vpn % (Fanout * Fanout) = 0
  PROVE  /\ VpnArr(u, 2) = VpnArr(vpn, 2) <=> vpn <= u /\ u < vpn + Fanout * Fanout
         /\ VpnArr(u, 2) = VpnArr(vpn, 2) => u % (Fanout * Fanout) = u - vpn
<1> DEFINE n == Fanout * Fanout
           a == u \div n
           b == vpn \div n
           r == u % n
<1>1. n \in Nat /\ n > 0 /\ u \in Nat /\ vpn \in Nat
  BY PageTableAssumption DEF Vpn
<1>2. VpnArr(u, 2) = a /\ VpnArr(vpn, 2) = b
  BY VpnDigits
<1>3. a \in Nat /\ r \in Nat /\ r < n /\ u = n * a + r
  BY <1>1, Division
<1>4. b \in Nat /\ vpn = n * b
  BY <1>1, Division
<1> HIDE DEF n, a, b, r
<1>5. a = b => vpn <= u /\ u < vpn + n /\ r = u - vpn
  BY <1>1, <1>3, <1>4
<1>6. ASSUME vpn <= u, u < vpn + n  PROVE a = b
  <2>1. u - vpn \in Nat /\ u - vpn < n /\ u = n * b + (u - vpn)
    BY <1>1, <1>4, <1>6
  <2>2. u \div n = b
    BY <1>1, <1>4, <2>1, DivisionIsUnique
  <2> QED
    BY <2>2 DEF a
<1> QED
  BY <1>2, <1>5, <1>6 DEF n, r

-----------------------------------------------------------------------------
(***************************************************************************)
(* The entry map_page and unmap_page write is the one the pages of the     *)
(* block read, and no other page reads it.                                 *)
(***************************************************************************)
Block(v, n) == {u \in Vpn : v <= u /\ u < v + n}

\* The walk stands where a page or a gigapage at vpn is entered.
Arrived(w, vpn, type) ==
  \/ type = MAP_GIGAPAGE /\ w.table = pt
  \/ /\ type = MAP_PAGE /\ StandsAt(w, 0)
     /\ \E t \in Ram : /\ w.mem[pt][VpnArr(vpn, 2)] = TablePte(t)
                       /\ w.mem[t][VpnArr(vpn, 1)] = TablePte(w.table)

LEMMA BlockReadsEntry ==
  ASSUME NEW w, GoodWalk(w), Going(w), NEW type, NEW vpn \in Vpn, Arrived(w, vpn, type),
         vpn % Align(type) = 0, NEW u \in Vpn
  PROVE  Reads(w.mem, u, w.table, VpnArr(vpn, 3 - type)) <=> u \in Block(vpn, Align(type))
<1> DEFINE t == w.table
           m == w.mem
           u2 == VpnArr(u, 2)
           u1 == VpnArr(u, 1)
           u0 == VpnArr(u, 0)
           v2 == VpnArr(vpn, 2)
           v1 == VpnArr(vpn, 1)
           v0 == VpnArr(vpn, 0)
           e2 == m[pt][u2]
           e1 == m[e2.ppn][u1]
           i == VpnArr(vpn, 3 - type)
<1>1. /\ m \in [Ram -> [Index -> Pte]] /\ w.level \in [Ram -> -1..2] /\ pt \in Ram
      /\ Tree(w) /\ w.level[pt] = 2 /\ pt \in TablesOf(w)
  BY DEF GoodWalk, WalkType, Going, Tree, TablesOf
<1>2. /\ u2 \in Index /\ u1 \in Index /\ u0 \in Index /\ u \in Nat /\ vpn \in Nat
      /\ v2 \in Index /\ v1 \in Index /\ v0 \in Index
  BY VpnArrIsIndex DEF Vpn
<1>3. Reads(m, u, t, i) <=>
        \/ t = pt /\ i = u2
        \/ /\ e2.kind = "table" /\ e2.ppn \in Ram
           /\ \/ t = e2.ppn /\ i = u1
              \/ e1.kind = "table" /\ e1.ppn \in Ram /\ t = e1.ppn /\ i = u0
  BY DEF Reads
<1>4. e2.kind = "table" /\ e2.ppn \in Ram =>
        w.level[e2.ppn] = 1 /\ e2.ppn \in TablesOf(w) /\ e2 \in Pte
  BY <1>1, <1>2 DEF Tree, TablesOf
<1> HIDE DEF e2
<1>5. e2.kind = "table" /\ e2.ppn \in Ram /\ e1.kind = "table" /\ e1.ppn \in Ram =>
        w.level[e1.ppn] = 0 /\ e1 \in Pte
  BY <1>1, <1>2, <1>4 DEF Tree, TablesOf
<1> HIDE DEF e1
<1>6. CASE type = MAP_GIGAPAGE
  <2>1. t = pt /\ i = v2 /\ Align(type) = Fanout * Fanout
    BY <1>6 DEF Arrived, Align, MAP_PAGE, MAP_MEGAPAGE, MAP_GIGAPAGE
  <2>2. Reads(m, u, t, i) <=> u2 = v2
    BY <1>1, <1>3, <1>4, <1>5, <2>1
  <2>3. u2 = v2 <=> vpn <= u /\ u < vpn + Fanout * Fanout
    BY <2>1, GigapageBlock
  <2> QED
    BY <2>1, <2>2, <2>3 DEF Block
<1>7. CASE type = MAP_PAGE
  <2>1. w.level[t] = 0 /\ i = v0 /\ Align(type) = 1
    BY <1>7 DEF Arrived, StandsAt, Align, MAP_PAGE, MAP_MEGAPAGE, MAP_GIGAPAGE
  <2>2. PICK t1 \in Ram : m[pt][v2] = TablePte(t1) /\ m[t1][v1] = TablePte(t)
    BY <1>7 DEF Arrived, MAP_PAGE, MAP_GIGAPAGE
  <2>3. t \in Ram
    BY <1>7 DEF Arrived, StandsAt, MAP_PAGE, MAP_GIGAPAGE
  <2>4. t1 \in TablesOf(w)
    BY <1>1, <1>2, <2>2 DEF Tree, TablesOf, TablePte
  <2>5. Reads(m, u, t, i) <=>
          /\ e2.kind = "table" /\ e2.ppn \in Ram
          /\ e1.kind = "table" /\ e1.ppn = t /\ u0 = v0
    BY <1>1, <1>3, <1>4, <1>5, <2>1, <2>3
  <2>6. ASSUME e2.kind = "table", e2.ppn \in Ram, e1.kind = "table", e1.ppn = t
        PROVE  u2 = v2 /\ u1 = v1
    <3>1. e1 = TablePte(t)
      BY <1>5, <2>3, <2>6 DEF Pte, TablePte
    <3>2. m[e2.ppn][u1] = m[t1][v1] /\ m[t1][v1].kind = "table"
      BY <2>2, <3>1 DEF e1, TablePte
    <3>3. e2.ppn = t1 /\ u1 = v1
      BY <1>1, <1>2, <1>4, <2>4, <2>6, <3>2 DEF Tree
    <3>4. e2 = TablePte(t1)
      BY <1>4, <2>6, <3>3 DEF Pte, TablePte
    <3>5. m[pt][u2] = m[pt][v2] /\ m[pt][v2].kind = "table"
      BY <2>2, <3>4 DEF e2, TablePte
    <3> QED
      BY <1>1, <1>2, <3>3, <3>5 DEF Tree
  <2>7. ASSUME u2 = v2, u1 = v1, u0 = v0
        PROVE  e2.kind = "table" /\ e2.ppn \in Ram /\ e1.kind = "table" /\ e1.ppn = t
    BY <2>2, <2>7 DEF e2, e1, TablePte
  <2>8. u2 = v2 /\ u1 = v1 /\ u0 = v0 <=> u = vpn
    BY VpnDigits
  <2>9. u \in Block(vpn, Align(type)) <=> u = vpn
    BY <1>2, <2>1 DEF Block
  <2> QED
    BY <2>5, <2>6, <2>7, <2>8, <2>9
<1> QED
  BY <1>6, <1>7 DEF Arrived

\* A leaf written there maps each page of the block, in order.
LEMMA LeafMapsBlock ==
  ASSUME NEW w, GoodWalk(w), Going(w), NEW type, NEW vpn \in Vpn, Arrived(w, vpn, type),
         vpn % Align(type) = 0, NEW ppn \in Nat, ppn % Align(type) = 0,
         NEW m, DifferAt(w.mem, m, w.table, VpnArr(vpn, 3 - type)),
         m[w.table][VpnArr(vpn, 3 - type)] = LeafPte(ppn),
         NEW u \in Block(vpn, Align(type))
  PROVE  Translate(m, pt, u) = ppn + (u - vpn)
<1> DEFINE t == w.table
           u2 == VpnArr(u, 2)
           u1 == VpnArr(u, 1)
           u0 == VpnArr(u, 0)
           e2 == m[pt][u2]
           e1 == m[e2.ppn][u1]
           e0 == m[e1.ppn][u0]
           i == VpnArr(vpn, 3 - type)
<1>1. /\ w.level \in [Ram -> -1..2] /\ pt \in Ram
      /\ Tree(w) /\ w.level[pt] = 2 /\ pt \in TablesOf(w)
  BY DEF GoodWalk, WalkType, Going, Tree, TablesOf
<1>2. /\ u2 \in Index /\ u1 \in Index /\ u0 \in Index
      /\ u \in Nat /\ vpn \in Nat /\ u \in Vpn
  BY VpnArrIsIndex DEF Vpn, Block
<1>3. Translate(m, pt, u) = Found(u, e2, e1, e0)
  BY TranslateReads
<1>4. LeafPte(ppn).kind = "leaf" /\ LeafPte(ppn).ppn = ppn
  BY DEF LeafPte
<1>5. CASE type = MAP_GIGAPAGE
  <2>1. t = pt /\ i = VpnArr(vpn, 2) /\ Align(type) = Fanout * Fanout
    BY <1>5 DEF Arrived, Align, MAP_PAGE, MAP_MEGAPAGE, MAP_GIGAPAGE
  <2>2. u2 = VpnArr(vpn, 2) /\ u % (Fanout * Fanout) = u - vpn
    BY <1>2, <2>1, GigapageBlock DEF Block
  <2>3. e2 = LeafPte(ppn)
    BY <2>1, <2>2
  <2> HIDE DEF e2, e1, e0
  <2>4. Translate(m, pt, u) = Superpage(LeafPte(ppn), u, Fanout * Fanout)
    BY <1>3, <1>4, <2>3, FoundCases
  <2> QED
    BY <1>4, <2>1, <2>2, <2>4 DEF Superpage
<1>6. CASE type = MAP_PAGE
  <2>1. w.level[t] = 0 /\ t \in Ram /\ i = VpnArr(vpn, 0) /\ Align(type) = 1
    BY <1>6 DEF Arrived, StandsAt, Align, MAP_PAGE, MAP_MEGAPAGE, MAP_GIGAPAGE
  <2>2. u = vpn
    BY <1>2, <2>1 DEF Block
  <2>3. PICK t1 \in Ram : w.mem[pt][u2] = TablePte(t1) /\ w.mem[t1][u1] = TablePte(t)
    BY <1>6, <2>2 DEF Arrived, MAP_PAGE, MAP_GIGAPAGE
  <2>4. w.level[t1] = 1
    BY <1>1, <1>2, <2>3 DEF Tree, TablesOf, TablePte
  <2>5. m[pt][u2] = TablePte(t1) /\ m[t1][u1] = TablePte(t)
    BY <1>1, <1>2, <2>1, <2>3, <2>4 DEF DifferAt
  <2>6. TablePte(t1).ppn = t1 /\ TablePte(t).ppn = t
        /\ TablePte(t1).kind = "table" /\ TablePte(t).kind = "table"
    BY DEF TablePte
  <2>7. e2 = TablePte(t1) /\ e1 = TablePte(t) /\ e0 = LeafPte(ppn)
    BY <2>1, <2>2, <2>5, <2>6
  <2> HIDE DEF e2, e1, e0
  <2>8. Translate(m, pt, u) = ppn
    BY <1>3, <1>4, <2>1, <2>6, <2>7, FoundCases
  <2> QED
    BY <1>2, <2>2, <2>8
<1> QED
  BY <1>5, <1>6 DEF Arrived

-----------------------------------------------------------------------------
(***************************************************************************)
(* What map_page and unmap_page do to every page.                          *)
(***************************************************************************)
Same(m, m2) == \A u \in Vpn : Translate(m2, pt, u) = Translate(m, pt, u)

Maps(m, m2, vpn, n, ppn) ==
  /\ vpn % n = 0 /\ ppn % n = 0
  /\ \A u \in Block(vpn, n) : Translate(m, pt, u) = Fault
  /\ \A u \in Vpn : Translate(m2, pt, u) = IF u \in Block(vpn, n) THEN ppn + (u - vpn)
                                           ELSE Translate(m, pt, u)

Unmaps(m, m2, vpn, n) ==
  /\ vpn % n = 0
  /\ \A u \in Vpn : Translate(m2, pt, u) = IF u \in Block(vpn, n) THEN Fault
                                           ELSE Translate(m, pt, u)

LEMMA MapPageExact ==
  ASSUME NEW w, GoodWalk(w), Going(w), satp \in {NULL, pt}, NEW table \in {NULL, pt},
         NEW ppn \in Nat, NEW vpn \in Vpn, NEW type \in {MAP_PAGE, MAP_GIGAPAGE}
  PROVE  LET v == MapPage(w, table, ppn, vpn, type)
         IN  /\ ~Going(v) => Same(w.mem, v.mem)
             /\ Going(v) => Maps(w.mem, v.mem, vpn, Align(type), ppn)
<1> DEFINE v == MapPage(w, table, ppn, vpn, type)
           x == [w EXCEPT !.table = pt]
           y == MapWalk(x, vpn, type)
           i == VpnArr(vpn, 3 - type)
<1>0. vpn \in Nat /\ type \in MapType
  BY DEF Vpn, MapType
<1>1. CASE ppn % Align(type) # 0 \/ vpn % Align(type) # 0 \/ RootOf(table) = NULL
  <2>1. v.mem = w.mem /\ v.ret # OK
    <3>1. v.mem = w.mem
      BY <1>1 DEF MapPage, GoodWalk, WalkType
    <3>2. v.ret \in {ERR_ALIGN, ERR_NULL_PT}
      BY <1>1 DEF MapPage, GoodWalk, WalkType
    <3> HIDE DEF v
    <3> QED
      BY <3>1, <3>2 DEF OK, ERR_ALIGN, ERR_NULL_PT
  <2> QED
    BY <2>1 DEF Same, Going
<1>2. CASE ppn % Align(type) = 0 /\ vpn % Align(type) = 0 /\ RootOf(table) # NULL
  <2>1. v = SetLeaf(y, i, ppn)
    BY <1>2 DEF MapPage, RootOf
  <2>2. GoodWalk(x) /\ Going(x) /\ x.table = pt /\ Unchanged(w, x)
    BY StartOfWalk
  <2>3. i \in Index
    BY <1>0, VpnArrIsIndex DEF MAP_PAGE, MAP_GIGAPAGE
  <2> HIDE DEF v, x
  <2>4. /\ GoodWalk(y) /\ Grows(x, y)
        /\ Going(y) => y.table \in Ram /\ Arrived(y, vpn, type)
    <3>1. /\ GoodWalk(y) /\ Grows(x, y)
          /\ Going(y) => StandsAt(y, 3 - type)
          /\ Going(y) /\ type = MAP_GIGAPAGE => y.table = pt
          /\ Going(y) /\ type = MAP_PAGE =>
               \E t \in Ram : /\ y.mem[pt][VpnArr(vpn, 2)] = TablePte(t)
                              /\ y.mem[t][VpnArr(vpn, 1)] = TablePte(y.table)
      BY <1>0, <2>2, MapWalkStep
    <3>2. type = MAP_PAGE => 3 - type = 0
      BY DEF MAP_PAGE
    <3> HIDE DEF y
    <3> QED
      BY <3>1, <3>2 DEF Arrived, StandsAt
  <2> HIDE DEF y
  <2>5. /\ ~Going(v) => v.mem = y.mem
        /\ Going(v) =>
             /\ Going(y) /\ y.mem[y.table][i].kind = "empty"
             /\ \A q \in Ram, k \in Index :
                  v.mem[q][k] = IF q = y.table /\ k = i THEN LeafPte(ppn) ELSE y.mem[q][k]
        /\ GoodWalk(v)
    BY <2>1, <2>3, <2>4, SetLeafStep
  <2>6. Same(w.mem, y.mem)
    BY <2>2, <2>4 DEF Grows, Unchanged, Same, Vpn
  <2>7. CASE ~Going(v)
    BY <2>5, <2>6, <2>7 DEF v
  <2>8. CASE Going(v)
    <3> DEFINE t == y.table
    <3>1. /\ Going(y) /\ t \in Ram /\ Arrived(y, vpn, type) /\ pt \in Ram
          /\ y.mem \in [Ram -> [Index -> Pte]] /\ v.mem \in [Ram -> [Index -> Pte]]
      BY <2>4, <2>5, <2>8 DEF GoodWalk, WalkType
    <3>2. DifferAt(y.mem, v.mem, t, i) /\ v.mem[t][i] = LeafPte(ppn)
      BY <2>3, <2>5, <2>8, <3>1 DEF DifferAt
    <3>3. ASSUME NEW u \in Vpn
          PROVE  /\ u \in Block(vpn, Align(type)) =>
                      /\ Translate(y.mem, pt, u) = Fault
                      /\ Translate(v.mem, pt, u) = ppn + (u - vpn)
                 /\ u \notin Block(vpn, Align(type)) =>
                      Translate(v.mem, pt, u) = Translate(y.mem, pt, u)
      <4>1. Reads(y.mem, u, t, i) <=> u \in Block(vpn, Align(type))
        BY <1>2, <2>4, <3>1, BlockReadsEntry
      <4>2. /\ ~Reads(y.mem, u, t, i) => Translate(v.mem, pt, u) = Translate(y.mem, pt, u)
            /\ Reads(y.mem, u, t, i) => Translate(y.mem, pt, u) = Fault
        <5>1. u \in Nat
          BY DEF Vpn
        <5> QED
          BY <2>5, <2>8, <3>1, <3>2, <5>1, WritingOneEntry
      <4>3. u \in Block(vpn, Align(type)) => Translate(v.mem, pt, u) = ppn + (u - vpn)
        BY <1>2, <2>4, <3>1, <3>2, LeafMapsBlock
      <4> QED
        BY <4>1, <4>2, <4>3
    <3>4. Maps(w.mem, v.mem, vpn, Align(type), ppn)
      BY <1>2, <2>6, <3>3 DEF Maps, Same, Block
    <3> QED
      BY <2>8, <3>4 DEF v
  <2> QED
    BY <2>7, <2>8 DEF v
<1> QED
  BY <1>1, <1>2

LEMMA UnmapPageExact ==
  ASSUME NEW w, GoodWalk(w), Going(w), satp \in {NULL, pt}, NEW table \in {NULL, pt},
         NEW vpn \in Vpn, NEW type \in {MAP_PAGE, MAP_GIGAPAGE}
  PROVE  LET v == UnmapPage(w, table, vpn, type)
         IN  /\ ~Going(v) => Same(w.mem, v.mem)
             /\ Going(v) => Unmaps(w.mem, v.mem, vpn, Align(type))
<1> DEFINE v == UnmapPage(w, table, vpn, type)
           x == [w EXCEPT !.table = pt]
           y == UnmapWalk(x, vpn, type)
           i == VpnArr(vpn, 3 - type)
<1>0. vpn \in Nat /\ type \in MapType
  BY DEF Vpn, MapType
<1>1. CASE vpn % Align(type) # 0 \/ RootOf(table) = NULL
  <2>1. v.mem = w.mem /\ v.ret # OK
    <3>1. v.mem = w.mem
      BY <1>1 DEF UnmapPage, GoodWalk, WalkType
    <3>2. v.ret \in {ERR_ALIGN, ERR_NULL_PT}
      BY <1>1 DEF UnmapPage, GoodWalk, WalkType
    <3> HIDE DEF v
    <3> QED
      BY <3>1, <3>2 DEF OK, ERR_ALIGN, ERR_NULL_PT
  <2> QED
    BY <2>1 DEF Same, Going
<1>2. CASE vpn % Align(type) = 0 /\ RootOf(table) # NULL
  <2>1. v = ClearEntry(y, i)
    BY <1>2 DEF UnmapPage, RootOf
  <2>2. GoodWalk(x) /\ Going(x) /\ x.table = pt /\ Unchanged(w, x)
    BY StartOfWalk
  <2>3. i \in Index
    BY <1>0, VpnArrIsIndex DEF MAP_PAGE, MAP_GIGAPAGE
  <2> HIDE DEF v, x
  <2>4. /\ GoodWalk(y) /\ Unchanged(x, y) /\ ~y.halted
        /\ Going(y) => y.table \in Ram /\ Arrived(y, vpn, type)
    <3>1. /\ GoodWalk(y) /\ Unchanged(x, y)
          /\ Going(y) => StandsAt(y, 3 - type)
          /\ Going(y) /\ type = MAP_GIGAPAGE => y.table = pt
          /\ Going(y) /\ type = MAP_PAGE =>
               \E t \in Ram : /\ y.mem[pt][VpnArr(vpn, 2)] = TablePte(t)
                              /\ y.mem[t][VpnArr(vpn, 1)] = TablePte(y.table)
      BY <1>0, <2>2, UnmapWalkStep
    <3>2. type = MAP_PAGE => 3 - type = 0
      BY DEF MAP_PAGE
    <3> HIDE DEF y
    <3> QED
      BY <2>2, <3>1, <3>2 DEF Arrived, StandsAt, Unchanged, Going
  <2> HIDE DEF y
  <2>5. /\ ~Going(v) => v.mem = y.mem
        /\ Going(v) => /\ Going(y) /\ v.mem[y.table][i] = EmptyPte
                       /\ DifferAt(y.mem, v.mem, y.table, i)
    BY <2>1, <2>3, <2>4, ClearEntryStep
  <2>6. y.mem = w.mem
    BY <2>2, <2>4 DEF Unchanged
  <2>7. CASE ~Going(v)
    BY <2>5, <2>6, <2>7 DEF v, Same
  <2>8. CASE Going(v)
    <3> DEFINE t == y.table
    <3>1. Going(y) /\ Arrived(y, vpn, type) /\ pt \in Ram
      BY <2>4, <2>5, <2>8 DEF GoodWalk
    <3>2. DifferAt(y.mem, v.mem, t, i) /\ v.mem[t][i].kind = "empty"
      BY <2>5, <2>8 DEF EmptyPte
    <3>3. ASSUME NEW u \in Vpn
          PROVE  /\ u \in Block(vpn, Align(type)) => Translate(v.mem, pt, u) = Fault
                 /\ u \notin Block(vpn, Align(type)) =>
                      Translate(v.mem, pt, u) = Translate(y.mem, pt, u)
      <4>1. Reads(y.mem, u, t, i) <=> u \in Block(vpn, Align(type))
        BY <1>2, <2>4, <3>1, BlockReadsEntry
      <4>2. /\ ~Reads(y.mem, u, t, i) => Translate(v.mem, pt, u) = Translate(y.mem, pt, u)
            /\ Reads(y.mem, u, t, i) => Translate(v.mem, pt, u) = Fault
        <5>1. u \in Nat
          BY DEF Vpn
        <5> QED
          BY <3>1, <3>2, <5>1, WritingOneEntry
      <4> QED
        BY <4>1, <4>2
    <3>4. Unmaps(w.mem, v.mem, vpn, Align(type))
      BY <1>2, <2>6, <3>3 DEF Unmaps
    <3> QED
      BY <2>8, <3>4 DEF v
  <2> QED
    BY <2>7, <2>8 DEF v
<1> QED
  BY <1>1, <1>2

\* allocate_a_page maps the page of a frame, or the page before RAM.
LEMMA AllocateAPageExact ==
  ASSUME NEW w, GoodWalk(w), Going(w), satp \in {NULL, pt}
  PROVE  LET a == AllocateAPage(w)
             v == a.walk
         IN  /\ ~Going(v) => Same(w.mem, v.mem)
             /\ Going(v) =>
                  /\ a.vpn \in AllocVpns
                  /\ a.ppn \in (RamPage - 1)..(RamPage + NumFrames - 1)
                  /\ Maps(w.mem, v.mem, a.vpn, 1, a.ppn)
<1> DEFINE f == FirstFreeFrame(w.frames)
           b == AllocateFrame(w.frames, f)
           ppn == FrameToPpn(RamPage, AllocateFrameResult(f))
           w1 == [w EXCEPT !.frames = b]
           Try(vpn) == MapPage(w1, NULL, ppn, vpn, MAP_PAGE)
           vpns == {vpn \in AllocVpns : Try(vpn).ret = OK}
           a == AllocateAPage(w)
<1>1. w \in WalkType /\ w.frames \in Bitmap
  BY DEF GoodWalk, WalkType
<1>2. /\ ppn \in Nat /\ b \in Bitmap /\ Allocated(w.frames) \subseteq Allocated(b)
      /\ \/ ppn = RamPage + f /\ f \in Frame
         \/ ppn = RamPage - 1
  BY <1>1, NewFrame
<1>3. GoodWalk(w1) /\ Going(w1) /\ w1.mem = w.mem
  BY <1>1, <1>2, MarkingKeepsTree DEF Going
<1>4. ppn \in (RamPage - 1)..(RamPage + NumFrames - 1)
  BY <1>2, PageTableAssumption, FrameBytesAssumption DEF Frame, NumFrames
<1>5. /\ vpns = {} => a.walk = [w1 EXCEPT !.frames = DeallocateFrame(w1.frames, f),
                                          !.ret = ERR_UNABLE_TO_MAP]
      /\ vpns # {} => a.walk = Try(Min(vpns)) /\ a.vpn = Min(vpns) /\ a.ppn = ppn
  BY DEF AllocateAPage
<1>6. CASE vpns = {}
  <2>1. a.walk.mem = w.mem /\ a.walk.ret # OK
    <3>1. w1 \in WalkType
      BY <1>3 DEF GoodWalk
    <3> HIDE DEF w1, a
    <3>2. a.walk.mem = w.mem
      BY <1>3, <1>5, <1>6, <3>1 DEF WalkType
    <3>3. a.walk.ret = ERR_UNABLE_TO_MAP
      BY <1>3, <1>5, <1>6, <3>1 DEF WalkType
    <3> QED
      BY <3>2, <3>3 DEF OK, ERR_UNABLE_TO_MAP
  <2> HIDE DEF a
  <2> QED
    BY <2>1 DEF Same, Going, a
<1>7. CASE vpns # {}
  <2> DEFINE vpn == Min(vpns)
  <2>1. vpn \in vpns
    <3>1. vpns \in SUBSET Nat
      BY PageTableAssumption DEF Vpn
    <3> HIDE DEF vpns
    <3> QED
      BY <1>7, <3>1, MinOfNats
  <2>2. vpn \in Vpn
    BY <2>1, PageTableAssumption
  <2>3. a.walk = Try(vpn) /\ a.vpn = vpn /\ a.ppn = ppn /\ vpn \in AllocVpns
    BY <1>5, <1>7, <2>1
  <2> HIDE DEF vpns, vpn, w1, ppn, b, f, a
  <2>4. Align(MAP_PAGE) = 1
    BY DEF Align, MAP_PAGE, MAP_MEGAPAGE, MAP_GIGAPAGE
  <2>5. /\ ~Going(Try(vpn)) => Same(w1.mem, Try(vpn).mem)
        /\ Going(Try(vpn)) => Maps(w1.mem, Try(vpn).mem, vpn, Align(MAP_PAGE), ppn)
    BY <1>2, <1>3, <2>2, MapPageExact
  <2> QED
    BY <1>3, <1>4, <2>2, <2>3, <2>4, <2>5 DEF a
<1> QED
  BY <1>6, <1>7

-----------------------------------------------------------------------------
(***************************************************************************)
(* The state machine implements the address space.                         *)
(***************************************************************************)
SpaceNow == [v \in Vpn |-> Translate(mem, pt, v)]

LEMMA SameIsStutter ==
  ASSUME Same(mem, mem'), pt' = pt
  PROVE  SpaceNow' = SpaceNow
BY DEF Same, SpaceNow

\* The space and the call that changed it last.
SpaceAndCall == <<SpaceNow, [op |-> last.op, block |-> last.block]>>

\* At boot no page is mapped.
LEMMA InitSpace == Init => Space!Init
<1> SUFFICES ASSUME Init  PROVE Space!Init
  OBVIOUS
<1>1. ASSUME NEW v \in Vpn  PROVE Translate(mem, pt, v) = Fault
  <2>1. pt \in Ram
    BY InitIInv DEF IInv, TypeOK
  <2>2. mem[pt] = [i \in Index |-> EmptyPte] /\ VpnArr(v, 2) \in Index
    BY <2>1, VpnArrIsIndex DEF Init, Vpn
  <2>3. mem[pt][VpnArr(v, 2)].kind \notin {"leaf", "table"}
    BY <2>2 DEF EmptyPte
  <2> QED
    BY <2>3, TranslateReads, FoundCases
<1>2. last.op = "init" /\ last.block = [vpn |-> 0, pages |-> 0, ppn |-> 0]
  BY DEF Init, NoBlock, BlockOf
<1> QED
  BY <1>1, <1>2 DEF Space!Init, Space!Called

\* What a call did, and for which block, is the abstract operation on it.
LEMMA MapsIsMap ==
  ASSUME NEW vpn \in Vpn, NEW n \in Sizes(MapTypes), NEW ppn \in CallPpns,
         Maps(mem, mem', vpn, n, ppn), pt' = pt,
         last'.op = "map", last'.block = BlockOf(vpn, n, ppn)
  PROVE  Space!Next
<1>1. Space!Block(vpn, n) = Block(vpn, n) /\ Block(vpn, n) \subseteq Vpn
  BY DEF Space!Block, Block
<1>2. Space!Map(vpn, n, ppn)
  BY <1>1 DEF Space!Map, Space!Install, Space!Called, Maps, BlockOf
<1> QED
  BY <1>2 DEF Space!Next

LEMMA MapsIsAllocate ==
  ASSUME NEW vpn \in AllocVpns, NEW ppn \in (RamPage - 1)..(RamPage + NumFrames - 1),
         Maps(mem, mem', vpn, 1, ppn), pt' = pt,
         last'.op = "allocate", last'.block = BlockOf(vpn, 1, ppn)
  PROVE  Space!Next
<1>1. Space!Block(vpn, 1) = Block(vpn, 1) /\ Block(vpn, 1) \subseteq Vpn
  BY DEF Space!Block, Block
<1>2. Space!Allocate(vpn, ppn)
  BY <1>1 DEF Space!Allocate, Space!Install, Space!Called, Maps, BlockOf
<1> QED
  BY <1>2 DEF Space!Next

LEMMA UnmapsIsUnmap ==
  ASSUME NEW vpn \in Vpn, NEW n \in Sizes(UnmapTypes),
         Unmaps(mem, mem', vpn, n), pt' = pt,
         last'.op = "unmap", last'.block = BlockOf(vpn, n, 0)
  PROVE  Space!Next
<1>1. Space!Block(vpn, n) = Block(vpn, n)
  BY DEF Space!Block, Block
<1>2. Space!Unmap(vpn, n)
  BY <1>1 DEF Space!Unmap, Space!Called, Unmaps, BlockOf
<1> QED
  BY <1>2 DEF Space!Next

LEMMA SameIsRefuse ==
  ASSUME Same(mem, mem'), pt' = pt,
         last'.op \in {"map", "allocate", "unmap"}, last'.block = NoBlock
  PROVE  Space!Next
<1>1. Space!Refuse(last'.op)
  BY DEF Space!Refuse, Space!Called, Same, NoBlock, BlockOf
<1> QED
  BY <1>1 DEF Space!Next

(***************************************************************************)
(* The page tables implement the address space, call by call.  A map_page  *)
(* or unmap_page of a page or a gigapage that succeeds makes the block its *)
(* arguments name appear where nothing was mapped, or disappear; an        *)
(* allocate_a_page that succeeds maps the page it returned, in its range,  *)
(* to the frame it returned; a call that fails, or that hangs, moves no    *)
(* page.  Every page outside the block translates as before.               *)
(***************************************************************************)
THEOREM ImplementsSpace ==
  ASSUME MAP_MEGAPAGE \notin MapTypes \cup UnmapTypes
  PROVE  Spec => SpaceSpec
<1>1. Init => Space!Init
  BY InitSpace
<1>2. IInv /\ [Next]_vars => [Space!Next]_SpaceAndCall
  <2> SUFFICES ASSUME IInv, [Next]_vars  PROVE Space!Next \/ SpaceAndCall' = SpaceAndCall
    OBVIOUS
  <2>0. /\ Walk.mem = mem /\ satp \in {NULL, pt} /\ Tables \subseteq {NULL, pt}
        /\ ~halted => GoodWalk(Walk) /\ Going(Walk)
    BY StateIsGoodWalk, CallArguments DEF Walk, IInv, TypeOK
  <2>1. ASSUME NEW table \in Tables, NEW ppn \in CallPpns, NEW vpn \in CallVpns,
               NEW type \in MapTypes, CallMapPage(table, ppn, vpn, type)
        PROVE  Space!Next
    <3> DEFINE v == MapPage(Walk, table, ppn, vpn, type)
    <3>1. /\ ~halted /\ mem' = v.mem /\ pt' = pt /\ last'.op = "map"
          /\ last'.block = IF Going(v) THEN BlockOf(vpn, Align(type), ppn) ELSE NoBlock
      BY <2>1 DEF CallMapPage, Commit, Going
    <3>2. /\ table \in {NULL, pt} /\ ppn \in Nat /\ vpn \in Vpn
          /\ type \in {MAP_PAGE, MAP_GIGAPAGE} /\ Align(type) \in Sizes(MapTypes)
      BY <2>0, PageTableAssumption DEF MapType, Sizes
    <3>3. /\ ~Going(v) => Same(Walk.mem, v.mem)
          /\ Going(v) => Maps(Walk.mem, v.mem, vpn, Align(type), ppn)
      BY <2>0, <3>1, <3>2, MapPageExact
    <3> HIDE DEF v
    <3> QED
      BY <2>0, <3>1, <3>2, <3>3, SameIsRefuse, MapsIsMap
  <2>2. ASSUME NEW table \in Tables, NEW vpn \in CallVpns, NEW type \in UnmapTypes,
               CallUnmapPage(table, vpn, type)
        PROVE  Space!Next
    <3> DEFINE v == UnmapPage(Walk, table, vpn, type)
    <3>1. /\ ~halted /\ mem' = v.mem /\ pt' = pt /\ last'.op = "unmap"
          /\ last'.block = IF Going(v) THEN BlockOf(vpn, Align(type), 0) ELSE NoBlock
      BY <2>2 DEF CallUnmapPage, Commit, Going
    <3>2. /\ table \in {NULL, pt} /\ vpn \in Vpn
          /\ type \in {MAP_PAGE, MAP_GIGAPAGE} /\ Align(type) \in Sizes(UnmapTypes)
      BY <2>0, PageTableAssumption DEF MapType, Sizes
    <3>3. /\ ~Going(v) => Same(Walk.mem, v.mem)
          /\ Going(v) => Unmaps(Walk.mem, v.mem, vpn, Align(type))
      BY <2>0, <3>1, <3>2, UnmapPageExact
    <3> HIDE DEF v
    <3> QED
      BY <2>0, <3>1, <3>2, <3>3, SameIsRefuse, UnmapsIsUnmap
  <2>3. CASE CallAllocateAPage
    <3> DEFINE a == AllocateAPage(Walk)
               v == a.walk
    <3>1. /\ ~halted /\ mem' = v.mem /\ pt' = pt /\ last'.op = "allocate"
          /\ last'.block = IF Going(v) THEN BlockOf(a.vpn, 1, a.ppn) ELSE NoBlock
      BY <2>3 DEF CallAllocateAPage, Commit, Going
    <3>2. /\ ~Going(v) => Same(Walk.mem, v.mem)
          /\ Going(v) =>
               /\ a.vpn \in AllocVpns
               /\ a.ppn \in (RamPage - 1)..(RamPage + NumFrames - 1)
               /\ Maps(Walk.mem, v.mem, a.vpn, 1, a.ppn)
      BY <2>0, <3>1, AllocateAPageExact
    <3> HIDE DEF a
    <3> QED
      BY <2>0, <3>1, <3>2, SameIsRefuse, MapsIsAllocate
  <2>4. CASE WriteSatp
    BY <2>4 DEF WriteSatp, SpaceAndCall, SpaceNow
  <2>5. CASE UNCHANGED vars
    BY <2>5 DEF vars, SpaceAndCall, SpaceNow
  <2> QED
    BY <2>1, <2>2, <2>3, <2>4, <2>5 DEF Next, Hang
<1> QED
  BY <1>1, <1>2, Invariance, PTL DEF Spec, SpaceSpec, Space!Spec, Space!vars, SpaceAndCall, SpaceNow

-----------------------------------------------------------------------------
(***************************************************************************)
(* Tables that hold pages only, as those the boot makes: leaves are found  *)
(* in tables of level 0.  There map_page of a page never stops on its way  *)
(* and leaves the page mapped, and unmap_page leaves it unmapped.          *)
(***************************************************************************)
Paged(w) == \A p \in Ram, i \in Index : w.level[p] > 0 => w.mem[p][i].kind # "leaf"

LEMMA NextTablePaged ==
  ASSUME NEW w, GoodWalk(w), Going(w), NEW n \in 1..2, StandsAt(w, n), NEW i \in Index, Paged(w)
  PROVE  LET v == NextTable(w, i)
         IN  /\ v.ret = OK /\ (~v.halted => Paged(v))
             /\ \/ Unchanged(w, v) /\ v.mem[w.table][i] = TablePte(v.table)
                \/ v.halted /\ w.mem[w.table][i].kind = "empty"
                     /\ FrameToPpn(RamPage, AllocateFrameResult(FirstFreeFrame(w.frames))) \notin Ram
                \/ AddsTable(w, v, i) /\ w.mem[w.table][i].kind = "empty"
<1> DEFINE v == NextTable(w, i)
           e == w.mem[w.table][i]
           p == FrameToPpn(RamPage, AllocateFrameResult(FirstFreeFrame(w.frames)))
<1>1. w.table \in Ram /\ w.level[w.table] = n /\ e \in Pte /\ w.ret = OK /\ ~w.halted
  BY DEF StandsAt, GoodWalk, WalkType, Going
<1>2. e.kind # "leaf"
  BY <1>1 DEF Paged
<1>3. CASE e.kind = "table"
  <2>1. Going(v) /\ v.mem[w.table][i] = TablePte(v.table) /\ Unchanged(w, v)
    <3>1. v = [w EXCEPT !.table = e.ppn]
      BY <1>1, <1>3 DEF NextTable
    <3>2. w \in WalkType /\ e = TablePte(e.ppn)
      BY <1>1, <1>3 DEF GoodWalk, Pte, TablePte
    <3>3. v.table = e.ppn /\ v.ret = w.ret /\ v.halted = w.halted /\ Unchanged(w, v)
      BY <3>1, <3>2 DEF WalkType, Unchanged
    <3> HIDE DEF v
    <3> QED
      BY <1>1, <3>2, <3>3 DEF Unchanged, Going
  <2> HIDE DEF v
  <2> QED
    BY <2>1 DEF Paged, Unchanged, Going, v
<1>4. CASE e.kind = "empty"
  <2>1. v = NewTable(w, i)
    BY <1>1, <1>4 DEF NextTable
  <2> HIDE DEF v, p
  <2>2. CASE p \notin Ram
    BY <1>4, <2>1, <2>2, NewTableFaults DEF v, p
  <2>3. CASE p \in Ram
    <3>1. Going(v) /\ AddsTable(w, v, i)
      BY <1>4, <2>1, <2>3, NewTableLinks DEF p
    <3>2. EmptyPte.kind = "empty" /\ TablePte(v.table).kind = "table"
      BY DEF EmptyPte, TablePte
    <3>3. Paged(v)
      <4> SUFFICES ASSUME NEW q \in Ram, NEW k \in Index, v.level[q] > 0
                   PROVE  v.mem[q][k].kind # "leaf"
        BY DEF Paged
      <4>1. CASE q = v.table
        BY <3>1, <3>2, <4>1 DEF AddsTable
      <4>2. CASE q # v.table
        BY <3>1, <3>2, <4>2 DEF AddsTable, Paged
      <4> QED
        BY <4>1, <4>2
    <3> QED
      BY <1>4, <3>1, <3>3 DEF Going, v
  <2> QED
    BY <2>2, <2>3
<1> QED
  BY <1>1, <1>2, <1>3, <1>4 DEF Pte

LEMMA MapWalkPaged ==
  ASSUME NEW w, GoodWalk(w), Going(w), w.table = pt, NEW vpn \in Nat, Paged(w)
  PROVE  LET v == MapWalk(w, vpn, MAP_PAGE)
         IN  v.ret = OK /\ (~v.halted => Paged(v))
<1> DEFINE i2 == VpnArr(vpn, 2)
           i1 == VpnArr(vpn, 1)
           x == NextTable(w, i2)
           v == NextTable(x, i1)
<1>1. i1 \in Index /\ i2 \in Index /\ 1 \in 1..2 /\ 2 \in 1..2 /\ 2 - 1 = 1
  BY VpnArrIsIndex
<1>2. StandsAt(w, 2)
  BY DEF GoodWalk, Going, Tree, StandsAt
<1>3. MapWalk(w, vpn, MAP_PAGE) = v
  BY DEF MapWalk, MAP_PAGE, MAP_MEGAPAGE, MAP_GIGAPAGE
<1> HIDE DEF i1, i2, x, v
<1>4. x.ret = OK /\ (~x.halted => Paged(x))
  BY <1>1, <1>2, NextTablePaged DEF x
<1>5. GoodWalk(x) /\ (Going(x) => StandsAt(x, 1))
  BY <1>1, <1>2, NextTableStep DEF x
<1>6. CASE x.halted
  <2>1. v = x
    BY <1>6 DEF v, NextTable
  <2> QED
    BY <1>3, <1>4, <2>1
<1>7. CASE ~x.halted
  <2>1. Going(x)
    BY <1>4, <1>7 DEF Going
  <2> QED
    BY <1>1, <1>3, <1>4, <1>5, <1>7, <2>1, NextTablePaged DEF v
<1> QED
  BY <1>6, <1>7

LEMMA MapPagePaged ==
  ASSUME NEW w, GoodWalk(w), Going(w), NEW ppn \in Nat, NEW vpn \in Vpn, Paged(w)
  PROVE  LET v == MapPage(w, pt, ppn, vpn, MAP_PAGE)
         IN  /\ v.halted = MapWalk([w EXCEPT !.table = pt], vpn, MAP_PAGE).halted
             /\ ~v.halted => Paged(v) /\ Translate(v.mem, pt, vpn) # Fault
<1> DEFINE v == MapPage(w, pt, ppn, vpn, MAP_PAGE)
           x == [w EXCEPT !.table = pt]
           y == MapWalk(x, vpn, MAP_PAGE)
           i == VpnArr(vpn, 0)
<1>1. /\ pt # NULL /\ vpn \in Nat /\ i \in Index /\ MAP_PAGE \in MapType /\ 3 - MAP_PAGE = 0
      /\ Align(MAP_PAGE) = 1 /\ ppn % 1 = 0 /\ vpn % 1 = 0
  BY PageTableAssumption, VpnArrIsIndex
  DEF GoodWalk, Ram, NULL, Vpn, MapType, Align, MAP_PAGE, MAP_MEGAPAGE, MAP_GIGAPAGE
<1>2. v = SetLeaf(y, i, ppn)
  BY <1>1 DEF MapPage, RootOf
<1>3. GoodWalk(x) /\ Going(x) /\ x.table = pt /\ Unchanged(w, x)
  BY StartOfWalk
<1> HIDE DEF x
<1>4. Paged(x)
  BY <1>3 DEF Paged, Unchanged
<1>5. y.ret = OK /\ (~y.halted => Paged(y))
  BY <1>1, <1>3, <1>4, MapWalkPaged
<1>6. /\ GoodWalk(y)
      /\ Going(y) => StandsAt(y, 0)
      /\ Going(y) => \E t \in Ram : /\ y.mem[pt][VpnArr(vpn, 2)] = TablePte(t)
                                    /\ y.mem[t][VpnArr(vpn, 1)] = TablePte(y.table)
  BY <1>1, <1>3, MapWalkStep
<1> HIDE DEF v, y, i
<1>7. /\ GoodWalk(v) /\ v.level = y.level /\ v.halted = y.halted
      /\ ~Going(v) => v.mem = y.mem
      /\ Going(v) =>
           /\ y.mem[y.table][i].kind = "empty"
           /\ \A q \in Ram, k \in Index :
                v.mem[q][k] = IF q = y.table /\ k = i THEN LeafPte(ppn) ELSE y.mem[q][k]
  <2>1. Going(y) => y.table \in Ram
    BY <1>6 DEF StandsAt
  <2> QED
    BY <1>1, <1>2, <1>6, <2>1, SetLeafStep
<1>8. ASSUME ~v.halted  PROVE Paged(v) /\ Translate(v.mem, pt, vpn) # Fault
  <2>1. Going(y) /\ StandsAt(y, 0) /\ y.table \in Ram /\ Paged(y)
    BY <1>5, <1>6, <1>7, <1>8 DEF Going, StandsAt
  <2>2. y.level[y.table] = 0
    BY <2>1 DEF StandsAt
  <2>3. Paged(v)
    <3>1. CASE Going(v)
      BY <1>7, <2>1, <2>2, <3>1 DEF Paged
    <3>2. CASE ~Going(v)
      BY <1>7, <2>1, <3>2 DEF Paged
    <3> QED
      BY <3>1, <3>2
  <2>4. PICK t \in Ram : /\ y.mem[pt][VpnArr(vpn, 2)] = TablePte(t)
                         /\ y.mem[t][VpnArr(vpn, 1)] = TablePte(y.table)
    BY <1>6, <2>1
  <2>5. Arrived(y, vpn, MAP_PAGE)
    BY <2>1, <2>4 DEF Arrived
  <2>6. CASE Going(v)
    <3>1. y.mem \in [Ram -> [Index -> Pte]] /\ v.mem \in [Ram -> [Index -> Pte]]
      BY <1>6, <1>7 DEF GoodWalk, WalkType
    <3>2. DifferAt(y.mem, v.mem, y.table, i) /\ v.mem[y.table][i] = LeafPte(ppn)
      BY <1>1, <1>7, <2>1, <2>6, <3>1 DEF DifferAt
    <3>3. vpn \in Block(vpn, Align(MAP_PAGE))
      BY <1>1 DEF Block
    <3>4. Translate(v.mem, pt, vpn) = ppn + (vpn - vpn)
      BY <1>1, <1>6, <2>1, <2>5, <3>2, <3>3, LeafMapsBlock DEF i
    <3> QED
      BY <1>1, <2>3, <3>4 DEF Fault
  <2>7. CASE ~Going(v)
    <3> DEFINE e == y.mem[y.table][i]
    <3>1. e.kind = "leaf" /\ e \in Pte
      <4>1. e.kind # "empty"
        BY <1>2, <1>6, <2>1, <2>7 DEF SetLeaf, Going, GoodWalk, WalkType
      <4>2. e \in Pte /\ e.kind # "table"
        BY <1>1, <1>6, <2>1, <2>2, SMTT(30) DEF GoodWalk, WalkType, Tree, TablesOf, Going
      <4> QED
        BY <4>1, <4>2 DEF Pte
    <3>2. v.mem = y.mem
      BY <1>7, <2>7
    <3>3. Translate(y.mem, pt, vpn) = e.ppn
      <4>1. TablePte(t).ppn = t /\ TablePte(y.table).ppn = y.table
            /\ TablePte(t).kind = "table" /\ TablePte(y.table).kind = "table"
        BY DEF TablePte
      <4>2. Translate(y.mem, pt, vpn) = Found(vpn, TablePte(t), TablePte(y.table), e)
        BY <2>4, <4>1, TranslateReads DEF i
      <4> QED
        BY <2>1, <3>1, <4>1, <4>2, FoundCases
    <3> QED
      BY <2>3, <3>1, <3>2, <3>3 DEF Pte, Fault
  <2> QED
    BY <2>6, <2>7
<1> QED
  BY <1>7, <1>8 DEF v, y, x

\* A pointer is followed by unmap_page.
LEMMA FindTableGoesOn ==
  ASSUME NEW w, GoodWalk(w), Going(w), NEW i \in Index, w.mem[w.table][i].kind = "table"
  PROVE  Going(FindTable(w, i))
<1>1. w \in WalkType
  BY DEF GoodWalk
<1>2. FindTable(w, i) = [w EXCEPT !.table = w.mem[w.table][i].ppn]
  BY DEF FindTable, Going
<1> QED
  BY <1>1, <1>2 DEF Going, WalkType

LEMMA UnmapPagePaged ==
  ASSUME NEW w, GoodWalk(w), Going(w), NEW table, RootOf(table) = pt, NEW vpn \in Vpn, Paged(w)
  PROVE  LET v == UnmapPage(w, table, vpn, MAP_PAGE)
         IN  ~v.halted /\ Paged(v) /\ Translate(v.mem, pt, vpn) = Fault
<1> DEFINE v == UnmapPage(w, table, vpn, MAP_PAGE)
           x == [w EXCEPT !.table = pt]
           i2 == VpnArr(vpn, 2)
           i1 == VpnArr(vpn, 1)
           i0 == VpnArr(vpn, 0)
           x1 == FindTable(x, i2)
           y == FindTable(x1, i1)
           e2 == w.mem[pt][i2]
           e1 == w.mem[e2.ppn][i1]
           e0 == w.mem[e1.ppn][i0]
<1>1. /\ pt # NULL /\ vpn \in Nat /\ 3 - MAP_PAGE = 0 /\ vpn % Align(MAP_PAGE) = 0
      /\ i2 \in Index /\ i1 \in Index /\ i0 \in Index
      /\ 1 \in 1..2 /\ 2 \in 1..2 /\ 2 - 1 = 1 /\ 1 - 1 = 0
  BY PageTableAssumption, VpnArrIsIndex
  DEF GoodWalk, Ram, NULL, Vpn, Align, MAP_PAGE, MAP_MEGAPAGE, MAP_GIGAPAGE
<1>2. v = ClearEntry(y, i0)
  BY <1>1 DEF UnmapPage, UnmapWalk, MAP_PAGE, MAP_MEGAPAGE, MAP_GIGAPAGE
<1>3. /\ GoodWalk(x) /\ Going(x) /\ x.table = pt /\ Unchanged(w, x) /\ StandsAt(x, 2)
      /\ x.mem = w.mem /\ x.level = w.level
  BY StartOfWalk DEF GoodWalk, Going, Tree, StandsAt, Unchanged
<1>4. Translate(w.mem, pt, vpn) = Found(vpn, e2, e1, e0)
  BY TranslateReads
<1> HIDE DEF x, i2, i1, i0
<1>5. /\ GoodWalk(x1) /\ Unchanged(x, x1) /\ ~x1.halted /\ x1.mem = w.mem /\ x1.level = w.level
      /\ Going(x1) => StandsAt(x1, 1) /\ e2 = TablePte(x1.table)
      /\ e2.kind = "table" => Going(x1)
  BY <1>1, <1>3, FindTableStep, FindTableGoesOn DEF Unchanged, Going
<1> HIDE DEF x1
<1>6. /\ GoodWalk(y) /\ Unchanged(x1, y) /\ ~y.halted /\ y.mem = w.mem /\ y.level = w.level
      /\ Going(y) => Going(x1) /\ StandsAt(y, 0) /\ w.mem[x1.table][i1] = TablePte(y.table)
      /\ Going(x1) /\ w.mem[x1.table][i1].kind = "table" => Going(y)
  BY <1>1, <1>5, FindTableStep, FindTableGoesOn DEF Unchanged, Going
<1> HIDE DEF v, y, e2, e1, e0
<1>7. /\ GoodWalk(v) /\ v.level = w.level /\ v.halted = y.halted
      /\ ~Going(v) => v.mem = w.mem
      /\ Going(v) => Going(y) /\ v.mem[y.table][i0] = EmptyPte /\ DifferAt(w.mem, v.mem, y.table, i0)
  <2>1. Going(y) => y.table \in Ram
    BY <1>6 DEF StandsAt
  <2> QED
    BY <1>1, <1>2, <1>6, <2>1, ClearEntryStep
<1>8. w.mem \in [Ram -> [Index -> Pte]] /\ pt \in Ram /\ w.level[pt] = 2
  BY DEF GoodWalk, WalkType, Going, Tree
<1>9. Paged(v)
  <2>1. CASE ~Going(v)
    BY <1>7, <2>1 DEF Paged
  <2>2. CASE Going(v)
    <3>1. EmptyPte.kind = "empty"
      BY DEF EmptyPte
    <3> QED
      BY <1>7, <2>2, <3>1 DEF Paged, DifferAt
  <2> QED
    BY <2>1, <2>2
<1>10. CASE ~Going(y)
  <2>1. v.mem = w.mem
    BY <1>7, <1>10
  <2>2. e2 \in Pte /\ e2.kind # "leaf"
    BY <1>1, <1>8 DEF e2, Paged
  <2>3. CASE e2.kind # "table"
    <3>1. e2.kind \notin {"leaf", "table"}
      BY <2>2, <2>3
    <3> QED
      BY <1>4, <1>6, <1>7, <1>9, <2>1, <3>1, FoundCases DEF v
  <2>4. CASE e2.kind = "table"
    <3>1. Going(x1) /\ x1.table \in Ram /\ w.level[x1.table] = 1 /\ e2.ppn = x1.table
      BY <1>5, <2>4 DEF StandsAt, TablePte
    <3>2. e1 = w.mem[x1.table][i1] /\ e1 \in Pte /\ e1.kind # "leaf"
      BY <1>1, <1>8, <3>1 DEF e1, Paged
    <3>3. e1.kind # "table"
      BY <1>6, <1>10, <3>1, <3>2
    <3>4. e1.kind \notin {"leaf", "table"} /\ e2.ppn \in Ram
      BY <3>1, <3>2, <3>3
    <3> QED
      BY <1>4, <1>6, <1>7, <1>9, <2>1, <2>4, <3>4, FoundCases DEF v
  <2> QED
    BY <2>3, <2>4
<1>11. CASE Going(y)
  <2>1. /\ Going(x1) /\ x1.table \in Ram /\ y.table \in Ram /\ e2 = TablePte(x1.table)
        /\ w.mem[x1.table][i1] = TablePte(y.table)
    BY <1>5, <1>6, <1>11 DEF StandsAt
  <2>2. Arrived(y, vpn, MAP_PAGE)
    BY <1>6, <1>11, <2>1 DEF Arrived, e2, i2, i1
  <2>3. vpn \in Block(vpn, Align(MAP_PAGE))
    BY <1>1 DEF Block, Align, MAP_PAGE, MAP_MEGAPAGE, MAP_GIGAPAGE
  <2>4. Reads(w.mem, vpn, y.table, i0)
    BY <1>1, <1>6, <1>11, <2>2, <2>3, BlockReadsEntry DEF i0
  <2>5. CASE Going(v)
    <3>1. v.mem[y.table][i0].kind = "empty"
      BY <1>7, <2>5 DEF EmptyPte
    <3> QED
      BY <1>1, <1>6, <1>7, <1>8, <1>9, <2>4, <2>5, <3>1, WritingOneEntry DEF v
  <2>6. CASE ~Going(v)
    <3>1. w.mem[y.table][i0].kind = "empty"
      <4>1. y.mem = w.mem /\ y \in WalkType
        BY <1>6 DEF GoodWalk
      <4> QED
        BY <1>2, <1>11, <2>1, <2>6, <4>1 DEF ClearEntry, Going, WalkType
    <3>2. DifferAt(w.mem, w.mem, y.table, i0)
      BY <1>1, <1>8, <2>1 DEF DifferAt
    <3> QED
      BY <1>1, <1>6, <1>7, <1>8, <1>9, <2>4, <2>6, <3>1, <3>2, WritingOneEntry DEF v
  <2> QED
    BY <2>5, <2>6
<1> QED
  BY <1>10, <1>11

-----------------------------------------------------------------------------
(***************************************************************************)
(* How many tables it takes to map the pages V: the root, one for each     *)
(* first index and one for each pair of indices that occurs in V.  The     *)
(* invariant: every table is reached by the indices of a page of V, and    *)
(* every frame that is marked is boot memory or holds a table.             *)
(***************************************************************************)
Reached(w, v, n, p) ==
  \/ n = 2 /\ p = pt
  \/ n = 1 /\ w.mem[pt][VpnArr(v, 2)] = TablePte(p)
  \/ n = 0 /\ \E t \in Ram : /\ w.mem[pt][VpnArr(v, 2)] = TablePte(t)
                             /\ w.mem[t][VpnArr(v, 1)] = TablePte(p)

TablesFor(w, V) ==
  /\ Allocated(w.frames) \subseteq BootFrames \cup FramesOf(TablesOf(w))
  /\ \A p \in TablesOf(w) : p # pt => \E v \in V : Reached(w, v, w.level[p], p)

FreeRam == {f \in Frame \ BootFrames : f < RamPages}
FirstIndices(V) == {v \div (Fanout * Fanout) : v \in V}
IndexPairs(V) == {v \div Fanout : v \in V}

Enough(V) ==
  /\ V \subseteq Vpn
  /\ 1 + Cardinality(FirstIndices(V)) + Cardinality(IndexPairs(V)) <= Cardinality(FreeRam)

LEMMA ImageBound ==
  ASSUME NEW S, IsFiniteSet(S), NEW f, NEW T, T \subseteq {f[x] : x \in S}
  PROVE  IsFiniteSet(T) /\ Cardinality(T) \in Nat /\ Cardinality(T) <= Cardinality(S)
<1> DEFINE R == {f[x] : x \in S}
           g == [x \in S |-> f[x]]
<1>1. g \in Surjection(S, R)
  BY DEF Surjection
<1>2. IsFiniteSet(R) /\ Cardinality(R) <= Cardinality(S)
  BY <1>1, FS_Surjection
<1>3. IsFiniteSet(T) /\ Cardinality(T) <= Cardinality(R)
  BY <1>2, FS_Subset
<1>4. Cardinality(T) \in Nat /\ Cardinality(R) \in Nat /\ Cardinality(S) \in Nat
  BY <1>2, <1>3, FS_CardinalityType
<1> QED
  BY <1>2, <1>3, <1>4

LEMMA UnionBound ==
  ASSUME NEW S, NEW T, IsFiniteSet(S), IsFiniteSet(T)
  PROVE  IsFiniteSet(S \cup T) /\ Cardinality(S \cup T) <= Cardinality(S) + Cardinality(T)
<1>1. /\ IsFiniteSet(S \cup T)
      /\ Cardinality(S \cup T) = Cardinality(S) + Cardinality(T) - Cardinality(S \cap T)
  BY FS_Union
<1>2. IsFiniteSet(S \cap T)
  BY FS_Subset
<1>3. /\ Cardinality(S) \in Nat /\ Cardinality(T) \in Nat
      /\ Cardinality(S \cap T) \in Nat
  BY <1>2, FS_CardinalityType
<1> QED
  BY <1>1, <1>3

LEMMA DisjointUnion ==
  ASSUME NEW S, NEW T, IsFiniteSet(S), IsFiniteSet(T), S \cap T = {}
  PROVE  IsFiniteSet(S \cup T) /\ Cardinality(S \cup T) = Cardinality(S) + Cardinality(T)
<1>1. /\ IsFiniteSet(S \cup T)
      /\ Cardinality(S \cup T) = Cardinality(S) + Cardinality(T) - Cardinality(S \cap T)
  BY FS_Union
<1>2. Cardinality(S \cap T) = 0
  BY FS_EmptySet
<1>3. Cardinality(S) \in Nat /\ Cardinality(T) \in Nat
  BY FS_CardinalityType
<1> QED
  BY <1>1, <1>2, <1>3

LEMMA IndicesAreFinite ==
  ASSUME NEW V \in SUBSET Vpn
  PROVE  IsFiniteSet(FirstIndices(V)) /\ IsFiniteSet(IndexPairs(V))
<1>1. IsFiniteSet(V)
  <2>1. Fanout * Fanout * Fanout - 1 \in Int /\ 0 \in Int
    BY PageTableAssumption
  <2>2. IsFiniteSet(Vpn)
    BY <2>1, FS_Interval DEF Vpn
  <2> QED
    BY <2>2, FS_Subset
<1> DEFINE f == [v \in V |-> v \div (Fanout * Fanout)]
           g == [v \in V |-> v \div Fanout]
<1>2. FirstIndices(V) \subseteq {f[v] : v \in V} /\ IndexPairs(V) \subseteq {g[v] : v \in V}
  BY DEF FirstIndices, IndexPairs
<1> HIDE DEF f, g
<1> QED
  BY <1>1, <1>2, ImageBound

\* While an entry on the way to a page of V is empty, RAM is left for a table.
LEMMA FrameIsLeft ==
  ASSUME NEW w, GoodWalk(w), Going(w), NEW V, Enough(V), TablesFor(w, V), NEW vpn \in V,
         NEW n \in 1..2, Reached(w, vpn, n, w.table), w.table \in Ram,
         w.mem[w.table][VpnArr(vpn, n)].kind = "empty"
  PROVE  FrameToPpn(RamPage, AllocateFrameResult(FirstFreeFrame(w.frames))) \in Ram
<1> DEFINE f == FirstFreeFrame(w.frames)
           p == FrameToPpn(RamPage, AllocateFrameResult(f))
           A == FirstIndices(V)
           B == IndexPairs(V)
           a == vpn \div (Fanout * Fanout)
           b == vpn \div Fanout
           L1 == {q \in Ram : w.level[q] = 1}
           L0 == {q \in Ram : w.level[q] = 0}
           h1 == [k \in A |-> w.mem[pt][k].ppn]
           h0 == [k \in B |-> w.mem[w.mem[pt][k \div Fanout].ppn][k % Fanout].ppn]
<1>1. /\ w \in WalkType /\ Tree(w) /\ w.frames \in Bitmap /\ pt \in Ram /\ V \subseteq Vpn
      /\ w.level \in [Ram -> -1..2]
  BY DEF GoodWalk, Going, WalkType, Enough
<1>2. IsFiniteSet(A) /\ IsFiniteSet(B) /\ a \in A /\ b \in B
  BY <1>1, IndicesAreFinite DEF FirstIndices, IndexPairs
<1>3. \A v \in Vpn : /\ VpnArr(v, 2) = v \div (Fanout * Fanout)
                     /\ VpnArr(v, 1) = (v \div Fanout) % Fanout
                     /\ (v \div Fanout) \div Fanout = v \div (Fanout * Fanout)
  BY VpnDigits
<1>4. \A q \in L1 : \E v \in V : w.mem[pt][VpnArr(v, 2)] = TablePte(q)
  <2> SUFFICES ASSUME NEW q \in L1  PROVE \E v \in V : w.mem[pt][VpnArr(v, 2)] = TablePte(q)
    OBVIOUS
  <2>1. q \in TablesOf(w) /\ q # pt /\ w.level[q] = 1
    BY <1>1 DEF TablesOf, Tree
  <2> QED
    BY <2>1 DEF TablesFor, Reached
<1>5. \A q \in L0 : \E v \in V, t \in Ram : /\ w.mem[pt][VpnArr(v, 2)] = TablePte(t)
                                            /\ w.mem[t][VpnArr(v, 1)] = TablePte(q)
  <2> SUFFICES ASSUME NEW q \in L0
               PROVE  \E v \in V, t \in Ram : /\ w.mem[pt][VpnArr(v, 2)] = TablePte(t)
                                              /\ w.mem[t][VpnArr(v, 1)] = TablePte(q)
    OBVIOUS
  <2>1. q \in TablesOf(w) /\ q # pt /\ w.level[q] = 0
    BY <1>1 DEF TablesOf, Tree
  <2> QED
    BY <2>1 DEF TablesFor, Reached
<1>6. \A q : TablePte(q).ppn = q /\ TablePte(q).kind = "table"
  BY DEF TablePte
<1>7. L1 \subseteq {h1[k] : k \in A}
  <2> SUFFICES ASSUME NEW q \in L1  PROVE q \in {h1[k] : k \in A}
    OBVIOUS
  <2>1. PICK v \in V : w.mem[pt][VpnArr(v, 2)] = TablePte(q)
    BY <1>4
  <2>2. VpnArr(v, 2) \in A
    BY <1>1, <1>3 DEF FirstIndices
  <2>3. h1[VpnArr(v, 2)] = q
    BY <1>6, <2>1, <2>2
  <2> QED
    BY <2>2, <2>3
<1>8. L0 \subseteq {h0[k] : k \in B}
  <2> SUFFICES ASSUME NEW q \in L0  PROVE q \in {h0[k] : k \in B}
    OBVIOUS
  <2>1. PICK v \in V, t \in Ram : /\ w.mem[pt][VpnArr(v, 2)] = TablePte(t)
                                  /\ w.mem[t][VpnArr(v, 1)] = TablePte(q)
    BY <1>5
  <2> DEFINE k == v \div Fanout
  <2>2. k \in B
    BY DEF IndexPairs
  <2>3. k \div Fanout = VpnArr(v, 2) /\ k % Fanout = VpnArr(v, 1)
    BY <1>1, <1>3
  <2>4. h0[k] = q
    <3>1. w.mem[w.mem[pt][VpnArr(v, 2)].ppn][VpnArr(v, 1)].ppn = q
      BY <1>6, <2>1
    <3> HIDE DEF k, B
    <3> QED
      BY <2>2, <2>3, <3>1
  <2> QED
    BY <2>2, <2>4
<1>9. n = 2 => L1 \subseteq {h1[k] : k \in A \ {a}}
  <2> SUFFICES ASSUME n = 2, NEW q \in L1  PROVE q \in {h1[k] : k \in A \ {a}}
    OBVIOUS
  <2>1. PICK v \in V : w.mem[pt][VpnArr(v, 2)] = TablePte(q)
    BY <1>4
  <2>2. VpnArr(v, 2) \in A
    BY <1>1, <1>3 DEF FirstIndices
  <2>3. h1[VpnArr(v, 2)] = q
    BY <1>6, <2>1, <2>2
  <2>4. w.table = pt /\ VpnArr(vpn, 2) = a
    BY <1>1, <1>3 DEF Reached
  <2>5. VpnArr(v, 2) # a
    BY <1>6, <2>1, <2>4
  <2> QED
    BY <2>2, <2>3, <2>5
<1>10. n = 1 => L0 \subseteq {h0[k] : k \in B \ {b}}
  <2> SUFFICES ASSUME n = 1, NEW q \in L0  PROVE q \in {h0[k] : k \in B \ {b}}
    OBVIOUS
  <2>1. PICK v \in V, t \in Ram : /\ w.mem[pt][VpnArr(v, 2)] = TablePte(t)
                                  /\ w.mem[t][VpnArr(v, 1)] = TablePte(q)
    BY <1>5
  <2> DEFINE k == v \div Fanout
  <2>2. k \in B
    BY DEF IndexPairs
  <2>3. k \div Fanout = VpnArr(v, 2) /\ k % Fanout = VpnArr(v, 1)
    BY <1>1, <1>3
  <2>4. h0[k] = q
    <3>1. w.mem[w.mem[pt][VpnArr(v, 2)].ppn][VpnArr(v, 1)].ppn = q
      BY <1>6, <2>1
    <3> HIDE DEF k, B
    <3> QED
      BY <2>2, <2>3, <3>1
  <2>5. k # b
    <3> SUFFICES ASSUME k = b  PROVE FALSE
      OBVIOUS
    <3>1. VpnArr(v, 2) = VpnArr(vpn, 2) /\ VpnArr(v, 1) = VpnArr(vpn, 1)
      <4>1. b \div Fanout = VpnArr(vpn, 2) /\ b % Fanout = VpnArr(vpn, 1)
        BY <1>1, <1>3
      <4> QED
        BY <2>3, <4>1
    <3>2. w.mem[pt][VpnArr(vpn, 2)] = TablePte(w.table)
      BY DEF Reached
    <3>3. t = w.table
      BY <1>6, <2>1, <3>1, <3>2
    <3> QED
      BY <1>6, <2>1, <3>1, <3>3
  <2> QED
    BY <2>2, <2>4, <2>5
<1> HIDE DEF h1, h0
<1>11. /\ IsFiniteSet(L1) /\ IsFiniteSet(L0)
       /\ Cardinality(L1) + Cardinality(L0) < Cardinality(A) + Cardinality(B)
  <2>1. /\ IsFiniteSet(L1) /\ Cardinality(L1) \in Nat /\ Cardinality(L1) <= Cardinality(A)
        /\ IsFiniteSet(L0) /\ Cardinality(L0) \in Nat /\ Cardinality(L0) <= Cardinality(B)
    BY <1>2, <1>7, <1>8, ImageBound
  <2>2. /\ IsFiniteSet(A \ {a}) /\ Cardinality(A \ {a}) = Cardinality(A) - 1
        /\ IsFiniteSet(B \ {b}) /\ Cardinality(B \ {b}) = Cardinality(B) - 1
        /\ Cardinality(A) \in Nat /\ Cardinality(B) \in Nat
    BY <1>2, FS_RemoveElement, FS_CardinalityType
  <2>3. n = 2 => Cardinality(L1) <= Cardinality(A) - 1
    BY <1>9, <2>2, ImageBound
  <2>4. n = 1 => Cardinality(L0) <= Cardinality(B) - 1
    BY <1>10, <2>2, ImageBound
  <2>5. n = 1 \/ n = 2
    OBVIOUS
  <2> HIDE DEF L1, L0, A, B
  <2> QED
    BY <2>1, <2>2, <2>3, <2>4, <2>5
<1>12. /\ IsFiniteSet(TablesOf(w))
       /\ Cardinality(TablesOf(w)) <= 1 + Cardinality(L1) + Cardinality(L0)
  <2>1. TablesOf(w) = ({pt} \cup L1) \cup L0
    BY <1>1 DEF TablesOf, Tree
  <2>2. IsFiniteSet({pt}) /\ Cardinality({pt}) = 1
    BY FS_Singleton
  <2>3. /\ IsFiniteSet({pt} \cup L1)
        /\ Cardinality({pt} \cup L1) <= Cardinality({pt}) + Cardinality(L1)
    BY <1>11, <2>2, UnionBound
  <2>4. /\ IsFiniteSet(({pt} \cup L1) \cup L0)
        /\ Cardinality(({pt} \cup L1) \cup L0) <= Cardinality({pt} \cup L1) + Cardinality(L0)
    BY <1>11, <2>3, UnionBound
  <2>5. /\ Cardinality({pt} \cup L1) \in Nat /\ Cardinality(L1) \in Nat
        /\ Cardinality(L0) \in Nat /\ Cardinality(({pt} \cup L1) \cup L0) \in Nat
    BY <1>11, <2>3, <2>4, FS_CardinalityType
  <2> HIDE DEF L1, L0
  <2> QED
    BY <2>1, <2>2, <2>3, <2>4, <2>5
<1>13. ASSUME p \notin Ram  PROVE FALSE
  <2>1. FreeRam \subseteq FramesOf(TablesOf(w))
    <3> SUFFICES ASSUME NEW g \in FreeRam  PROVE g \in Allocated(w.frames)
      BY DEF TablesFor, FreeRam
    <3>1. g \in Frame /\ g \in Nat /\ g < RamPages
      BY FrameBytesAssumption DEF FreeRam, Frame, NumFrames
    <3>2. f \in Nat /\ (f \notin Frame => Allocated(w.frames) = Frame)
          /\ \A k \in Frame : k < f => k \in Allocated(w.frames)
      BY <1>1, FirstFreeFrameIsLeast
    <3>3. CASE f \in Frame
      <4>1. p = RamPage + f
        BY <1>1, <3>3, NewFrame, PageTableAssumption, FrameBytesAssumption
        DEF FrameToPpn, AllocateFrameResult, Frame, NumFrames
      <4>2. f >= RamPages
        BY <1>13, <3>2, <4>1, PageTableAssumption DEF Ram
      <4> QED
        BY <3>1, <3>2, <4>2, PageTableAssumption
    <3>4. CASE f \notin Frame
      BY <3>1, <3>2, <3>4
    <3> QED
      BY <3>3, <3>4
  <2> DEFINE m == [q \in TablesOf(w) |-> q - RamPage]
  <2>2. FreeRam \subseteq {m[q] : q \in TablesOf(w)}
    BY <2>1 DEF FramesOf
  <2> HIDE DEF m
  <2>3. Cardinality(FreeRam) \in Nat /\ Cardinality(FreeRam) <= Cardinality(TablesOf(w))
    BY <1>12, <2>2, ImageBound
  <2>4. /\ Cardinality(L1) \in Nat /\ Cardinality(L0) \in Nat /\ Cardinality(TablesOf(w)) \in Nat
        /\ Cardinality(A) \in Nat /\ Cardinality(B) \in Nat
    BY <1>2, <1>11, <1>12, FS_CardinalityType
  <2>5. 1 + Cardinality(A) + Cardinality(B) <= Cardinality(FreeRam)
    BY DEF Enough
  <2> HIDE DEF L1, L0, A, B
  <2> QED
    BY <1>11, <1>12, <2>3, <2>4, <2>5
<1> QED
  BY <1>13

\* Conversely, where all of V is mapped page by page, RAM had the frames.
LEMMA TablesAreEnough ==
  ASSUME NEW w, GoodWalk(w), ~w.halted, Paged(w), NEW V \in SUBSET Vpn,
         \A v \in V : Translate(w.mem, pt, v) # Fault
  PROVE  Enough(V)
<1> DEFINE A == FirstIndices(V)
           B == IndexPairs(V)
           L1 == {q \in Ram : w.level[q] = 1}
           L0 == {q \in Ram : w.level[q] = 0}
           h1 == [k \in A |-> w.mem[pt][k].ppn]
           h0 == [k \in B |-> w.mem[w.mem[pt][k \div Fanout].ppn][k % Fanout].ppn]
<1>1. /\ w \in WalkType /\ Tree(w) /\ pt \in Ram /\ w.level \in [Ram -> -1..2]
      /\ w.level[pt] = 2 /\ pt \in TablesOf(w)
  BY DEF GoodWalk, WalkType, Tree, TablesOf
<1>2. ASSUME NEW v \in V
      PROVE  /\ VpnArr(v, 2) = v \div (Fanout * Fanout)
             /\ VpnArr(v, 1) = (v \div Fanout) % Fanout
             /\ (v \div Fanout) \div Fanout = v \div (Fanout * Fanout)
             /\ VpnArr(v, 2) \in Index /\ VpnArr(v, 1) \in Index
             /\ v \div Fanout \in Nat
  <2>1. v \in Vpn /\ v \in Nat /\ 2 \in 0..2 /\ 1 \in 0..2
    BY DEF Vpn
  <2>2. v \div Fanout \in Nat
    BY <2>1, Division, PageTableAssumption
  <2>3. VpnArr(v, 2) \in Index /\ VpnArr(v, 1) \in Index
    BY <2>1, VpnArrIsIndex
  <2> QED
    BY <2>1, <2>2, <2>3, VpnDigits
\* A mapped page is reached through a table of each level.
<1>3. ASSUME NEW v \in V
      PROVE  /\ w.mem[pt][VpnArr(v, 2)].kind = "table"
             /\ w.mem[pt][VpnArr(v, 2)].ppn \in L1
             /\ w.mem[w.mem[pt][VpnArr(v, 2)].ppn][VpnArr(v, 1)].kind = "table"
             /\ w.mem[w.mem[pt][VpnArr(v, 2)].ppn][VpnArr(v, 1)].ppn \in L0
  <2> DEFINE e2 == w.mem[pt][VpnArr(v, 2)]
             e1 == w.mem[e2.ppn][VpnArr(v, 1)]
             e0 == w.mem[e1.ppn][VpnArr(v, 0)]
  <2>1. Found(v, e2, e1, e0) # Fault
    BY TranslateReads
  <2>2. VpnArr(v, 2) \in Index /\ VpnArr(v, 1) \in Index
    BY <1>2
  <2>3. e2.kind # "leaf"
    BY <1>1, <2>2 DEF Paged
  <2> HIDE DEF e0
  <2>4. e2.kind = "table" /\ e2.ppn \in Ram
    <3> HIDE DEF e2, e1
    <3> QED
      BY <2>1, <2>3, FoundCases
  <2>5. w.level[e2.ppn] = 1
    BY <1>1, <2>2, <2>4 DEF Tree
  <2>6. e1.kind # "leaf" /\ e2.ppn \in TablesOf(w)
    BY <2>2, <2>4, <2>5 DEF Paged, TablesOf
  <2>7. e1.kind = "table" /\ e1.ppn \in Ram
    <3> HIDE DEF e2, e1
    <3> QED
      BY <2>1, <2>4, <2>6, FoundCases
  <2>8. w.level[e1.ppn] = 0
    <3> DEFINE q == e2.ppn
    <3>1. w.level[w.mem[q][VpnArr(v, 1)].ppn] = w.level[q] - 1
      <4> HIDE DEF q
      <4>1. q \in TablesOf(w) /\ w.mem[q][VpnArr(v, 1)].kind = "table"
        BY <2>6, <2>7 DEF q
      <4> QED
        BY <1>1, <2>2, <4>1 DEF Tree
    <3> QED
      BY <2>5, <3>1
  <2> QED
    BY <2>4, <2>5, <2>7, <2>8
\* A table has one parent.
<1>4. ASSUME NEW p \in TablesOf(w), NEW q \in TablesOf(w), NEW i \in Index, NEW j \in Index,
             w.mem[p][i].kind = "table", w.mem[q][j].kind = "table",
             w.mem[p][i].ppn = w.mem[q][j].ppn
      PROVE  p = q /\ i = j
  <2>1. w.mem[p][i] \in Pte /\ w.mem[q][j] \in Pte
    BY <1>1, <1>4 DEF WalkType, TablesOf
  <2>2. w.mem[p][i] = w.mem[q][j]
    BY <1>4, <2>1 DEF Pte
  <2> QED
    BY <1>1, <1>4, <2>2 DEF Tree
<1>5. IsFiniteSet(Ram)
  <2>1. RamPage \in Int /\ RamPage + RamPages - 1 \in Int
    BY PageTableAssumption
  <2> QED
    BY <2>1, FS_Interval DEF Ram
<1>6. L1 \subseteq TablesOf(w) /\ L0 \subseteq TablesOf(w)
  BY DEF TablesOf
<1>7. IsFiniteSet(L1) /\ Cardinality(A) <= Cardinality(L1)
  <2>1. IsFiniteSet(L1)
    BY <1>5, FS_Subset
  <2>2. ASSUME NEW k \in A  PROVE \E v \in V : k = VpnArr(v, 2)
    BY <1>2 DEF FirstIndices
  <2>3. h1 \in Injection(A, L1)
    <3>1. h1 \in [A -> L1]
      BY <1>3, <2>2
    <3>2. ASSUME NEW k \in A, NEW l \in A, h1[k] = h1[l]  PROVE k = l
      <4>1. /\ k \in Index /\ w.mem[pt][k].kind = "table"
            /\ l \in Index /\ w.mem[pt][l].kind = "table"
        BY <1>2, <1>3, <2>2
      <4>2. w.mem[pt][k].ppn = w.mem[pt][l].ppn
        BY <3>2
      <4> QED
        BY <1>1, <1>4, <4>1, <4>2
    <3> QED
      BY <3>1, <3>2 DEF Injection, IsInjective
  <2> QED
    BY <2>1, <2>3, FS_Injection
<1>8. IsFiniteSet(L0) /\ Cardinality(B) <= Cardinality(L0)
  <2>1. IsFiniteSet(L0)
    BY <1>5, FS_Subset
  <2>2. ASSUME NEW k \in B
        PROVE  /\ k \in Nat
               /\ \E v \in V : k \div Fanout = VpnArr(v, 2) /\ k % Fanout = VpnArr(v, 1)
    BY <1>2 DEF IndexPairs
  <2>3. h0 \in Injection(B, L0)
    <3>1. h0 \in [B -> L0]
      BY <1>3, <2>2
    <3>2. ASSUME NEW k \in B, NEW l \in B, h0[k] = h0[l]  PROVE k = l
      <4>1. PICK u \in V : k \div Fanout = VpnArr(u, 2) /\ k % Fanout = VpnArr(u, 1)
        BY <2>2
      <4>2. PICK v \in V : l \div Fanout = VpnArr(v, 2) /\ l % Fanout = VpnArr(v, 1)
        BY <2>2
      <4> DEFINE p == w.mem[pt][VpnArr(u, 2)].ppn
                 q == w.mem[pt][VpnArr(v, 2)].ppn
      <4>3. w.mem[p][VpnArr(u, 1)].ppn = w.mem[q][VpnArr(v, 1)].ppn
        BY <3>2, <4>1, <4>2
      <4>4. p = q /\ VpnArr(u, 1) = VpnArr(v, 1)
        <5>1. /\ p \in TablesOf(w) /\ w.mem[p][VpnArr(u, 1)].kind = "table"
              /\ q \in TablesOf(w) /\ w.mem[q][VpnArr(v, 1)].kind = "table"
          BY <1>3, <1>6
        <5>2. VpnArr(u, 1) \in Index /\ VpnArr(v, 1) \in Index
          BY <1>2
        <5> HIDE DEF p, q
        <5> QED
          BY <1>4, <4>3, <5>1, <5>2
      <4>5. VpnArr(u, 2) = VpnArr(v, 2)
        BY <1>1, <1>2, <1>3, <1>4, <4>4
      <4>6. k \in Nat /\ l \in Nat
        BY <2>2
      <4> QED
        BY <4>1, <4>2, <4>4, <4>5, <4>6, Division, PageTableAssumption
    <3> QED
      BY <3>1, <3>2 DEF Injection, IsInjective
  <2> QED
    BY <2>1, <2>3, FS_Injection
\* The tables lie in frames that boot left free.
<1>9. /\ IsFiniteSet(TablesOf(w))
      /\ Cardinality(TablesOf(w)) = 1 + Cardinality(L1) + Cardinality(L0)
  <2>1. TablesOf(w) = ({pt} \cup L1) \cup L0
    BY <1>1 DEF TablesOf, Tree
  <2>2. {pt} \cap L1 = {} /\ ({pt} \cup L1) \cap L0 = {}
    BY <1>1
  <2>3. Cardinality(L1) \in Nat /\ Cardinality(L0) \in Nat
    BY <1>7, <1>8, FS_CardinalityType
  <2> HIDE DEF L1, L0
  <2>4. IsFiniteSet({pt}) /\ Cardinality({pt}) = 1
    BY FS_Singleton
  <2>5. /\ IsFiniteSet({pt} \cup L1)
        /\ Cardinality({pt} \cup L1) = 1 + Cardinality(L1)
    BY <1>7, <2>2, <2>3, <2>4, DisjointUnion
  <2>6. /\ IsFiniteSet(({pt} \cup L1) \cup L0)
        /\ Cardinality(({pt} \cup L1) \cup L0) = (1 + Cardinality(L1)) + Cardinality(L0)
    BY <1>8, <2>2, <2>3, <2>5, DisjointUnion
  <2> QED
    BY <2>1, <2>3, <2>6
<1>10. IsFiniteSet(FreeRam) /\ Cardinality(TablesOf(w)) <= Cardinality(FreeRam)
  <2>1. IsFiniteSet(FreeRam)
    <3>1. IsFiniteSet(Frame)
      BY FrameBytesAssumption, FS_Interval DEF Frame, NumFrames
    <3> QED
      BY <3>1, FS_Subset DEF FreeRam
  <2> DEFINE f == [p \in TablesOf(w) |-> p - RamPage]
  <2>2. f \in Injection(TablesOf(w), FreeRam)
    <3>1. ASSUME NEW p \in TablesOf(w)  PROVE p - RamPage \in FreeRam
      <4>1. p \in Ram /\ p - RamPage \in Allocated(w.frames) \ BootFrames
        BY <1>1 DEF Tree, TablesOf
      <4> QED
        BY <4>1, PageTableAssumption DEF FreeRam, Ram, Allocated
    <3>2. f \in [TablesOf(w) -> FreeRam]
      BY <3>1
    <3>3. ASSUME NEW p \in TablesOf(w), NEW q \in TablesOf(w), f[p] = f[q]  PROVE p = q
      BY <3>3, PageTableAssumption DEF TablesOf, Ram
    <3> QED
      BY <3>2, <3>3 DEF Injection, IsInjective
  <2> QED
    BY <2>1, <2>2, FS_Injection
<1>11. /\ Cardinality(A) \in Nat /\ Cardinality(B) \in Nat /\ Cardinality(L1) \in Nat
       /\ Cardinality(L0) \in Nat /\ Cardinality(FreeRam) \in Nat
  BY <1>7, <1>8, <1>10, IndicesAreFinite, FS_CardinalityType
<1> HIDE DEF A, B, L1, L0
<1>12. 1 + Cardinality(A) + Cardinality(B) <= Cardinality(FreeRam)
  BY <1>7, <1>8, <1>9, <1>10, <1>11
<1> QED
  BY <1>12 DEF Enough, A, B

\* What is reached stays reached when a table is added.
LEMMA ReachedStays ==
  ASSUME NEW w, GoodWalk(w), Going(w), NEW v, NEW i \in Index, AddsTable(w, v, i),
         w.mem[w.table][i].kind = "empty", NEW u \in Vpn, NEW n, NEW p, Reached(w, u, n, p)
  PROVE  Reached(v, u, n, p)
<1>1. VpnArr(u, 2) \in Index /\ VpnArr(u, 1) \in Index
  BY VpnArrIsIndex DEF Vpn
<1>2. \A q : TablePte(q).ppn = q /\ TablePte(q).kind = "table"
  BY DEF TablePte
<1>3. pt \in TablesOf(w) /\ Tree(w) /\ w.level \in [Ram -> -1..2] /\ w.level[pt] = 2
  BY DEF GoodWalk, Going, Tree, TablesOf, WalkType
<1>4. \A q \in TablesOf(w), k \in Index :
        w.mem[q][k].kind = "table" => v.mem[q][k] = w.mem[q][k]
  BY DEF AddsTable, TablesOf
<1>5. CASE n = 2
  BY <1>5 DEF Reached
<1>6. CASE n = 1
  BY <1>1, <1>2, <1>3, <1>4, <1>6 DEF Reached
<1>7. CASE n = 0
  <2>1. PICK t \in Ram : /\ w.mem[pt][VpnArr(u, 2)] = TablePte(t)
                         /\ w.mem[t][VpnArr(u, 1)] = TablePte(p)
    BY <1>7 DEF Reached
  <2>2. t \in TablesOf(w)
    BY <1>1, <1>2, <1>3, <2>1 DEF Tree, TablesOf
  <2> QED
    BY <1>1, <1>2, <1>3, <1>4, <1>7, <2>1, <2>2 DEF Reached
<1> QED
  BY <1>5, <1>6, <1>7 DEF Reached

LEMMA NextTableAccounted ==
  ASSUME NEW w, GoodWalk(w), Going(w), Paged(w), NEW V, Enough(V), TablesFor(w, V),
         NEW vpn \in V, NEW n \in 1..2, StandsAt(w, n), Reached(w, vpn, n, w.table)
  PROVE  LET v == NextTable(w, VpnArr(vpn, n))
         IN  Going(v) /\ Paged(v) /\ TablesFor(v, V) /\ Reached(v, vpn, n - 1, v.table)
<1> DEFINE i == VpnArr(vpn, n)
           v == NextTable(w, i)
           p == FrameToPpn(RamPage, AllocateFrameResult(FirstFreeFrame(w.frames)))
<1>1. vpn \in Vpn /\ vpn \in Nat /\ i \in Index /\ w.table \in Ram /\ w.level[w.table] = n
      /\ V \subseteq Vpn
  BY VpnArrIsIndex DEF Enough, Vpn, StandsAt
<1>2. /\ v.ret = OK /\ (~v.halted => Paged(v))
      /\ \/ Unchanged(w, v) /\ v.mem[w.table][i] = TablePte(v.table)
         \/ v.halted /\ w.mem[w.table][i].kind = "empty" /\ p \notin Ram
         \/ AddsTable(w, v, i) /\ w.mem[w.table][i].kind = "empty"
  BY <1>1, NextTablePaged
<1>3. w.mem[w.table][i].kind = "empty" => p \in Ram
  BY <1>1, FrameIsLeft
<1>4. \/ Unchanged(w, v) /\ v.mem[w.table][i] = TablePte(v.table)
      \/ AddsTable(w, v, i) /\ w.mem[w.table][i].kind = "empty"
  BY <1>2, <1>3
<1>5. Going(v)
  <2>1. w.mem[w.table][i].kind = "empty" => Going(v)
    <3>1. ASSUME w.mem[w.table][i].kind = "empty"  PROVE v = NewTable(w, i)
      BY <3>1 DEF NextTable, Going
    <3> QED
      BY <1>1, <1>3, <3>1, NewTableLinks
  <2> QED
    BY <1>2, <1>4, <2>1 DEF Going, Unchanged
<1> HIDE DEF v, p
<1>6. ASSUME Reached(v, vpn, n, w.table), v.mem[w.table][i] = TablePte(v.table)
      PROVE  Reached(v, vpn, n - 1, v.table)
  <2>1. CASE n = 2
    BY <1>6, <2>1 DEF Reached
  <2>2. CASE n = 1
    BY <1>1, <1>6, <2>2 DEF Reached
  <2> QED
    BY <2>1, <2>2
<1>7. CASE Unchanged(w, v) /\ v.mem[w.table][i] = TablePte(v.table)
  <2>1. TablesFor(v, V) /\ Reached(v, vpn, n, w.table)
    BY <1>7 DEF Unchanged, TablesFor, Reached, TablesOf
  <2> QED
    BY <1>2, <1>5, <1>6, <1>7, <2>1 DEF Going, v
<1>8. CASE AddsTable(w, v, i) /\ w.mem[w.table][i].kind = "empty"
  <2> DEFINE q == v.table
  <2>1. /\ q \in Ram \ TablesOf(w) /\ w.table \in TablesOf(w)
        /\ TablesOf(v) = TablesOf(w) \cup {q}
        /\ \A r \in TablesOf(w) : v.level[r] = w.level[r]
        /\ v.level[q] = n - 1 /\ v.mem[w.table][i] = TablePte(q)
    <3>1. q \in Ram \ TablesOf(w) /\ w.table \in TablesOf(w)
      BY <1>1, <1>8 DEF AddsTable, TablesOf
    <3>2. \A r \in Ram : v.level[r] = IF r = q THEN n - 1 ELSE w.level[r]
      BY <1>1, <1>8 DEF AddsTable
    <3>3. v.mem[w.table][i] = TablePte(q)
      BY <1>1, <1>8, <3>1 DEF AddsTable, TablesOf
    <3>4. n - 1 # -1
      OBVIOUS
    <3> QED
      BY <3>1, <3>2, <3>3, <3>4 DEF TablesOf
  <2>2. Reached(v, vpn, n, w.table)
    BY <1>1, <1>8, ReachedStays
  <2>3. Reached(v, vpn, n - 1, q)
    BY <1>6, <2>1, <2>2
  <2>4. Allocated(v.frames) \subseteq BootFrames \cup FramesOf(TablesOf(v))
    BY <1>8, <2>1 DEF AddsTable, TablesFor, FramesOf
  <2>5. ASSUME NEW r \in TablesOf(v), r # pt  PROVE \E u \in V : Reached(v, u, v.level[r], r)
    <3>1. CASE r = q
      BY <2>1, <2>3, <3>1
    <3>2. CASE r \in TablesOf(w)
      <4>1. PICK u \in V : Reached(w, u, w.level[r], r)
        BY <2>5, <3>2 DEF TablesFor
      <4> QED
        BY <1>1, <1>8, <2>1, <3>2, <4>1, ReachedStays
    <3> QED
      BY <2>1, <3>1, <3>2
  <2>6. TablesFor(v, V)
    BY <2>4, <2>5 DEF TablesFor
  <2> QED
    BY <1>2, <1>5, <2>3, <2>6 DEF Going, v
<1> QED
  BY <1>4, <1>7, <1>8

(***************************************************************************)
(* map_page of a page of V finds a frame for each table it has to make.    *)
(***************************************************************************)
LEMMA MapPageAccounted ==
  ASSUME NEW w, GoodWalk(w), Going(w), Paged(w), NEW V, Enough(V), TablesFor(w, V),
         NEW vpn \in V, NEW ppn \in Nat
  PROVE  LET v == MapPage(w, pt, ppn, vpn, MAP_PAGE)
         IN  ~v.halted /\ TablesFor(v, V)
<1> DEFINE v == MapPage(w, pt, ppn, vpn, MAP_PAGE)
           x == [w EXCEPT !.table = pt]
           i2 == VpnArr(vpn, 2)
           i1 == VpnArr(vpn, 1)
           x1 == NextTable(x, i2)
           y == NextTable(x1, i1)
           i == VpnArr(vpn, 0)
<1>1. /\ pt # NULL /\ vpn \in Vpn /\ vpn \in Nat /\ i \in Index /\ i2 \in Index /\ i1 \in Index
      /\ 3 - MAP_PAGE = 0 /\ Align(MAP_PAGE) = 1 /\ ppn % 1 = 0 /\ vpn % 1 = 0
      /\ 1 \in 1..2 /\ 2 \in 1..2 /\ 2 - 1 = 1 /\ 1 - 1 = 0 /\ V \subseteq Vpn
  BY PageTableAssumption, VpnArrIsIndex
  DEF GoodWalk, Ram, NULL, Vpn, Enough, Align, MAP_PAGE, MAP_MEGAPAGE, MAP_GIGAPAGE
<1>2. v = SetLeaf(y, i, ppn)
  BY <1>1 DEF MapPage, RootOf, MapWalk, MAP_PAGE, MAP_MEGAPAGE, MAP_GIGAPAGE
<1>3. GoodWalk(x) /\ Going(x) /\ x.table = pt /\ Unchanged(w, x)
  BY StartOfWalk
<1> HIDE DEF x
<1>4. Paged(x) /\ TablesFor(x, V) /\ StandsAt(x, 2) /\ Reached(x, vpn, 2, x.table)
  BY <1>3 DEF Paged, TablesFor, Reached, TablesOf, Unchanged, StandsAt, GoodWalk, Going, Tree
<1>5. /\ Going(x1) /\ Paged(x1) /\ TablesFor(x1, V) /\ Reached(x1, vpn, 1, x1.table)
      /\ GoodWalk(x1) /\ StandsAt(x1, 1)
  <2>1. Going(x1) /\ Paged(x1) /\ TablesFor(x1, V) /\ Reached(x1, vpn, 1, x1.table)
    BY <1>1, <1>3, <1>4, NextTableAccounted
  <2>2. GoodWalk(x1) /\ (Going(x1) => StandsAt(x1, 1))
    BY <1>1, <1>3, <1>4, NextTableStep
  <2> QED
    BY <2>1, <2>2
<1> HIDE DEF x1
<1>6. Going(y) /\ TablesFor(y, V) /\ GoodWalk(y) /\ StandsAt(y, 0)
  <2>1. Going(y) /\ TablesFor(y, V)
    BY <1>1, <1>5, NextTableAccounted
  <2>2. GoodWalk(y) /\ (Going(y) => StandsAt(y, 0))
    BY <1>1, <1>5, NextTableStep
  <2> QED
    BY <2>1, <2>2
<1> HIDE DEF y, v, i, i2, i1
<1>7. /\ v.frames = y.frames /\ v.level = y.level /\ v.halted = y.halted
      /\ ~Going(v) => v.mem = y.mem
      /\ Going(v) =>
           /\ y.mem[y.table][i].kind = "empty"
           /\ \A q \in Ram, k \in Index :
                v.mem[q][k] = IF q = y.table /\ k = i THEN LeafPte(ppn) ELSE y.mem[q][k]
  <2>1. y.table \in Ram
    BY <1>6 DEF StandsAt
  <2> QED
    BY <1>1, <1>2, <1>6, <2>1, SetLeafStep
<1>8. TablesFor(v, V)
  <2>1. CASE ~Going(v)
    BY <1>6, <1>7, <2>1 DEF TablesFor, TablesOf, Reached
  <2>2. CASE Going(v)
    <3>1. ASSUME NEW u \in Vpn, NEW n, NEW r, Reached(y, u, n, r)  PROVE Reached(v, u, n, r)
      <4>1. VpnArr(u, 2) \in Index /\ VpnArr(u, 1) \in Index
        BY VpnArrIsIndex DEF Vpn
      <4>2. \A t \in Ram, k \in Index : \A s :
              y.mem[t][k] = TablePte(s) => v.mem[t][k] = TablePte(s)
        BY <1>7, <2>2 DEF TablePte
      <4>3. pt \in Ram
        BY <1>6 DEF GoodWalk
      <4> QED
        BY <3>1, <4>1, <4>2, <4>3 DEF Reached
    <3>2. TablesOf(v) = TablesOf(y)
      BY <1>7 DEF TablesOf
    <3> QED
      BY <1>1, <1>6, <1>7, <3>1, <3>2 DEF TablesFor
  <2> QED
    BY <2>1, <2>2
<1> QED
  BY <1>6, <1>7, <1>8 DEF Going, v
=============================================================================
