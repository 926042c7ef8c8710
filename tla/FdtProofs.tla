------------------------------ MODULE FdtProofs ------------------------------
(***************************************************************************)
(* Proofs about the device tree parser, for arrays and blobs of any size.  *)
(***************************************************************************)
EXTENDS Fdt, SequenceTheorems, WellFoundedInduction, TLAPS

\* The constants, in the form the proofs below use them.
LEMMA LevelType ==
  /\ Levels \in Nat \ {0} /\ 0 \in Level /\ Level \subseteq Nat
  /\ \A l \in Level, k \in Nat : k <= l => k \in Level
BY FdtAssumption DEF Level

\* Counts are numbers, so None is not one of them.
LEMMA CountsType ==
  /\ CellCounts \subseteq Nat /\ Garbage \subseteq Nat /\ None \notin CellCounts
  /\ MaxNodes \in Nat /\ Word \in Nat \ {0}
BY FdtAssumption DEF None

\* The values of properties are sequences of cells.
LEMMA WordsType ==
  /\ RegValues \subseteq Seq(0..(Word - 1)) /\ Beyond \subseteq Seq(0..(Word - 1))
BY FdtAssumption

\* A new value for the innermost open node leaves the other nodes alone.
LEMMA TopChanges ==
  ASSUME NEW s \in Seq(Node), s # << >>, NEW n \in Node
  PROVE  LET t == [s EXCEPT ![Len(s)] = n]
         IN  /\ t \in Seq(Node) /\ Len(t) = Len(s) /\ t # << >>
             /\ \A k \in 1..Len(s) : t[k] = IF k = Len(s) THEN n ELSE s[k]
<1>1. Len(s) \in 1..Len(s)
  BY EmptySeq
<1>2. DOMAIN s = 1..Len(s) /\ s \in [1..Len(s) -> Node] /\ Len(s) \in Nat
  BY LenProperties
<1> QED
  BY <1>1, <1>2, ExceptSeq

\* A 64-bit number made of two cells is a natural number.
LEMMA Swapb64Nat ==
  ASSUME NEW words \in Seq(0..(Word - 1)), NEW k \in Nat,
         2 * k + 2 <= Len(words)
  PROVE  Swapb64(words, k) \in Nat
<1>1. words[2 * k + 1] \in Nat /\ words[2 * k + 2] \in Nat /\ Word \in Nat
  BY FdtAssumption
<1>2. \A a, b, c \in Nat : a * b + c \in Nat
  OBVIOUS
<1> QED
  BY <1>1, <1>2 DEF Swapb64

\* What DeviceReg decodes is a sequence of regions.
LEMMA DecodeType ==
  ASSUME NEW words \in Seq(0..(Word - 1)), NEW ranges \in Int,
         NEW sizeCells \in Nat,
         Len(words) >= (IF sizeCells = 0 THEN 2 ELSE 4) * ranges
  PROVE  /\ Decode(words, ranges, sizeCells) \in Seq(Region)
         /\ ranges \in Nat => Len(Decode(words, ranges, sizeCells)) = ranges
         /\ ranges <= 0 => Decode(words, ranges, sizeCells) = << >>
<1>1. ASSUME NEW k \in 1..ranges
      PROVE  Decode(words, ranges, sizeCells)[k] \in Region
  <2>0. k \in Nat /\ k - 1 \in Nat /\ 2 * k - 2 \in Nat /\ 2 * k - 1 \in Nat
    OBVIOUS
  <2>1. CASE sizeCells = 0
    <3>1. Swapb64(words, k - 1) \in Nat
      BY <2>0, <2>1, Swapb64Nat
    <3> QED
      BY <2>1, <3>1 DEF Decode, Region
  <2>2. CASE sizeCells # 0
    <3>1. Swapb64(words, 2 * k - 2) \in Nat
      BY <2>0, <2>2, Swapb64Nat
    <3>2. Swapb64(words, 2 * k - 1) \in Nat
      BY <2>0, <2>2, Swapb64Nat
    <3> QED
      BY <2>2, <3>1, <3>2 DEF Decode, Region
  <2> QED
    BY <2>1, <2>2
<1>2. CASE ranges \in Nat
  <2>1. Decode(words, ranges, sizeCells) \in [1..ranges -> Region]
    BY <1>1 DEF Decode
  <2> QED
    BY <1>2, <2>1
<1>3. CASE ranges \notin Nat
  <2>1. 1..ranges = {}
    BY <1>3
  <2>2. Decode(words, ranges, sizeCells) = << >>
    BY <2>1 DEF Decode
  <2> QED
    BY <1>3, <2>2
<1> QED
  BY <1>2, <1>3

\* The cells of a region of the tree lie inside the property.
LEMMA RegionsOfType ==
  ASSUME NEW words \in Seq(0..(Word - 1)), NEW a \in Nat, NEW z \in Nat,
         a + z # 0
  PROVE  RegionsOf(words, [address |-> a, size |-> z]) \subseteq Region
<1> DEFINE stride == a + z
           n == Len(words) \div stride
<1>1. stride \in Nat \ {0} /\ Len(words) \in Nat
  OBVIOUS
<1>2. n \in Nat /\ n * stride <= Len(words)
  BY <1>1
<1>3. \A k \in 1..Len(words) : words[k] \in Nat
  BY FdtAssumption
<1>4. \A x, y, w \in Nat : x * y + w \in Nat
  OBVIOUS
<1>5. ASSUME NEW from \in Nat \ {0}, NEW m \in Nat, from + m - 1 <= Len(words)
      PROVE  Number(words, from, m) \in Nat
  <2>1. CASE m = 0
    BY <2>1 DEF Number
  <2>2. CASE m = 1
    BY <1>3, <1>5, <2>2 DEF Number
  <2>3. CASE m > 1
    <3>1. from + m - 2 \in 1..Len(words) /\ from + m - 1 \in 1..Len(words)
      BY <1>5, <2>3
    <3>2. words[from + m - 2] \in Nat /\ words[from + m - 1] \in Nat
      BY <1>3, <3>1
    <3>3. Number(words, from, m)
            = words[from + m - 2] * Word + words[from + m - 1]
      BY <2>3 DEF Number
    <3> QED
      BY <1>4, <3>2, <3>3, CountsType
  <2> QED
    BY <1>5, <2>1, <2>2, <2>3
<1>6. ASSUME NEW i \in 0..(n - 1)
      PROVE  i * stride \in Nat /\ i * stride + stride <= Len(words)
  <2>1. i \in Nat /\ i + 1 <= n
    BY <1>2
  <2> HIDE DEF n, stride
  <2>2. (i + 1) * stride <= n * stride
    BY <1>1, <1>2, <2>1
  <2>3. (i + 1) * stride = i * stride + stride /\ i * stride \in Nat
    BY <1>1, <2>1
  <2> QED
    BY <1>1, <1>2, <2>2, <2>3
<1>7. ASSUME NEW i \in 0..(n - 1)
      PROVE  /\ Number(words, i * stride + 1, a) \in Nat
             /\ Number(words, i * stride + 1 + a, z) \in Nat
  <2>1. i * stride + 1 \in Nat \ {0} /\ i * stride + 1 + a \in Nat \ {0}
        /\ i * stride + 1 + a - 1 <= Len(words)
        /\ i * stride + 1 + a + z - 1 <= Len(words)
    <3> DEFINE p == i * stride
    <3>1. p \in Nat /\ p + stride <= Len(words)
      BY <1>6
    <3> HIDE DEF p
    <3> QED
      BY <1>1, <3>1 DEF p
  <2> HIDE DEF stride, n
  <2> QED
    BY <1>5, <2>1
<1>8. RegionsOf(words, [address |-> a, size |-> z])
        = {[address |-> Number(words, i * stride + 1, a),
            size    |-> Number(words, i * stride + 1 + a, z)] : i \in 0..(n - 1)}
  BY DEF RegionsOf
<1> HIDE DEF n, stride
<1> QED
  BY <1>7, <1>8 DEF Region

-----------------------------------------------------------------------------
\* What `reg` is given is a number of cells, and some.
LEMMA TrueCellsType ==
  ASSUME open \in Seq(Node), Depth > 1
  PROVE  TrueCells.address \in Nat /\ TrueCells.size \in Nat
         /\ TrueCells = [address |-> TrueCells.address, size |-> TrueCells.size]
<1>1. Depth - 1 \in 1..Len(open)
  BY DEF Depth
<1>2. Parent \in Node
  BY <1>1 DEF Parent
<1> QED
  BY <1>2, CountsType DEF Node, TrueCells, None

\* The parser starts with no node open and nothing recorded.
LEMMA InitTypeOK == Init => TypeOK
<1> SUFFICES ASSUME Init
             PROVE  TypeOK
  OBVIOUS
<1>1. 0 \in Level /\ NoRegion \in Region
  BY LevelType DEF NoRegion, Region
<1>2. open \in Seq(Node) /\ Depth = node_index + 1 /\ todo \in Seq(Region)
  BY EmptySeq DEF Init, Depth
<1> QED
  <2>1. node_arr \in [Level -> Names \cup {"root", "none"}]
    BY DEF Init
  <2>2. address_cells \in [Level -> Nat] /\ size_cells \in [Level -> Nat]
    BY DEF Init
  <2>3. slots \in [1..Slots -> Region] /\ ram \in Region
    BY <1>1 DEF Init
  <2>4. /\ at \in {"header", "token", "regions", "done"} /\ dtb \in BOOLEAN
        /\ node_index \in {-1} \cup Level /\ plain \in BOOLEAN
        /\ regions \subseteq Region
    BY DEF Init
  <2>5. nodes \in 0..MaxNodes
    BY CountsType DEF Init
  <2> QED
    BY <1>2, <2>1, <2>2, <2>3, <2>4, <2>5 DEF TypeOK

\* What an action does to the history of open nodes keeps it one of nodes.
LEMMA InRegStep ==
  ASSUME TypeOK, NEW words, InReg(words)
  PROVE  /\ open' \in Seq(Node) /\ Len(open') = Depth
         /\ \A k \in 1..Depth : /\ open'[k].address = open[k].address
                                /\ open'[k].size = open[k].size
<1> DEFINE n == [Top EXCEPT !.reg = TRUE]
<1>1. open \in Seq(Node) /\ open # << >> /\ Depth \in 1..Len(open) /\ Top \in Node
  BY EmptySeq DEF TypeOK, InReg, InProperty, Top, Depth
<1>2. n \in Node /\ n.address = Top.address /\ n.size = Top.size
  BY <1>1 DEF Node
<1>3. open' = [open EXCEPT ![Len(open)] = n]
  BY DEF InReg, Top, Depth
<1> HIDE DEF n
<1> QED
  BY <1>1, <1>2, <1>3, TopChanges DEF Depth, Top

\* A #...-cells property changes what the innermost open node declares.
LEMMA DeclareStep ==
  ASSUME TypeOK, InProperty, NEW c \in CellCounts
  PROVE  /\ LET t == [open EXCEPT ![Depth].address = c]
            IN  /\ t \in Seq(Node) /\ Len(t) = Depth
                /\ \A k \in 1..Depth :
                     /\ t[k].address = IF k = Depth THEN c ELSE open[k].address
                     /\ t[k].size = open[k].size
         /\ LET t == [open EXCEPT ![Depth].size = c]
            IN  /\ t \in Seq(Node) /\ Len(t) = Depth
                /\ \A k \in 1..Depth :
                     /\ t[k].size = IF k = Depth THEN c ELSE open[k].size
                     /\ t[k].address = open[k].address
<1> DEFINE n == [Top EXCEPT !.address = c]
           m == [Top EXCEPT !.size = c]
<1>1. open \in Seq(Node) /\ open # << >> /\ Depth \in 1..Len(open) /\ Top \in Node
  BY EmptySeq DEF TypeOK, InProperty, Top, Depth
<1>2. /\ n \in Node /\ n.address = c /\ n.size = Top.size
      /\ m \in Node /\ m.address = Top.address /\ m.size = c
  BY <1>1 DEF Node
<1>3. /\ [open EXCEPT ![Depth].address = c] = [open EXCEPT ![Len(open)] = n]
      /\ [open EXCEPT ![Depth].size = c] = [open EXCEPT ![Len(open)] = m]
  BY DEF Top, Depth
<1> HIDE DEF n, m
<1>4. LET t == [open EXCEPT ![Len(open)] = n]
      IN  /\ t \in Seq(Node) /\ Len(t) = Len(open) /\ t # << >>
          /\ \A k \in 1..Len(open) : t[k] = IF k = Len(open) THEN n ELSE open[k]
  BY <1>1, <1>2, TopChanges
<1>5. LET t == [open EXCEPT ![Len(open)] = m]
      IN  /\ t \in Seq(Node) /\ Len(t) = Len(open) /\ t # << >>
          /\ \A k \in 1..Len(open) : t[k] = IF k = Len(open) THEN m ELSE open[k]
  BY <1>1, <1>2, TopChanges
<1> QED
  BY <1>1, <1>2, <1>3, <1>4, <1>5 DEF Depth, Top

\* A node that begins is on top of the others and declares nothing yet.
LEMMA BeginNodeStep ==
  ASSUME TypeOK, NEW name \in Names \cup {"root"}, BeginNode(name)
  PROVE  /\ open' \in Seq(Node) /\ Len(open') = Depth + 1
         /\ open'[Depth + 1].address = None /\ open'[Depth + 1].size = None
         /\ \A k \in 1..Depth : /\ open'[k].address = open[k].address
                                /\ open'[k].size = open[k].size
<1> DEFINE n == [Top EXCEPT !.children = TRUE]
           new == [name |-> name, address |-> None, size |-> None,
                   reg |-> FALSE, children |-> FALSE]
           s == IF open = << >> THEN open ELSE [open EXCEPT ![Len(open)] = n]
<1>1. open' = Append(s, new)
  BY DEF BeginNode, Top, Depth
<1>2. new \in Node /\ new.address = None /\ new.size = None
  BY DEF Node
<1>3. open \in Seq(Node) /\ Depth \in Nat
  BY DEF TypeOK, Depth
<1>4. /\ s \in Seq(Node) /\ Len(s) = Depth
      /\ \A k \in 1..Depth : s[k].address = open[k].address /\ s[k].size = open[k].size
  <2>1. CASE open = << >>
    BY <1>3, <2>1 DEF Depth
  <2>2. CASE open # << >>
    <3>1. Depth \in 1..Len(open) /\ Top \in Node
      BY <1>3, <2>2, EmptySeq DEF Top, Depth
    <3>2. n \in Node /\ n.address = Top.address /\ n.size = Top.size
      BY <3>1 DEF Node
    <3>3. s = [open EXCEPT ![Len(open)] = n]
      BY <2>2
    <3> HIDE DEF n, s
    <3> QED
      BY <1>3, <2>2, <3>1, <3>2, <3>3, TopChanges DEF Depth, Top
  <2> QED
    BY <2>1, <2>2
<1> HIDE DEF s, new
<1> QED
  BY <1>1, <1>2, <1>3, <1>4, AppendProperties

\* The end of a node leaves the nodes around it as they are.
LEMMA EndNodeStep ==
  ASSUME TypeOK, EndNode
  PROVE  /\ open' \in Seq(Node) /\ Len(open') = node_index' + 1
         /\ node_index' \in {-1} \cup Level
         /\ node_index' < Depth
         /\ \A k \in 1..Len(open') : k \in 1..Depth /\ open'[k] = open[k]
<1>1. open \in Seq(Node) /\ Depth = node_index + 1 /\ Depth \in Nat
      /\ node_index \in {-1} \cup Level
  BY DEF TypeOK, Depth
<1>2. CASE open = << >>
  BY <1>1, <1>2 DEF EndNode, Depth
<1>3. CASE open # << >>
  <2>1. Depth > 0
    BY <1>1, <1>3, EmptySeq DEF Depth
  <2>2. open' = SubSeq(open, 1, Depth - 1) /\ node_index' = node_index - 1
    BY <1>1, <1>3, <2>1 DEF EndNode
  <2>3. \A k \in 1..(Depth - 1) : open[k] \in Node
    BY <1>1 DEF Depth
  <2>4. /\ open' \in Seq(Node) /\ Len(open') = Depth - 1
        /\ \A k \in 1..(Depth - 1) : open'[k] = open[k]
    BY <1>1, <2>1, <2>2, <2>3, SubSeqProperties
  <2>5. node_index' \in {-1} \cup Level
    BY <1>1, <2>1, <2>2, LevelType
  <2> QED
    BY <1>1, <2>1, <2>2, <2>4, <2>5
<1> QED
  BY <1>2, <1>3

-----------------------------------------------------------------------------
\* A record of counts filled from a level on.
LEMMA FillFromType ==
  ASSUME NEW counts \in [Level -> Nat], NEW from \in Int, NEW n \in Nat
  PROVE  /\ FillFrom(counts, from, n) \in [Level -> Nat]
         /\ \A l \in Level : FillFrom(counts, from, n)[l]
                               = IF l >= from THEN n ELSE counts[l]
BY DEF FillFrom

\* Least picks a slot of the set, as the search from slot 0 on does.
LEMMA LeastIsIn ==
  ASSUME NEW S \in SUBSET (1..Slots), S # {}
  PROVE  Least(S) \in S
<1> DEFINE R == {ss \in Nat \X Nat : ss[1] < ss[2]}
<1>1. IsWellFoundedOn(R, Nat)
  BY NatLessThanWellFounded, Zenon DEF OpToRel
<1>2. S \in SUBSET Nat /\ S # {}
  OBVIOUS
<1>3. PICK x \in S : \A y \in S : <<y, x>> \notin R
  BY <1>1, <1>2, WFMin
<1>4. ASSUME NEW y \in S  PROVE x <= y
  <2>1. <<y, x>> \in Nat \X Nat /\ <<y, x>>[1] = y /\ <<y, x>>[2] = x
    OBVIOUS
  <2> QED
    BY <1>3, <2>1
<1> QED
  BY <1>4 DEF Least

\* Every token keeps the types: one step per action of the parser.
LEMMA NextTypeOK ==
  ASSUME TypeOK, [Next]_vars
  PROVE  TypeOK'
<1> USE DEF TypeOK
<1>1. ASSUME NEW valid \in BOOLEAN, CheckHeader(valid)
      PROVE  TypeOK'
  BY <1>1 DEF CheckHeader, level, cells, tree, Depth
<1>2. ASSUME NEW name \in Names \cup {"root"}, BeginNode(name)
      PROVE  TypeOK'
  <2>1. open' \in Seq(Node) /\ Len(open') = Depth + 1
    BY <1>2, BeginNodeStep
  <2>2. Depth' = node_index' + 1 /\ node_index' \in {-1} \cup Level
        /\ nodes' \in 0..MaxNodes
    BY <1>2, <2>1, CountsType DEF BeginNode, Depth
  <2>3. node_arr' \in [Level -> Names \cup {"root", "none"}]
    BY <1>2 DEF BeginNode
  <2> QED
    BY <1>2, <2>1, <2>2, <2>3 DEF BeginNode, cells, device_information
<1>3. ASSUME EndNode
      PROVE  TypeOK'
  <2>1. open' \in Seq(Node) /\ Depth' = node_index' + 1
        /\ node_index' \in {-1} \cup Level /\ node_index' \in Int
    BY <1>3, EndNodeStep DEF Depth, Level
  <2>2. CellsAt(address_cells, node_index') \subseteq Nat
        /\ CellsAt(size_cells, node_index') \subseteq Nat
    BY <2>1, CountsType DEF CellsAt
  <2>3. address_cells' \in [Level -> Nat] /\ size_cells' \in [Level -> Nat]
    <3>1. PICK a \in CellsAt(address_cells, node_index') :
            address_cells' = FillFrom(address_cells, node_index' + 1, a)
      BY <1>3 DEF EndNode
    <3>2. PICK z \in CellsAt(size_cells, node_index') :
            size_cells' = FillFrom(size_cells, node_index' + 1, z)
      BY <1>3 DEF EndNode
    <3>3. a \in Nat /\ z \in Nat /\ node_index' + 1 \in Int
      BY <2>1, <2>2
    <3> QED
      BY <3>1, <3>2, <3>3, FillFromType
  <2> QED
    BY <1>3, <2>1, <2>3 DEF EndNode, device_information
<1>4. ASSUME NEW n \in CellCounts, AddressCells(n) \/ SizeCells(n)
      PROVE  TypeOK'
  <2>1. n \in Nat /\ node_index \in Int
    BY CountsType, LevelType
  <2>2. InProperty
    BY <1>4 DEF AddressCells, SizeCells
  <2>3. CASE AddressCells(n)
    <3>1. open' \in Seq(Node) /\ Depth' = Depth
      BY <2>2, <2>3, DeclareStep DEF AddressCells, Depth
    <3>2. address_cells' \in [Level -> Nat]
      BY <2>1, <2>3, FillFromType DEF AddressCells
    <3> QED
      BY <2>3, <3>1, <3>2 DEF AddressCells, device_information, level
  <2>4. CASE SizeCells(n)
    <3>1. open' \in Seq(Node) /\ Depth' = Depth
      BY <2>2, <2>4, DeclareStep DEF SizeCells, Depth
    <3>2. size_cells' \in [Level -> Nat]
      BY <2>1, <2>4, FillFromType DEF SizeCells
    <3> QED
      BY <2>4, <3>1, <3>2 DEF SizeCells, device_information, level
  <2> QED
    BY <1>4, <2>3, <2>4
<1>5. ASSUME NEW words \in RegValues, CpuReg(words)
      PROVE  TypeOK'
  <2>1. open' \in Seq(Node) /\ Depth' = Depth
    BY <1>5, InRegStep DEF CpuReg, Depth
  <2> QED
    BY <1>5, <2>1 DEF CpuReg, parser, level, cells, device_information
<1>6. ASSUME NEW words \in RegValues, NEW beyond \in Beyond,
             MemoryReg(words, beyond)
      PROVE  TypeOK'
  <2>1. open' \in Seq(Node) /\ Depth' = Depth
    BY <1>6, InRegStep DEF MemoryReg, Depth
  <2>2. words \o beyond \in Seq(0..(Word - 1))
    BY WordsType, ConcatProperties
  <2>3. /\ Swapb64(words \o beyond, 0) \in Nat
        /\ Swapb64(words \o beyond, 1) \in Nat
    <3>1. Len(words \o beyond) >= 4 /\ Len(words \o beyond) \in Nat
      BY <1>6, <2>2 DEF MemoryReg
    <3>2. \A k \in Nat : 2 * k + 2 <= Len(words \o beyond)
                           => Swapb64(words \o beyond, k) \in Nat
      BY <2>2, Swapb64Nat
    <3> QED
      BY <3>1, <3>2
  <2> QED
    BY <1>6, <2>1, <2>3 DEF MemoryReg, level, cells, Region
<1>7. ASSUME NEW words \in RegValues, NEW beyond \in Beyond,
             DeviceReg(words, beyond)
      PROVE  TypeOK'
  <2>1. open' \in Seq(Node) /\ Depth' = Depth
    BY <1>7, InRegStep DEF DeviceReg, Depth
  <2>2. words \o beyond \in Seq(0..(Word - 1)) /\ words \in Seq(0..(Word - 1))
    BY WordsType, ConcatProperties
  <2>3. node_index \in Level /\ size_cells[node_index] \in Nat
        /\ address_cells[node_index] \in Nat
    BY <1>7, EmptySeq DEF DeviceReg, InReg, InProperty, Depth
  <2>4. Ranges(words, address_cells[node_index], size_cells[node_index]) \in Int
    BY <2>2, <2>3 DEF Ranges
  <2>5. todo' \in Seq(Region)
    BY <1>7, <2>2, <2>3, <2>4, DecodeType DEF DeviceReg
  <2>6. regions' \subseteq Region
    <3>1. open \in Seq(Node) /\ Depth > 1 /\ TrueCells.address + TrueCells.size # 0
      BY <1>7 DEF DeviceReg, InReg
    <3>2. RegionsOf(words, TrueCells) \subseteq Region
      BY <2>2, <3>1, TrueCellsType, RegionsOfType
    <3> QED
      BY <1>7, <3>2 DEF DeviceReg
  <2> QED
    BY <1>7, <2>1, <2>5, <2>6
       DEF DeviceReg, Supported, level, cells, device_information
<1>8. ASSUME RecordRegion
      PROVE  TypeOK'
  <2>1. todo # << >> /\ Head(todo) \in Region /\ Tail(todo) \in Seq(Region)
        /\ << >> \in Seq(Region)
    BY <1>8, HeadTailProperties, EmptySeq DEF RecordRegion
  <2>2. todo' \in Seq(Region) /\ slots' \in [1..Slots -> Region]
    BY <1>8, <2>1 DEF RecordRegion
  <2> QED
    BY <1>8, <2>2 DEF RecordRegion, level, cells, tree, Depth
<1>9. CASE RegionsDone
  BY <1>9 DEF RegionsDone, level, cells, device_information, tree, Depth
<1>10. CASE End
  BY <1>10 DEF End, level, cells, device_information, tree, Depth
<1>11. CASE UNCHANGED vars
  BY <1>11 DEF vars, parser, level, cells, device_information, tree, Depth
<1> QED
  BY <1>1, <1>2, <1>3, <1>4, <1>5, <1>6, <1>7, <1>8, <1>9, <1>10, <1>11 DEF Next

-----------------------------------------------------------------------------
(***************************************************************************)
(* The array of counts c and the counts d that the open nodes declare: how *)
(* Inherits survives the begin of a node, the end of one, and a            *)
(* declaration.                                                            *)
(***************************************************************************)
Declared(n) == [1..n -> CellCounts \cup {None}]

\* A node that begins inherits, since it declares nothing yet.
LEMMA InheritsBegin ==
  ASSUME NEW n \in Nat, NEW c, NEW d \in Declared(n), NEW e \in Declared(n + 1),
         e[n + 1] = None, \A k \in 1..n : e[k] = d[k], Inherits(c, d)
  PROVE  Inherits(c, e)
<1>1. DOMAIN d = 1..n /\ DOMAIN e = 1..(n + 1)
  BY DEF Declared
<1> QED
  BY <1>1 DEF Inherits

\* Inherits, with the levels of the open nodes as an interval.
LEMMA InheritsUnfolds ==
  ASSUME NEW c, NEW d, NEW n \in Nat, DOMAIN d = 1..n
  PROVE  Inherits(c, d) <=>
           \A l \in Level, k \in 1..n :
             (/\ k - 1 <= l /\ d[k] # None
              /\ \A j \in 1..n : k < j /\ j - 1 <= l => d[j] = None)
             => c[l] = d[k]
BY Zenon DEF Inherits

\* FDT_END_NODE fills the deeper levels with what the level left declares.
LEMMA InheritsEnd ==
  ASSUME NEW n \in Nat, NEW m \in 0..n, NEW c \in [Level -> Nat],
         NEW d \in Declared(n), NEW e \in Declared(m),
         \A k \in 1..m : e[k] = d[k], Inherits(c, d), NEW v \in Nat,
         m > 0 => m - 1 \in Level /\ v = c[m - 1]
  PROVE  Inherits(FillFrom(c, m, v), e)
<1>1. DOMAIN d = 1..n /\ DOMAIN e = 1..m /\ Level \subseteq Nat /\ m \in Nat
  BY LevelType DEF Declared
<1> DEFINE f == FillFrom(c, m, v)
<1>2. ASSUME NEW l \in Level, NEW k \in 1..m,
             k - 1 <= l, e[k] # None,
             \A j \in 1..m : k < j /\ j - 1 <= l => e[j] = None
      PROVE  f[l] = e[k]
  <2>1. CASE l < m
    <3>1. \A j \in 1..n : k < j /\ j - 1 <= l => d[j] = None
      BY <1>1, <1>2, <2>1
    <3>2. c[l] = d[k]
      BY <1>1, <1>2, <3>1 DEF Inherits
    <3>3. FillFrom(c, m, v)[l] = c[l]
      BY <1>1, <1>2, <2>1 DEF FillFrom
    <3> QED
      BY <3>2, <3>3
  <2>2. CASE l >= m
    <3>1. m > 0 /\ m - 1 \in Level /\ v = c[m - 1]
      OBVIOUS
    <3>2. \A j \in 1..n : k < j /\ j - 1 <= m - 1 => d[j] = None
      BY <1>1, <1>2, <2>2
    <3>3. c[m - 1] = d[k]
      <4>1. k \in 1..n /\ k - 1 <= m - 1 /\ d[k] # None
        BY <1>1, <1>2
      <4> QED
        BY <1>1, <1>2, <3>1, <3>2, <4>1, InheritsUnfolds
    <3>4. FillFrom(c, m, v)[l] = v
      BY <1>1, <1>2, <2>2 DEF FillFrom
    <3> QED
      BY <3>1, <3>3, <3>4
  <2> QED
    BY <1>1, <2>1, <2>2
<1> HIDE DEF f
<1>3. Inherits(f, e)
  BY <1>1, <1>2, InheritsUnfolds
<1> QED
  BY <1>3 DEF f

\* A declaration holds for its level and the deeper ones.
LEMMA InheritsDeclare ==
  ASSUME NEW n \in Nat \ {0}, NEW c \in [Level -> Nat], NEW v \in CellCounts,
         NEW d \in Declared(n), NEW e \in Declared(n),
         e[n] = v, \A k \in 1..(n - 1) : e[k] = d[k], Inherits(c, d)
  PROVE  Inherits(FillFrom(c, n - 1, v), e)
<1>1. DOMAIN d = 1..n /\ DOMAIN e = 1..n /\ n \in Nat
      /\ Level \subseteq Nat /\ v # None
  BY LevelType, CountsType DEF Declared
<1> DEFINE f == FillFrom(c, n - 1, v)
<1>2. ASSUME NEW l \in Level, NEW k \in 1..n,
             k - 1 <= l, e[k] # None,
             \A j \in 1..n : k < j /\ j - 1 <= l => e[j] = None
      PROVE  f[l] = e[k]
  <2>1. CASE l < n - 1
    <3>1. \A j \in 1..n : k < j /\ j - 1 <= l => d[j] = None
      BY <1>1, <1>2, <2>1
    <3>2. k < n /\ d[k] # None
      BY <1>1, <1>2, <2>1
    <3>3. c[l] = d[k]
      BY <1>1, <1>2, <3>1, <3>2 DEF Inherits
    <3>4. FillFrom(c, n - 1, v)[l] = c[l]
      BY <1>1, <1>2, <2>1 DEF FillFrom
    <3> QED
      BY <3>2, <3>3, <3>4
  <2>2. CASE l >= n - 1
    <3>1. k = n
      BY <1>1, <1>2, <2>2
    <3>2. FillFrom(c, n - 1, v)[l] = v
      BY <1>1, <1>2, <2>2 DEF FillFrom
    <3> QED
      BY <3>1, <3>2
  <2> QED
    BY <1>1, <2>1, <2>2
<1> HIDE DEF f
<1>3. Inherits(f, e)
  BY <1>1, <1>2, InheritsUnfolds
<1> QED
  BY <1>3 DEF f

\* What the open nodes declare, as the lemmas above take it.
LEMMA DeclaredType ==
  ASSUME NEW s \in Seq(Node)
  PROVE  /\ Len(s) \in Nat
         /\ [k \in 1..Len(s) |-> s[k].address] \in Declared(Len(s))
         /\ [k \in 1..Len(s) |-> s[k].size] \in Declared(Len(s))
<1>1. \A k \in 1..Len(s) : s[k] \in Node
  OBVIOUS
<1>2. \A n \in Node : /\ n.address \in CellCounts \cup {None}
                      /\ n.size \in CellCounts \cup {None}
  BY DEF Node
<1> QED
  BY <1>1, <1>2 DEF Declared

\* Arithmetic on levels, for values of primed variables.
LEMMA OneLess ==
  ASSUME NEW i \in Int, NEW x \in Int, NEW y \in Int, x = i + 1, i >= -1, i < y
  PROVE  x \in 0..y /\ i = x - 1
OBVIOUS

\* Every token keeps the counts in step with the tree.
LEMMA NextCells ==
  ASSUME TypeOK, TypeOK', CellsFollowTheTree, [Next]_vars
  PROVE  CellsFollowTheTree'
<1>0. /\ open \in Seq(Node) /\ open' \in Seq(Node)
      /\ address_cells \in [Level -> Nat] /\ size_cells \in [Level -> Nat]
      /\ Depth = node_index + 1 /\ node_index \in {-1} \cup Level
      /\ node_index \in Int /\ Depth \in Nat
  <2>1. /\ open \in Seq(Node) /\ Depth = node_index + 1 /\ node_index \in {-1} \cup Level
        /\ address_cells \in [Level -> Nat] /\ size_cells \in [Level -> Nat]
    BY DEF TypeOK
  <2>2. open' \in Seq(Node)
    BY DEF TypeOK
  <2>3. node_index \in Int /\ node_index >= -1
    BY <2>1, LevelType
  <2> QED
    BY <2>1, <2>2, <2>3
<1>1. /\ AddressesDeclared \in Declared(Depth) /\ SizesDeclared \in Declared(Depth)
      /\ AddressesDeclared' \in Declared(Depth') /\ SizesDeclared' \in Declared(Depth')
  BY <1>0, DeclaredType DEF AddressesDeclared, SizesDeclared, Depth
\* Every action but those of the first three cases keeps counts and tree.
<1>2. ASSUME UNCHANGED cells, Depth' = Depth,
             \A k \in 1..Depth : /\ open'[k].address = open[k].address
                                 /\ open'[k].size = open[k].size
      PROVE  CellsFollowTheTree'
  <2>1. AddressesDeclared' = AddressesDeclared /\ SizesDeclared' = SizesDeclared
    BY <1>2 DEF AddressesDeclared, SizesDeclared
  <2> QED
    BY <1>2, <2>1 DEF CellsFollowTheTree, Inherits, cells
<1>3. ASSUME NEW name \in Names \cup {"root"}, BeginNode(name)
      PROVE  CellsFollowTheTree'
  <2>1. /\ Depth' = Depth + 1
        /\ open'[Depth + 1].address = None /\ open'[Depth + 1].size = None
        /\ \A k \in 1..Depth : /\ open'[k].address = open[k].address
                               /\ open'[k].size = open[k].size
    BY <1>3, BeginNodeStep DEF Depth
  <2>2. /\ AddressesDeclared'[Depth + 1] = None
        /\ \A k \in 1..Depth : AddressesDeclared'[k] = AddressesDeclared[k]
        /\ SizesDeclared'[Depth + 1] = None
        /\ \A k \in 1..Depth : SizesDeclared'[k] = SizesDeclared[k]
    BY <1>0, <2>1 DEF AddressesDeclared, SizesDeclared
  <2>3. address_cells' = address_cells /\ size_cells' = size_cells
    BY <1>3 DEF BeginNode, cells
  <2>4. Inherits(address_cells, AddressesDeclared')
        /\ Inherits(size_cells, SizesDeclared')
    BY <1>0, <1>1, <2>1, <2>2, InheritsBegin DEF CellsFollowTheTree
  <2> QED
    BY <2>3, <2>4 DEF CellsFollowTheTree, Inherits
<1>4. ASSUME EndNode
      PROVE  CellsFollowTheTree'
  <2>1. /\ Depth' \in 0..Depth /\ node_index' = Depth' - 1
        /\ node_index' \in {-1} \cup Level
        /\ \A k \in 1..Depth' : open'[k] = open[k]
    <3>1. /\ Len(open') = node_index' + 1 /\ node_index' \in {-1} \cup Level
          /\ node_index' < Depth
      BY <1>4, EndNodeStep
    <3>2. node_index' \in Int /\ node_index' >= -1
      BY <3>1, LevelType
    <3>3. Depth' = Len(open')
      BY DEF Depth
    <3>4. node_index' < Depth /\ Depth \in Int
      BY <1>0, <3>1
    <3>5. Depth' = node_index' + 1 /\ Depth' \in Int
      BY <3>1, <3>2, <3>3
    <3>6. Depth' \in 0..Depth /\ node_index' = Depth' - 1
      BY <3>2, <3>4, <3>5, OneLess
    <3>7. \A k \in 1..Len(open') : open'[k] = open[k]
      BY <1>4, EndNodeStep
    <3> QED
      BY <3>1, <3>3, <3>6, <3>7
  <2>2. /\ \A k \in 1..Depth' : AddressesDeclared'[k] = AddressesDeclared[k]
        /\ \A k \in 1..Depth' : SizesDeclared'[k] = SizesDeclared[k]
    BY <1>0, <2>1 DEF AddressesDeclared, SizesDeclared
  <2>3. PICK a \in CellsAt(address_cells, node_index') :
          address_cells' = FillFrom(address_cells, node_index' + 1, a)
    BY <1>4 DEF EndNode
  <2>4. PICK z \in CellsAt(size_cells, node_index') :
          size_cells' = FillFrom(size_cells, node_index' + 1, z)
    BY <1>4 DEF EndNode
  <2>5. /\ a \in Nat /\ z \in Nat
        /\ Depth' > 0 => /\ Depth' - 1 \in Level
                         /\ a = address_cells[Depth' - 1] /\ z = size_cells[Depth' - 1]
    <3>1. Depth' \in Nat /\ Depth' - 1 = node_index'
      BY <1>0, <2>1
    <3>2. CASE node_index' = -1
      BY <2>3, <2>4, <3>1, <3>2, CountsType DEF CellsAt
    <3>3. CASE node_index' # -1
      <4>1. node_index' \in Level
        BY <2>1, <3>3
      <4>2. a = address_cells[node_index'] /\ z = size_cells[node_index']
        BY <2>3, <2>4, <3>3 DEF CellsAt
      <4>3. address_cells[node_index'] \in Nat /\ size_cells[node_index'] \in Nat
        BY <1>0, <4>1
      <4> QED
        BY <3>1, <4>1, <4>2, <4>3
    <3> QED
      BY <3>2, <3>3
  <2>6. node_index' + 1 = Depth'
    <3>1. Depth' \in Nat /\ Depth' - 1 = node_index'
      BY <1>0, <2>1
    <3>2. \A i \in Nat : i - 1 + 1 = i
      OBVIOUS
    <3> QED
      BY <3>1, <3>2
  <2>7. Inherits(FillFrom(address_cells, Depth', a), AddressesDeclared')
    BY <1>0, <1>1, <2>1, <2>2, <2>5, InheritsEnd DEF CellsFollowTheTree
  <2>8. Inherits(FillFrom(size_cells, Depth', z), SizesDeclared')
    BY <1>0, <1>1, <2>1, <2>2, <2>5, InheritsEnd DEF CellsFollowTheTree
  <2> QED
    BY <2>3, <2>4, <2>6, <2>7, <2>8 DEF CellsFollowTheTree, Inherits
<1>5. ASSUME NEW n \in CellCounts, AddressCells(n)
      PROVE  CellsFollowTheTree'
  <2>1. InProperty /\ Depth' = Depth /\ Depth \in Nat \ {0} /\ node_index = Depth - 1
        /\ \A k \in 1..Depth :
             /\ open'[k].address = IF k = Depth THEN n ELSE open[k].address
             /\ open'[k].size = open[k].size
    BY <1>0, <1>5, DeclareStep, EmptySeq DEF AddressCells, InProperty, Depth
  <2>2. /\ AddressesDeclared'[Depth] = n
        /\ \A k \in 1..(Depth - 1) : AddressesDeclared'[k] = AddressesDeclared[k]
        /\ SizesDeclared' = SizesDeclared
    BY <2>1 DEF AddressesDeclared, SizesDeclared
  <2>3. Inherits(FillFrom(address_cells, Depth - 1, n), AddressesDeclared')
    BY <1>0, <1>1, <2>1, <2>2, InheritsDeclare DEF CellsFollowTheTree
  <2> QED
    BY <1>5, <2>1, <2>2, <2>3 DEF CellsFollowTheTree, AddressCells, Inherits
<1>6. ASSUME NEW n \in CellCounts, SizeCells(n)
      PROVE  CellsFollowTheTree'
  <2>1. InProperty /\ Depth' = Depth /\ Depth \in Nat \ {0} /\ node_index = Depth - 1
        /\ \A k \in 1..Depth :
             /\ open'[k].size = IF k = Depth THEN n ELSE open[k].size
             /\ open'[k].address = open[k].address
    BY <1>0, <1>6, DeclareStep, EmptySeq DEF SizeCells, InProperty, Depth
  <2>2. /\ SizesDeclared'[Depth] = n
        /\ \A k \in 1..(Depth - 1) : SizesDeclared'[k] = SizesDeclared[k]
        /\ AddressesDeclared' = AddressesDeclared
    BY <2>1 DEF AddressesDeclared, SizesDeclared
  <2>3. Inherits(FillFrom(size_cells, Depth - 1, n), SizesDeclared')
    BY <1>0, <1>1, <2>1, <2>2, InheritsDeclare DEF CellsFollowTheTree
  <2> QED
    BY <1>6, <2>1, <2>2, <2>3 DEF CellsFollowTheTree, SizeCells, Inherits
<1>7. ASSUME NEW words \in RegValues, NEW beyond \in Beyond,
             MemoryReg(words, beyond) \/ DeviceReg(words, beyond)
      PROVE  CellsFollowTheTree'
  <2>1. InReg(words) /\ UNCHANGED cells
    BY <1>7 DEF MemoryReg, DeviceReg, cells
  <2> QED
    BY <1>2, <2>1, InRegStep DEF Depth
<1>8. CASE \/ \E valid \in BOOLEAN : CheckHeader(valid)
           \/ RecordRegion \/ RegionsDone \/ End \/ UNCHANGED vars
  <2>1. UNCHANGED <<open, cells>>
    BY <1>8 DEF CheckHeader, RecordRegion, RegionsDone, End, vars, parser, tree
  <2> QED
    BY <1>2, <2>1 DEF Depth
<1>9. ASSUME NEW words \in RegValues, CpuReg(words)
      PROVE  CellsFollowTheTree'
  <2>1. InReg(words) /\ UNCHANGED cells
    BY <1>9 DEF CpuReg, parser, cells
  <2> QED
    BY <1>2, <2>1, InRegStep DEF Depth
<1> QED
  BY <1>3, <1>4, <1>5, <1>6, <1>7, <1>8, <1>9 DEF Next

-----------------------------------------------------------------------------
(***************************************************************************)
(* For the trees the parser is meant for, the 64-bit numbers the loop      *)
(* reads are the addresses and sizes of the property's regions.            *)
(***************************************************************************)
LEMMA DecodeReadsTheRegions ==
  ASSUME NEW words \in Seq(0..(Word - 1)), NEW beyond \in Seq(0..(Word - 1)),
         NEW z \in {0, 2}
  PROVE  LET d == Decode(words \o beyond, Len(words) \div (2 + z), z)
         IN  {d[k] : k \in DOMAIN d} = RegionsOf(words, [address |-> 2, size |-> z])
<1> DEFINE read == words \o beyond
           n == Len(words) \div (2 + z)
           Of(i) == [address |-> Number(words, i * (2 + z) + 1, 2),
                     size    |-> Number(words, i * (2 + z) + 1 + 2, z)]
           d == Decode(read, n, z)
<1>1. Len(words) \in Nat /\ n \in Nat /\ n * (2 + z) <= Len(words)
  <2>1. CASE z = 0
    BY <2>1
  <2>2. CASE z = 2
    BY <2>2
  <2> QED
    BY <2>1, <2>2
<1>2. \A j \in 1..Len(words) : read[j] = words[j]
  BY ConcatProperties
<1>3. RegionsOf(words, [address |-> 2, size |-> z]) = {Of(i) : i \in 0..(n - 1)}
  BY DEF RegionsOf
<1>4. DOMAIN d = 1..n
  BY DEF Decode
<1>5. ASSUME NEW k \in 1..n
      PROVE  d[k] = Of(k - 1)
  <2>1. CASE z = 0
    <3>1. 2 * k - 1 \in 1..Len(words) /\ 2 * k \in 1..Len(words)
      BY <1>1, <2>1
    <3>2. /\ Swapb64(read, k - 1) = read[2 * (k - 1) + 1] * Word + read[2 * (k - 1) + 2]
          /\ 2 * (k - 1) + 1 = 2 * k - 1 /\ 2 * (k - 1) + 2 = 2 * k
      BY DEF Swapb64
    <3>3. d[k] = [address |-> Swapb64(read, k - 1), size |-> 0]
      BY <2>1 DEF Decode
    <3>4. Of(k - 1) = [address |-> words[2 * k - 1] * Word + words[2 * k], size |-> 0]
      BY <1>1, <2>1 DEF Number
    <3> HIDE DEF d, Of, read
    <3> QED
      BY <1>2, <3>1, <3>2, <3>3, <3>4
  <2>2. CASE z = 2
    <3>1. /\ 4 * k - 3 \in 1..Len(words) /\ 4 * k - 2 \in 1..Len(words)
          /\ 4 * k - 1 \in 1..Len(words) /\ 4 * k \in 1..Len(words)
      BY <1>1, <2>2
    <3>2. /\ Swapb64(read, 2 * k - 2)
               = read[2 * (2 * k - 2) + 1] * Word + read[2 * (2 * k - 2) + 2]
          /\ Swapb64(read, 2 * k - 1)
               = read[2 * (2 * k - 1) + 1] * Word + read[2 * (2 * k - 1) + 2]
          /\ 2 * (2 * k - 2) + 1 = 4 * k - 3 /\ 2 * (2 * k - 2) + 2 = 4 * k - 2
          /\ 2 * (2 * k - 1) + 1 = 4 * k - 1 /\ 2 * (2 * k - 1) + 2 = 4 * k
      BY DEF Swapb64
    <3>3. d[k] = [address |-> Swapb64(read, 2 * k - 2),
                  size    |-> Swapb64(read, 2 * k - 1)]
      BY <2>2 DEF Decode
    <3>4. Of(k - 1) = [address |-> words[4 * k - 3] * Word + words[4 * k - 2],
                       size    |-> words[4 * k - 1] * Word + words[4 * k]]
      <4>1. /\ (k - 1) * (2 + z) + 1 + 2 - 2 = 4 * k - 3
            /\ (k - 1) * (2 + z) + 1 + 2 - 1 = 4 * k - 2
            /\ (k - 1) * (2 + z) + 1 + 2 + 2 - 2 = 4 * k - 1
            /\ (k - 1) * (2 + z) + 1 + 2 + 2 - 1 = 4 * k
        BY <2>2
      <4> QED
        BY <2>2, <4>1 DEF Number
    <3> HIDE DEF d, Of, read
    <3> QED
      BY <1>2, <3>1, <3>2, <3>3, <3>4
  <2> QED
    BY <2>1, <2>2
<1> HIDE DEF d, Of, n
<1>6. \A i \in 0..(n - 1) : i + 1 \in 1..n /\ (i + 1) - 1 = i
  BY <1>1
<1>7. \A k \in 1..n : k - 1 \in 0..(n - 1)
  BY <1>1
<1>8. {d[k] : k \in 1..n} = {Of(i) : i \in 0..(n - 1)}
  <2>1. ASSUME NEW k \in 1..n
        PROVE  d[k] \in {Of(i) : i \in 0..(n - 1)}
    BY <1>5, <1>7
  <2>2. ASSUME NEW i \in 0..(n - 1)
        PROVE  Of(i) \in {d[k] : k \in 1..n}
    <3>1. d[i + 1] = Of(i)
      BY <1>5, <1>6
    <3> QED
      BY <1>6, <3>1
  <2> QED
    BY <2>1, <2>2
<1> QED
  BY <1>3, <1>4, <1>8 DEF d, n

\* In a tree the parser is meant for, it knows the counts of the parent.
LEMMA CellsOfTheParent ==
  ASSUME TypeOK, CellsFollowTheTree, Supported, Depth > 1
  PROVE  /\ Parent.size \in {0, 2}
         /\ address_cells[node_index] = 2 /\ size_cells[node_index] = Parent.size
         /\ TrueCells = [address |-> 2, size |-> Parent.size]
<1>1. /\ Depth \in Nat /\ Depth - 1 \in 1..Depth /\ Depth \in 1..Depth
      /\ node_index = Depth - 1 /\ node_index \in Level
  BY LevelType DEF TypeOK, Depth
<1>2. /\ Parent.address = 2 /\ Parent.size \in {0, 2}
      /\ Top.address \in {None, 2} /\ Top.size \in {None, Parent.size}
      /\ Parent.address # None /\ Parent.size # None
  BY DEF Supported, None
<1>3. /\ DOMAIN AddressesDeclared = 1..Depth /\ DOMAIN SizesDeclared = 1..Depth
      /\ AddressesDeclared[Depth] = Top.address
      /\ AddressesDeclared[Depth - 1] = Parent.address
      /\ SizesDeclared[Depth] = Top.size
      /\ SizesDeclared[Depth - 1] = Parent.size
  BY <1>1 DEF AddressesDeclared, SizesDeclared, Top, Parent
<1>4. ASSUME NEW c, NEW d, Inherits(c, d), DOMAIN d = 1..Depth,
             d[Depth - 1] # None, d[Depth] \in {None, d[Depth - 1]}
      PROVE  c[node_index] = d[Depth - 1]
  <2>1. CASE d[Depth] = None
    <3>1. \A j \in 1..Depth : Depth - 1 < j => d[j] = None
      BY <1>1, <2>1
    <3>2. Depth - 1 - 1 <= node_index
      BY <1>1
    <3> QED
      BY <1>1, <1>4, <3>1, <3>2 DEF Inherits
  <2>2. CASE d[Depth] # None
    <3>1. \A j \in 1..Depth : ~(Depth < j)
      BY <1>1
    <3> QED
      BY <1>1, <1>4, <2>2, <3>1 DEF Inherits
  <2> QED
    BY <2>1, <2>2
<1>5. address_cells[node_index] = 2
  BY <1>2, <1>3, <1>4 DEF CellsFollowTheTree
<1>6. size_cells[node_index] = Parent.size
  BY <1>2, <1>3, <1>4 DEF CellsFollowTheTree
<1> QED
  BY <1>2, <1>5, <1>6 DEF TrueCells
-----------------------------------------------------------------------------
(***************************************************************************)
(* The inductive form of RegionsAreThoseOfTheTree: also the regions still  *)
(* to be recorded are the tree's, and none is left between two tokens.     *)
(***************************************************************************)
RegionsInv ==
  /\ at # "regions" => todo = << >>
  /\ plain =>
       /\ Recorded \cup Pending \subseteq regions \cup {NoRegion}
       /\ regions \subseteq Recorded \cup Pending \cup {NoRegion} \/ FreeSlots = {}

\* Recording a region takes a free slot, and only that slot.
LEMMA RecordStep ==
  ASSUME TypeOK, RecordRegion, FreeSlots # {}
  PROVE  /\ Least(FreeSlots) \in FreeSlots
         /\ \A s \in 1..Slots :
              slots'[s] = IF s = Least(FreeSlots) THEN Head(todo) ELSE slots[s]
         /\ DOMAIN slots = 1..Slots /\ DOMAIN slots' = 1..Slots
         /\ Recorded' = Recorded \cup ({Head(todo)} \ {NoRegion})
         /\ Pending = Pending' \cup {Head(todo)}
<1> DEFINE f == Least(FreeSlots)
<1>1. f \in FreeSlots /\ f \in 1..Slots /\ slots[f] = NoRegion
  BY LeastIsIn DEF FreeSlots
<1>2. slots' = [slots EXCEPT ![f] = Head(todo)] /\ todo' = Tail(todo) /\ todo # << >>
  BY DEF RecordRegion
<1> HIDE DEF f
<1>3. /\ DOMAIN slots = 1..Slots /\ DOMAIN slots' = 1..Slots
      /\ \A s \in 1..Slots : slots'[s] = IF s = f THEN Head(todo) ELSE slots[s]
  BY <1>1, <1>2 DEF TypeOK
<1>4. Recorded' = Recorded \cup ({Head(todo)} \ {NoRegion})
  <2>1. Recorded = {slots[s] : s \in 1..Slots} \ {NoRegion}
        /\ Recorded' = {slots'[s] : s \in 1..Slots} \ {NoRegion}
    BY <1>3 DEF Recorded
  <2>2. ASSUME NEW s \in 1..Slots, slots'[s] # NoRegion
        PROVE  slots'[s] \in Recorded \cup ({Head(todo)} \ {NoRegion})
    BY <1>3, <2>1, <2>2
  <2>3. ASSUME NEW s \in 1..Slots, slots[s] # NoRegion
        PROVE  slots[s] \in Recorded'
    BY <1>1, <1>3, <2>1, <2>3
  <2>4. Head(todo) # NoRegion => Head(todo) \in Recorded'
    BY <1>1, <1>3, <2>1
  <2> QED
    BY <2>1, <2>2, <2>3, <2>4
<1>5. Pending = Pending' \cup {Head(todo)}
  <2>1. todo \in Seq(Region) /\ Len(todo) \in Nat \ {0}
    BY <1>2, EmptySeq DEF TypeOK
  <2>2. /\ Head(todo) = todo[1] /\ Tail(todo) \in Seq(Region)
        /\ Len(Tail(todo)) = Len(todo) - 1
        /\ \A k \in 1..(Len(todo) - 1) : Tail(todo)[k] = todo[k + 1]
    BY <2>1
  <2>3. /\ Pending = {todo[k] : k \in 1..Len(todo)}
        /\ Pending' = {Tail(todo)[k] : k \in 1..(Len(todo) - 1)}
    <3>1. DOMAIN todo = 1..Len(todo) /\ DOMAIN Tail(todo) = 1..(Len(todo) - 1)
      BY <2>1, <2>2
    <3>2. Pending' = {Tail(todo)[k] : k \in DOMAIN Tail(todo)}
      BY <1>2 DEF Pending
    <3> QED
      BY <3>1, <3>2 DEF Pending
  <2>4. ASSUME NEW k \in 1..Len(todo)
        PROVE  todo[k] \in Pending' \cup {Head(todo)}
    <3>1. CASE k = 1
      BY <2>2, <3>1
    <3>2. CASE k # 1
      <4>1. k - 1 \in 1..(Len(todo) - 1) /\ (k - 1) + 1 = k
        BY <2>1, <3>2
      <4>2. Tail(todo)[k - 1] = todo[k]
        BY <2>2, <4>1
      <4> QED
        BY <2>3, <4>1, <4>2
    <3> QED
      BY <3>1, <3>2
  <2>5. ASSUME NEW k \in 1..(Len(todo) - 1)
        PROVE  Tail(todo)[k] \in Pending
    <3>1. k + 1 \in 1..Len(todo)
      BY <2>1
    <3> QED
      BY <2>2, <2>3, <3>1
  <2>6. Head(todo) \in Pending
    <3>1. 1 \in 1..Len(todo)
      BY <2>1
    <3> QED
      BY <2>2, <2>3, <3>1
  <2> QED
    BY <2>3, <2>4, <2>5, <2>6
<1> QED
  BY <1>1, <1>3, <1>4, <1>5 DEF f

\* RegionsInv is inductive, given the types and the counts.
LEMMA NextRegions ==
  ASSUME TypeOK, TypeOK', CellsFollowTheTree, RegionsInv, [Next]_vars
  PROVE  RegionsInv'
\* Every action but DeviceReg and RecordRegion records nothing.
<1>1. ASSUME UNCHANGED <<slots, todo, regions>>, plain' => plain,
             at' # "regions" => todo = << >>
      PROVE  RegionsInv'
  BY <1>1 DEF RegionsInv, Recorded, Pending, FreeSlots
<1>2. ASSUME NEW words \in RegValues, NEW beyond \in Beyond,
             DeviceReg(words, beyond)
      PROVE  RegionsInv'
  <2>1. /\ todo = << >> /\ slots' = slots /\ at' = "regions"
        /\ plain' => plain /\ Supported
        /\ regions' = regions \cup RegionsOf(words, TrueCells)
        /\ Depth > 1
    BY <1>2 DEF DeviceReg, device_information, RegionsInv, InReg, InProperty
  <2>2. Recorded' = Recorded /\ FreeSlots' = FreeSlots /\ Pending = {}
    BY <2>1 DEF Recorded, FreeSlots, Pending
  <2>3. ASSUME plain'
        PROVE  Pending' = RegionsOf(words, TrueCells)
    <3>1. /\ Parent.size \in {0, 2}
          /\ address_cells[node_index] = 2 /\ size_cells[node_index] = Parent.size
          /\ TrueCells = [address |-> 2, size |-> Parent.size]
      BY <2>1, <2>3, CellsOfTheParent
    <3> DEFINE z == Parent.size
    <3>2. Ranges(words, 2, z) = Len(words) \div (2 + z)
      BY <3>1 DEF Ranges
    <3>3. todo' = Decode(words \o beyond, Len(words) \div (2 + z), z)
      BY <1>2, <3>1, <3>2 DEF DeviceReg
    <3>4. words \in Seq(0..(Word - 1)) /\ beyond \in Seq(0..(Word - 1))
      BY WordsType
    <3> HIDE DEF z
    <3>5. z \in {0, 2} /\ TrueCells = [address |-> 2, size |-> z]
      BY <3>1 DEF z
    <3> DEFINE d == Decode(words \o beyond, Len(words) \div (2 + z), z)
    <3>6. {d[k] : k \in DOMAIN d} = RegionsOf(words, [address |-> 2, size |-> z])
      BY <3>4, <3>5, DecodeReadsTheRegions
    <3> HIDE DEF d
    <3>7. todo' = d
      BY <3>3 DEF d
    <3>8. Pending' = {d[k] : k \in DOMAIN d}
      BY <3>7 DEF Pending
    <3> QED
      BY <3>5, <3>6, <3>8
  <2> QED
    BY <2>1, <2>2, <2>3 DEF RegionsInv
<1>3. ASSUME RecordRegion
      PROVE  RegionsInv'
  <2>1. at = "regions" /\ at' = "regions" /\ regions' = regions /\ plain' = plain
    BY <1>3 DEF RecordRegion, tree
  <2>2. CASE FreeSlots = {}
    <3>1. slots' = slots /\ todo' = << >>
      BY <1>3, <2>2 DEF RecordRegion
    <3>2. Recorded' = Recorded /\ FreeSlots' = {} /\ Pending' = {}
      BY <2>2, <3>1 DEF Recorded, FreeSlots, Pending
    <3> QED
      BY <2>1, <3>2 DEF RegionsInv
  <2>3. CASE FreeSlots # {}
    <3>1. /\ Recorded' = Recorded \cup ({Head(todo)} \ {NoRegion})
          /\ Pending = Pending' \cup {Head(todo)}
      BY <1>3, <2>3, RecordStep
    <3>2. NoRegion' = NoRegion
      BY DEF NoRegion
    <3> QED
      BY <2>1, <2>3, <3>1, <3>2 DEF RegionsInv
  <2> QED
    BY <2>2, <2>3
<1>4. CASE \/ \E valid \in BOOLEAN : CheckHeader(valid)
           \/ \E name \in Names \cup {"root"} : BeginNode(name)
           \/ EndNode
           \/ \E n \in CellCounts : AddressCells(n) \/ SizeCells(n)
  <2> DEFINE Quiet == /\ slots' = slots /\ todo' = todo /\ regions' = regions
                      /\ (plain' => plain) /\ at # "regions"
  <2>1. (\E valid \in BOOLEAN : CheckHeader(valid)) => Quiet
    BY DEF CheckHeader, tree
  <2>2. ASSUME NEW name \in Names \cup {"root"}, BeginNode(name)
        PROVE  Quiet
    BY <2>2 DEF BeginNode, device_information
  <2>3. EndNode => Quiet
    BY DEF EndNode, device_information
  <2>4. ASSUME NEW n \in CellCounts, AddressCells(n) \/ SizeCells(n)
        PROVE  Quiet
    BY <2>4 DEF AddressCells, SizeCells, InProperty, device_information
  <2>5. Quiet
    BY <1>4, <2>1, <2>2, <2>3, <2>4
  <2> QED
    BY <1>1, <2>5 DEF RegionsInv
<1>5. CASE \/ \E words \in RegValues : CpuReg(words)
           \/ \E words \in RegValues, beyond \in Beyond : MemoryReg(words, beyond)
  <2>1. UNCHANGED <<slots, todo, regions, plain>> /\ at # "regions"
    BY <1>5 DEF CpuReg, MemoryReg, InReg, InProperty, parser, device_information
  <2> QED
    BY <1>1, <2>1 DEF RegionsInv
<1>6. CASE RegionsDone \/ End
  <2>1. UNCHANGED <<slots, todo, regions, plain>> /\ (at = "token" \/ todo = << >>)
    BY <1>6 DEF RegionsDone, End, device_information, tree
  <2> QED
    BY <1>1, <2>1 DEF RegionsInv
<1>7. CASE UNCHANGED vars
  BY <1>1, <1>7 DEF vars, parser, device_information, tree, RegionsInv
<1> QED
  BY <1>2, <1>3, <1>4, <1>5, <1>6, <1>7 DEF Next

-----------------------------------------------------------------------------
\* The inductive invariant holds initially: no node is open, no slot taken.
LEMMA InitInv == Init => CellsFollowTheTree /\ RegionsInv
<1> SUFFICES ASSUME Init
             PROVE  CellsFollowTheTree /\ RegionsInv
  OBVIOUS
<1>1. Depth = 0 /\ todo = << >> /\ regions = {} /\ \A s \in DOMAIN slots : slots[s] = NoRegion
  BY EmptySeq DEF Init, Depth
<1>2. CellsFollowTheTree
  BY <1>1 DEF CellsFollowTheTree, Inherits, AddressesDeclared, SizesDeclared
<1>3. Recorded = {} /\ Pending = {}
  BY <1>1 DEF Recorded, Pending
<1> QED
  BY <1>1, <1>2, <1>3 DEF RegionsInv

(***************************************************************************)
(* The parser's state keeps its type, for a second root and an END_NODE    *)
(* too many as well: node_index stays in the arrays (-1 included), and is  *)
(* the depth in the tree.                                                  *)
(***************************************************************************)
THEOREM FdtTypeCorrect == Spec => []TypeOK
<1> QED
  BY InitTypeOK, NextTypeOK, PTL DEF Spec

(***************************************************************************)
(* At every level the arrays hold what the innermost open node down to it  *)
(* declares: parse_dt_struct restores the counts at the end of each node.  *)
(***************************************************************************)
THEOREM FdtCellsFollow == Spec => []CellsFollowTheTree
<1> QED
  BY InitTypeOK, InitInv, NextTypeOK, NextCells, PTL DEF Spec

(***************************************************************************)
(* For the trees parse_dt_struct is meant for, mapped_locations holds only *)
(* regions of the tree, and all of them while a slot is free.              *)
(***************************************************************************)
THEOREM FdtRegionsSound == Spec => []RegionsAreThoseOfTheTree
<1>1. RegionsInv => RegionsAreThoseOfTheTree
  BY DEF RegionsInv, RegionsAreThoseOfTheTree, Recorded
<1> QED
  BY <1>1, InitTypeOK, InitInv, NextTypeOK, NextCells, NextRegions, PTL DEF Spec

\* No step changes a slot of mapped_locations that holds a region.
LEMMA NextRecordedStay ==
  ASSUME TypeOK, [Next]_vars
  PROVE  \A s \in 1..Slots : slots[s] # NoRegion => slots'[s] = slots[s]
<1>1. CASE RecordRegion
  <2>1. CASE FreeSlots = {}
    BY <1>1, <2>1 DEF RecordRegion
  <2>2. CASE FreeSlots # {}
    BY <1>1, <2>2, RecordStep DEF FreeSlots
  <2> QED
    BY <2>1, <2>2
<1>2. CASE ~RecordRegion
  <2>1. slots' = slots
    BY <1>2 DEF Next, CheckHeader, BeginNode, EndNode, AddressCells, SizeCells,
                CpuReg, MemoryReg, DeviceReg, RegionsDone, End, vars, parser,
                device_information
  <2> QED
    BY <2>1
<1> QED
  BY <1>1, <1>2

(***************************************************************************)
(* Whatever regions and counts follow, the loop over the ranges of a       *)
(* property writes only to free slots: a recorded region stays until the   *)
(* kernel reads it.                                                        *)
(***************************************************************************)
THEOREM FdtRegionsStay == Spec => RecordedRegionsStay
<1> QED
  BY InitTypeOK, NextTypeOK, NextRecordedStay, PTL DEF Spec, RecordedRegionsStay
==============================================================================
