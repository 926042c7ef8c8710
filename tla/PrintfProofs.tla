----------------------------- MODULE PrintfProofs -----------------------------
(***************************************************************************)
(* Theorems about Printf, for buffers, lengths of integers, formats and    *)
(* outputs of any size.                                                    *)
(*   - Induction and recursion on the natural numbers, from the library's  *)
(*     well-founded orders: the quotients of a number, and what has been   *)
(*     read of a text, are functions defined by recursion.                 *)
(*   - What a conversion makes: digits, at most as many as buf has room.   *)
(*   - The invariant of a call that is output step by step.                *)
(*   - The console that two calls share.                                   *)
(*   - The layout of a number in its text, and what can be read back.      *)
(***************************************************************************)
EXTENDS Printf, FiniteSetTheorems, TLAPS

-----------------------------------------------------------------------------
(***************************************************************************)
(* Induction and recursion on the natural numbers, for sets and functions. *)
(***************************************************************************)

\* Induction: a set that holds 0 and every successor holds every natural number.
LEMMA SetInduction ==
  ASSUME NEW S, 0 \in S, \A n \in Nat : n \in S => n + 1 \in S
  PROVE  Nat \subseteq S
<1> SUFFICES ASSUME NEW last \in Nat, last \notin S PROVE FALSE
  OBVIOUS
<1> DEFINE missing == {k \in 0..last : k \notin S}
           initials == {0..k : k \in missing}
           order == StrictSubsetOrdering(0..last)
<1>1. IsWellFoundedOn(order, FiniteSubsetsOf(0..last))
  BY FS_StrictSubsetOrderingWellFounded
<1>2. initials \subseteq FiniteSubsetsOf(0..last)
  <2> SUFFICES ASSUME NEW k \in 0..last PROVE 0..k \in FiniteSubsetsOf(0..last)
    OBVIOUS
  <2>1. IsFiniteSet(0..k)
    BY FS_Interval
  <2>2. 0..k \subseteq 0..last
    OBVIOUS
  <2> QED
    BY <2>1, <2>2 DEF FiniteSubsetsOf
<1>3. initials # {}
  BY last \in missing
<1> HIDE DEF initials, order
<1>4. PICK x \in initials : \A y \in initials : <<y, x>> \notin order
  BY <1>1, <1>2, <1>3, WFMin
<1>5. PICK k \in missing : x = 0..k
  BY DEF initials
<1>6. k # 0 /\ k \in 1..last
  OBVIOUS
<1>7. k - 1 \in missing
  <2>1. k - 1 \in Nat /\ (k - 1) + 1 = k
    BY <1>6
  <2> QED
    BY <1>6, <2>1
<1>8. 0..(k - 1) \in initials
  BY <1>7 DEF initials
<1>9. <<0..(k - 1), 0..k>> \in order
  <2>1. 0..(k - 1) \subseteq 0..k /\ 0..k \subseteq 0..last
    BY <1>6
  <2>2. k \in 0..k /\ k \notin 0..(k - 1)
    BY <1>6
  <2>3. 0..(k - 1) # 0..k
    BY <2>2
  <2> QED
    BY <2>1, <2>3 DEF order, StrictSubsetOrdering
<1> QED
  BY <1>4, <1>5, <1>8, <1>9

(***************************************************************************)
(* Recursion: a first value and a step define a function on Nat.           *)
(***************************************************************************)
LEMMA Recursion ==
  ASSUME NEW f \in [Nat \X Nat -> Nat], NEW a \in Nat
  PROVE  \E g \in [Nat -> Nat] : g[0] = a /\ \A n \in Nat : g[n + 1] = f[<<n, g[n]>>]
<1> DEFINE Part(n) == {g \in [0..n -> Nat] : g[0] = a /\ \A m \in 0..(n - 1) : g[m + 1] = f[<<m, g[m]>>]}
           whole == {n \in Nat : Part(n) # {}}
<1>1. Nat \subseteq whole
  <2>1. 0 \in whole
    <3>1. [m \in 0..0 |-> a] \in Part(0)
      OBVIOUS
    <3> QED
      BY <3>1
  <2>2. ASSUME NEW n \in Nat, n \in whole PROVE n + 1 \in whole
    <3>1. PICK g \in [0..n -> Nat] : g[0] = a /\ \A m \in 0..(n - 1) : g[m + 1] = f[<<m, g[m]>>]
      BY <2>2
    <3> DEFINE h == [m \in 0..(n + 1) |-> IF m <= n THEN g[m] ELSE f[<<n, g[n]>>]]
    <3>2. /\ h \in [0..(n + 1) -> Nat] /\ h[0] = a /\ h[n + 1] = f[<<n, g[n]>>]
          /\ \A m \in 0..n : h[m] = g[m]
      <4>1. <<n, g[n]>> \in Nat \X Nat
        BY <3>1
      <4> QED
        BY <3>1, <4>1
    <3> HIDE DEF h
    <3>3. \A m \in 0..n : h[m + 1] = f[<<m, h[m]>>]
      <4> TAKE m \in 0..n
      <4>1. CASE m = n
        BY <3>2, <4>1
      <4>2. CASE m # n
        <5>1. m \in 0..(n - 1) /\ m + 1 \in 0..n
          BY <4>2
        <5> QED
          BY <3>1, <3>2, <5>1
      <4> QED
        BY <4>1, <4>2
    <3>4. h \in Part(n + 1)
      <4>1. (n + 1) - 1 = n
        OBVIOUS
      <4> QED
        BY <3>2, <3>3, <4>1
    <3> HIDE DEF Part
    <3>5. Part(n + 1) # {}
      BY <3>4
    <3> QED
      BY <3>5
  <2> HIDE DEF whole
  <2> QED
    BY <2>1, <2>2, SetInduction
<1> DEFINE part == [n \in Nat |-> CHOOSE g \in Part(n) : TRUE]
           agrees == {k \in Nat : \A n \in Nat : k <= n => part[n][k] = part[k][k]}
<1>2. \A n \in Nat : part[n] \in Part(n)
  BY <1>1
<1> HIDE DEF part
<1>3. \A n \in Nat : /\ part[n] \in [0..n -> Nat] /\ part[n][0] = a
                     /\ \A m \in 0..(n - 1) : part[n][m + 1] = f[<<m, part[n][m]>>]
  BY <1>2
<1>4. Nat \subseteq agrees
  <2>1. 0 \in agrees
    BY <1>3
  <2>2. ASSUME NEW k \in Nat, k \in agrees PROVE k + 1 \in agrees
    <3> SUFFICES ASSUME NEW n \in Nat, k + 1 <= n
                 PROVE  part[n][k + 1] = part[k + 1][k + 1]
      OBVIOUS
    <3>1. part[n][k] = part[k][k] /\ part[k + 1][k] = part[k][k]
      BY <2>2
    <3>2. k \in 0..(n - 1) /\ k + 1 \in Nat /\ k \in 0..((k + 1) - 1)
      OBVIOUS
    <3>3. part[n][k + 1] = f[<<k, part[n][k]>>] /\ part[k + 1][k + 1] = f[<<k, part[k + 1][k]>>]
      BY <1>3, <3>2, Zenon
    <3> QED
      BY <3>1, <3>3
  <2> HIDE DEF agrees
  <2> QED
    BY <2>1, <2>2, SetInduction
<1> DEFINE g == [n \in Nat |-> part[n][n]]
<1>5. g \in [Nat -> Nat]
  BY <1>3
<1>6. g[0] = a
  BY <1>3
<1>7. \A n \in Nat : g[n + 1] = f[<<n, g[n]>>]
  <2> TAKE n \in Nat
  <2>1. part[n + 1][n + 1] = f[<<n, part[n + 1][n]>>]
    <3>1. n \in 0..((n + 1) - 1)
      OBVIOUS
    <3> QED
      BY <1>3, <3>1
  <2>2. part[n + 1][n] = part[n][n]
    BY <1>4
  <2> QED
    BY <2>1, <2>2
<1> HIDE DEF g
<1> QED
  BY <1>5, <1>6, <1>7

-----------------------------------------------------------------------------
(***************************************************************************)
(* Conversions.                                                            *)
(***************************************************************************)

\* The sizes are natural numbers, and buf has room for a digit.
LEMMA Sizes == /\ BufferSize \in Nat /\ BufferSize >= 1
               /\ PointerDigits \in Nat /\ SizeMax \in Nat /\ MemorySize \in Nat
  BY PrintfAssumption

Bases == {2, 8, 10, 16}

\* The numbers an item of a number is converted with.
LEMMA Fields ==
  ASSUME NEW d \in Item
  PROVE  /\ Width(d) \in Nat /\ Precision(d) \in Nat
         /\ Base(d) \in Bases
         /\ IsNumber(d) => Argument(d) \in Int /\ Magnitude(d) \in Nat
         /\ NtoaWidth(d) \in Nat
<1>1. d.width \in Int /\ d.precision \in Int /\ d.length \in Length /\ d.arg \in Seq(Int)
  BY DEF Item
<1>2. Width(d) \in Nat /\ Precision(d) \in Nat
  BY <1>1 DEF Width, Precision
<1>3. Base(d) \in Bases
  BY DEF Base, Bases
<1>4. ASSUME IsNumber(d) PROVE Argument(d) \in Int /\ Magnitude(d) \in Nat
  <2>1. Modulus[d.length] \in Nat \ {0}
    BY <1>1, PrintfAssumption
  <2>2. Head(d.arg) \in Int
    BY <1>1, <1>4 DEF Item
  <2>3. Head(d.arg) % Modulus[d.length] \in Nat
    BY <2>1, <2>2
  <2>4. Argument(d) \in Int
    BY <2>1, <2>3 DEF Argument
  <2>5. (0 - Argument(d)) % Modulus[d.length] \in Nat
    BY <2>1, <2>4
  <2> QED
    BY <2>4, <2>5 DEF Magnitude
<1>5. NtoaWidth(d) \in Nat
  BY <1>2, Sizes DEF NtoaWidth
<1> QED
  BY <1>2, <1>3, <1>4, <1>5

(***************************************************************************)
(* Digits.  What value /= base leaves is a quotient of what it left before *)
(* and the digit put in between.                                           *)
(***************************************************************************)

\* Division with remainder by the bases in use.
LEMMA Division ==
  ASSUME NEW v \in Nat, NEW base \in Bases
  PROVE  /\ v \div base \in Nat /\ v % base \in 0..(base - 1)
         /\ v = (v \div base) * base + (v % base)
<1>1. v \div 2 \in Nat /\ v % 2 \in 0..1 /\ v = (v \div 2) * 2 + (v % 2)
  OBVIOUS
<1>2. v \div 8 \in Nat /\ v % 8 \in 0..7 /\ v = (v \div 8) * 8 + (v % 8)
  OBVIOUS
<1>3. v \div 10 \in Nat /\ v % 10 \in 0..9 /\ v = (v \div 10) * 10 + (v % 10)
  OBVIOUS
<1>4. v \div 16 \in Nat /\ v % 16 \in 0..15 /\ v = (v \div 16) * 16 + (v % 16)
  OBVIOUS
<1>5. 2 - 1 = 1 /\ 8 - 1 = 7 /\ 10 - 1 = 9 /\ 16 - 1 = 15
  OBVIOUS
<1> QED
  BY <1>1, <1>2, <1>3, <1>4, <1>5, Zenon DEF Bases

\* The quotients are what their definition says, all natural numbers.
LEMMA QuotientsAre ==
  ASSUME NEW value \in Nat, NEW base \in Bases
  PROVE  /\ Quotients(value, base) \in [Nat -> Nat]
         /\ Quotients(value, base)[0] = value
         /\ \A n \in Nat : Quotients(value, base)[n + 1] = Quotients(value, base)[n] \div base
<1> DEFINE round == [x \in Nat \X Nat |-> x[2] \div base]
           Defines(q) == q = [n \in Nat |-> IF n = 0 THEN value ELSE q[n - 1] \div base]
           q == CHOOSE q : Defines(q)
<1>1. round \in [Nat \X Nat -> Nat]
  BY Division
<1>2. PICK g \in [Nat -> Nat] :
        g[0] = value /\ \A n \in Nat : g[n + 1] = round[<<n, g[n]>>]
  <2> HIDE DEF round
  <2> QED
    BY <1>1, Recursion
<1>3. Defines(g)
  <2> DEFINE h == [n \in Nat |-> IF n = 0 THEN value ELSE g[n - 1] \div base]
  <2>1. ASSUME NEW n \in Nat PROVE g[n] = h[n]
    <3>1. CASE n = 0
      BY <1>2, <3>1
    <3>2. CASE n # 0
      <4>1. n - 1 \in Nat /\ (n - 1) + 1 = n
        BY <3>2
      <4>2. g[(n - 1) + 1] = round[<<n - 1, g[n - 1]>>] /\ g[n - 1] \in Nat
        BY <1>2, <4>1
      <4> QED
        BY <3>2, <4>1, <4>2
    <3> QED
      BY <3>1, <3>2
  <2>2. g = [n \in Nat |-> g[n]]
    BY <1>2
  <2> QED
    BY <2>1, <2>2
<1>4. Defines(q)
  BY <1>3
<1>5. Quotients(value, base) = q
  BY DEF Quotients
<1> HIDE DEF q
<1>6. /\ DOMAIN q = Nat /\ q[0] = value
      /\ \A n \in Nat : q[n + 1] = q[n] \div base
  <2> DEFINE h == [n \in Nat |-> IF n = 0 THEN value ELSE q[n - 1] \div base]
  <2>1. q = h
    BY <1>4
  <2>2. DOMAIN h = Nat /\ h[0] = value /\ \A n \in Nat : h[n + 1] = q[n] \div base
    OBVIOUS
  <2> HIDE DEF h
  <2> QED
    BY <2>1, <2>2
<1>7. Nat \subseteq {n \in Nat : q[n] \in Nat}
  <2>1. \A n \in Nat : q[n] \in Nat => q[n + 1] \in Nat
    BY <1>6, Division
  <2>2. q[0] \in Nat
    BY <1>6
  <2> DEFINE S == {n \in Nat : q[n] \in Nat}
  <2>3. 0 \in S /\ \A n \in Nat : n \in S => n + 1 \in S
    BY <2>1, <2>2
  <2> HIDE DEF S
  <2>4. Nat \subseteq S
    BY <2>3, SetInduction
  <2> QED
    BY <2>4 DEF S
<1>8. q = [n \in Nat |-> q[n]]
  BY <1>4
<1> QED
  BY <1>5, <1>6, <1>7, <1>8

\* A conversion's array: at most as long as buf.
Buf == {b \in Seq(Char) : Len(b) <= BufferSize}

\* What is divided to nothing stays so.
LEMMA NothingIsLeft ==
  ASSUME NEW value \in Nat, NEW base \in Bases, NEW m \in Nat, NEW n \in Nat,
         m <= n, Quotients(value, base)[m] = 0
  PROVE  Quotients(value, base)[n] = 0
<1> DEFINE q == Quotients(value, base)
           S == {k \in Nat : q[m + k] = 0}
<1>1. \A k \in Nat : q[k + 1] = q[k] \div base
  BY QuotientsAre, Zenon
<1>2. q[m] = 0
  OBVIOUS
<1> HIDE DEF q
<1>3. 0 \in S
  BY <1>2
<1>4. ASSUME NEW k \in Nat, k \in S PROVE k + 1 \in S
  <2>1. m + k \in Nat /\ m + (k + 1) = (m + k) + 1 /\ q[m + k] = 0
    BY <1>4
  <2>2. q[(m + k) + 1] = 0 \div base
    BY <1>1, <2>1
  <2>3. 0 \div base = 0
    BY DEF Bases
  <2> QED
    BY <2>1, <2>2, <2>3
<1> HIDE DEF S
<1>5. Nat \subseteq S
  BY <1>3, <1>4, SetInduction
<1>6. n - m \in Nat /\ m + (n - m) = n
  OBVIOUS
<1>7. n - m \in S
  BY <1>5, <1>6
<1> QED
  BY <1>6, <1>7 DEF S, q

(***************************************************************************)
(* The rounds of _ntoa_long: at least one, at most as many as buf has room *)
(* for; something is left before each, and nothing behind the last unless  *)
(* buf is full.                                                            *)
(***************************************************************************)
Rounds(value, base) ==
  1 + Cardinality({n \in 1..(BufferSize - 1) : Quotients(value, base)[n] # 0})

LEMMA RoundsAre ==
  ASSUME NEW value \in Nat, NEW base \in Bases
  PROVE  /\ Rounds(value, base) \in 1..BufferSize
         /\ \A n \in 1..(Rounds(value, base) - 1) : Quotients(value, base)[n] # 0
         /\ Rounds(value, base) < BufferSize => Quotients(value, base)[Rounds(value, base)] = 0
<1> DEFINE q == Quotients(value, base)
           some(m) == {k \in 1..m : q[k] # 0}
           S == {m \in Nat : \E r \in 0..m : some(m) = 1..r /\ (r < m => q[r + 1] = 0)}
<1>1. \A m, n \in Nat : m <= n /\ q[m] = 0 => q[n] = 0
  BY NothingIsLeft
<1> HIDE DEF q
<1>2. 0 \in S
  <2>1. some(0) = 1..0
    OBVIOUS
  <2> QED
    BY <2>1
<1>3. ASSUME NEW m \in Nat, m \in S PROVE m + 1 \in S
  <2>1. PICK r \in 0..m : some(m) = 1..r /\ (r < m => q[r + 1] = 0)
    BY <1>3
  <2>2. CASE q[m + 1] = 0
    <3>1. some(m + 1) = some(m)
      BY <2>2
    <3>2. r \in 0..(m + 1) /\ (r < m + 1 => q[r + 1] = 0)
      <4>1. r = m \/ r < m
        OBVIOUS
      <4> QED
        BY <2>1, <2>2, <4>1
    <3> QED
      BY <2>1, <3>1, <3>2
  <2>3. CASE q[m + 1] # 0
    <3>1. r = m
      <4>1. SUFFICES ASSUME r < m PROVE FALSE
        OBVIOUS
      <4>2. r + 1 \in Nat /\ m + 1 \in Nat /\ r + 1 <= m + 1
        BY <4>1
      <4> QED
        BY <1>1, <2>1, <2>3, <4>1, <4>2
    <3>2. some(m + 1) = some(m) \cup {m + 1}
      BY <2>3
    <3>3. some(m + 1) = 1..(m + 1)
      BY <2>1, <3>1, <3>2
    <3> QED
      BY <3>3
  <2> QED
    BY <2>2, <2>3
<1>4. BufferSize - 1 \in S
  <2> HIDE DEF S
  <2>1. Nat \subseteq S
    BY <1>2, <1>3, SetInduction
  <2> QED
    BY <2>1, Sizes
<1>5. PICK r \in 0..(BufferSize - 1) :
        some(BufferSize - 1) = 1..r /\ (r < BufferSize - 1 => q[r + 1] = 0)
  BY <1>4
<1>6. Cardinality(1..r) = r
  BY FS_Interval, Sizes
<1>7. Rounds(value, base) = 1 + r
  BY <1>5, <1>6 DEF Rounds, q
<1>8. \A n \in 1..r : q[n] # 0
  BY <1>5
<1>9. (1 + r) - 1 = r /\ 1 + r = r + 1 /\ 1 + r \in 1..BufferSize
  BY Sizes
<1> QED
  BY <1>5, <1>7, <1>8, <1>9, Sizes DEF q

\* The digits: a remainder for each round.
LEMMA DigitsAre ==
  ASSUME NEW value \in Nat, NEW base \in Bases
  PROVE  /\ Digits(value, base) \in Seq(0..(base - 1))
         /\ Len(Digits(value, base)) = Rounds(value, base)
         /\ \A k \in 1..Rounds(value, base) :
              Digits(value, base)[k] = Quotients(value, base)[k - 1] % base
<1> DEFINE n == Rounds(value, base)
           q == Quotients(value, base)
<1>1. n \in 1..BufferSize
  BY RoundsAre
<1>2. q \in [Nat -> Nat]
  BY QuotientsAre
<1>3. Digits(value, base) = [k \in 1..n |-> q[k - 1] % base]
  BY DEF Digits, Rounds
<1> HIDE DEF n, q
<1>4. ASSUME NEW k \in 1..n PROVE q[k - 1] % base \in 0..(base - 1)
  <2>1. q[k - 1] \in Nat
    BY <1>1, <1>2
  <2> QED
    BY <2>1, Division
<1>5. n \in Nat
  BY <1>1
<1> DEFINE digits == [k \in 1..n |-> q[k - 1] % base]
<1>6. digits \in [1..n -> 0..(base - 1)]
  BY <1>4
<1>7. \A k \in 1..n : digits[k] = q[k - 1] % base
  OBVIOUS
<1> HIDE DEF digits
<1>8. digits \in Seq(0..(base - 1)) /\ Len(digits) = n
  <2> DEFINE T == 0..(base - 1)
  <2>1. digits \in [1..n -> T]
    BY <1>6
  <2> HIDE DEF T
  <2>2. digits \in Seq(T) /\ Len(digits) = n
    BY <1>5, <2>1
  <2> QED
    BY <2>2 DEF T
<1> QED
  BY <1>3, <1>7, <1>8 DEF digits, n, q

\* The digits of a number fit buf, and there is at least one.
LEMMA DigitsFit ==
  ASSUME NEW value \in Nat, NEW base \in Bases
  PROVE  Digits(value, base) \in Buf
<1>1. Digits(value, base) \in Seq(0..(base - 1))
  BY DigitsAre
<1>2. 0..(base - 1) \subseteq Char
  BY DEF Char, Bases
<1>3. Digits(value, base) \in Seq(Char)
  <2>1. \A S, T : S \subseteq T => \A d \in Seq(S) : d \in Seq(T)
    OBVIOUS
  <2> QED
    BY <1>1, <1>2, <2>1, Zenon
<1>4. Len(Digits(value, base)) <= BufferSize
  <2>1. Len(Digits(value, base)) \in 1..BufferSize
    BY DigitsAre, RoundsAre, Zenon
  <2> QED
    BY <2>1, Sizes
<1> QED
  BY <1>3, <1>4 DEF Buf

\* Fill is a sequence of as many characters as are missing.
LEMMA FillIs ==
  ASSUME NEW c \in Char, NEW m \in Nat, NEW n \in Nat
  PROVE  /\ Fill(c, m, n) \in Seq(Char)
         /\ Len(Fill(c, m, n)) = IF m < n THEN n - m ELSE 0
  BY DEF Fill

\* The characters are symbols.
LEMMA CharsAre ==
  /\ Char \subseteq Char
  /\ {0, Minus, Plus, Space, LetterX, LetterB, Nul} \subseteq Char
  BY DEF Char, Minus, Plus, Space, LetterX, LetterB, Nul

\* Zeros never fill more than buf.
LEMMA ZerosFit ==
  ASSUME NEW buf \in Buf, NEW len \in Nat
  PROVE  Zeros(buf, len) \in Buf
<1> DEFINE to == IF len < BufferSize THEN len ELSE BufferSize
<1>1. to \in Nat /\ to <= BufferSize
  BY Sizes
<1>2. buf \in Seq(Char) /\ Len(buf) \in Nat /\ Len(buf) <= BufferSize
  BY DEF Buf
<1> HIDE DEF to
<1>3. /\ Fill(0, Len(buf), to) \in Seq(Char)
      /\ Len(Fill(0, Len(buf), to)) = IF Len(buf) < to THEN to - Len(buf) ELSE 0
  BY <1>1, <1>2, CharsAre, FillIs
<1>4. buf \o Fill(0, Len(buf), to) \in Buf
  BY <1>1, <1>2, <1>3, Sizes DEF Buf
<1> QED
  BY <1>4 DEF Zeros, to

\* Put never writes behind buf.
LEMMA PutFits ==
  ASSUME NEW buf \in Buf, NEW ch \in Char
  PROVE  Put(buf, ch) \in Buf
  BY Sizes DEF Put, Buf

\* The padding with zeros stays in buf.
LEMMA PadZerosFit ==
  ASSUME NEW d \in Item, NEW buf \in Buf
  PROVE  PadZeros(buf, d) \in Buf
  BY Fields, ZerosFit DEF PadZeros

\* The prefix stays in buf.
LEMMA PutPrefixFits ==
  ASSUME NEW d \in Item, NEW buf \in Buf
  PROVE  PutPrefix(buf, d) \in Buf
<1>1. \A n \in {0, 1, 2} : n <= Len(buf) => SubSeq(buf, 1, Len(buf) - n) \in Buf
  BY Sizes DEF Buf
<1> DEFINE full == /\ ~d.dot /\ buf # << >>
                   /\ Len(buf) \in {Precision(d), NtoaWidth(d)}
           drop == IF ~full THEN 0
                   ELSE IF Base(d) = 16 /\ Len(buf) > 1 THEN 2 ELSE 1
           kept == SubSeq(buf, 1, Len(buf) - drop)
           base == CASE Base(d) = 16 -> Put(kept, LetterX)
                     [] Base(d) = 2  -> Put(kept, LetterB)
                     [] OTHER        -> kept
<1>2. drop \in {0, 1, 2} /\ drop <= Len(buf)
  <2>1. buf \in Seq(Char) /\ Len(buf) \in Nat
    BY DEF Buf
  <2>2. buf # << >> => Len(buf) >= 1
    BY <2>1
  <2> HIDE DEF full
  <2>3. full => buf # << >>
    BY DEF full
  <2> QED
    BY <2>1, <2>2, <2>3
<1>3. kept \in Buf
  BY <1>1, <1>2
<1> HIDE DEF kept
<1>4. base \in Buf
  BY <1>3, PutFits, CharsAre
<1> HIDE DEF base
<1>5. Put(base, 0) \in Buf
  BY <1>4, PutFits, CharsAre
<1> QED
  BY <1>5 DEF PutPrefix, base, kept

\* The sign stays in buf.
LEMMA PutSignFits ==
  ASSUME NEW d \in Item, NEW buf \in Buf
  PROVE  PutSign(buf, d) \in Buf
  BY PutFits, CharsAre DEF PutSign

\* All of a number, its zeros and prefix and sign included, stays in buf.
LEMMA NtoaFits ==
  ASSUME NEW d \in Item, IsNumber(d)
  PROVE  /\ PadZeros(Digits(Magnitude(d), Base(d)), d) \in Buf
         /\ Ntoa(d) \in Buf
<1>1. Digits(Magnitude(d), Base(d)) \in Buf
  BY Fields, DigitsFit
<1>2. << >> \in Buf
  BY Sizes DEF Buf
<1> DEFINE digits == IF d.dot /\ Magnitude(d) = 0 THEN << >>
                     ELSE Digits(Magnitude(d), Base(d))
           padded == PadZeros(digits, d)
           hashed == IF "hash" \in Flags(d) /\ Magnitude(d) # 0 THEN PutPrefix(padded, d)
                     ELSE padded
<1>3. digits \in Buf
  BY <1>1, <1>2
<1> HIDE DEF digits
<1>4. padded \in Buf
  BY <1>3, PadZerosFit
<1> HIDE DEF padded
<1>5. hashed \in Buf
  BY <1>4, PutPrefixFits
<1> HIDE DEF hashed
<1>6. PutSign(hashed, d) \in Buf
  BY <1>5, PutSignFits
<1>7. Ntoa(d) = PutSign(hashed, d)
  BY DEF Ntoa, hashed, padded, digits
<1> QED
  BY <1>1, <1>6, <1>7, PadZerosFit

\* Padding a text to a width leaves a text.
LEMMA PadIsText ==
  ASSUME NEW text \in Seq(Char), NEW width \in Nat, NEW flags
  PROVE  Pad(text, width, flags) \in Seq(Char)
<1>1. Len(text) \in Nat /\ Space \in Char
  BY CharsAre
<1>2. Fill(Space, Len(text), width) \in Seq(Char)
  BY <1>1, FillIs
<1> QED
  BY <1>2 DEF Pad

\* Every item is converted to a text.
LEMMA TextIsText ==
  ASSUME NEW d \in Item
  PROVE  Text(d) \in Seq(Char)
<1>1. CASE IsNumber(d)
  <2>1. Ntoa(d) \in Seq(Char)
    BY <1>1, NtoaFits DEF Buf
  <2>2. Reverse(Ntoa(d)) \in Seq(Char)
    <3> DEFINE n == Ntoa(d)
    <3>1. n \in Seq(Char)
      BY <2>1
    <3> HIDE DEF n
    <3>2. \A k \in 1..Len(n) : n[(Len(n) - k) + 1] \in Char
      BY <3>1
    <3>3. [k \in 1..Len(n) |-> n[(Len(n) - k) + 1]] \in Seq(Char)
      BY <3>1, <3>2
    <3> QED
      BY <3>3 DEF Reverse, n
  <2>3. Pad(Reverse(Ntoa(d)), NtoaWidth(d), Flags(d)) \in Seq(Char)
    BY <2>2, Fields, PadIsText
  <2> QED
    BY <1>1, <2>3 DEF Text, IsNumber, Integer
<1>2. CASE ~IsNumber(d)
  <2>1. d.arg \in Seq(Char)
    <3>1. d.arg \in Seq(Char)
      BY <1>2 DEF Item
    <3> QED
      BY <3>1, CharsAre
  <2>2. Cut(d) \in Seq(Char)
    BY <2>1, Fields DEF Cut
  <2>3. /\ Pad(d.arg, Width(d), ReadFlags(d) \ {"zeropad"}) \in Seq(Char)
        /\ Pad(Cut(d), Width(d), ReadFlags(d) \ {"zeropad"}) \in Seq(Char)
    BY <2>1, <2>2, Fields, PadIsText
  <2> QED
    BY <1>2, <2>1, <2>3 DEF Text, IsNumber
<1> QED
  BY <1>1, <1>2

-----------------------------------------------------------------------------
(***************************************************************************)
(* Calls.  What is still pending is the end of the text, idx is where it   *)
(* begins; a buffer holds the text before idx as far as it fits, and, once *)
(* the call is done, a NUL behind it.                                      *)
(***************************************************************************)
Sink == {c.sink : c \in Calls} \cup {Console}

PendingIsTheEnd(c) ==
  /\ c.idx + Len(c.pending) = Len(c.text)
  /\ \A n \in 1..Len(c.pending) : c.pending[n] = c.text[c.idx + n]
  /\ c.done => c.pending = << >> /\ c.next > Len(c.format)

InsideTheSize(c) ==
  \A a \in 0..(MemorySize - 1) :
    c.memory[a] # Unwritten => c.sink.out = "buffer" /\ a < c.sink.maxlen

HoldsTheText(c) ==
  ~c.done /\ c.sink.out = "buffer" =>
    \A a \in 0..(MemorySize - 1) :
      a < c.idx /\ a < c.sink.maxlen => c.memory[a] = c.text[a + 1]

EndsWithNul(c) ==
  c.done /\ c.sink.out = "buffer" /\ c.sink.maxlen > 0 =>
    \A a \in 0..(MemorySize - 1) :
      LET stored == IF Len(c.text) < c.sink.maxlen THEN Len(c.text) ELSE c.sink.maxlen - 1
      IN  /\ a < stored => c.memory[a] = c.text[a + 1]
          /\ a = stored => c.memory[a] = Nul

GoodCall ==
  {c \in CallType : PendingIsTheEnd(c) /\ InsideTheSize(c) /\ HoldsTheText(c) /\ EndsWithNul(c)}

\* Every sink of a call has its type, the console too.
LEMMA Sinks ==
  /\ Sink \subseteq [out : {"char", "buffer", "null"}, maxlen : 0..SizeMax]
  /\ Console \in Sink /\ \A c \in Calls : c.sink \in Sink /\ c.format \in Formats
  BY PrintfAssumption, Sizes DEF Console, Sink, Formats

\* The fields of a call have their types.
LEMMA CallFields ==
  ASSUME NEW c \in GoodCall
  PROVE  /\ c \in CallType
         /\ c.format \in Formats /\ c.sink.out \in {"char", "buffer", "null"}
         /\ c.sink.maxlen \in Nat /\ c.sink.maxlen <= SizeMax
         /\ c.next \in Nat \ {0} /\ c.pending \in Seq(Char) /\ c.idx \in Nat
         /\ c.memory \in [0..(MemorySize - 1) -> Char \cup {Unwritten}]
         /\ c.done \in BOOLEAN /\ c.text \in Seq(Char)
<1>1. c \in CallType
  BY DEF GoodCall
<1>2. c.sink \in Sink
  BY <1>1 DEF CallType, Sink
<1>3. c.sink \in [out : {"char", "buffer", "null"}, maxlen : 0..SizeMax]
  BY <1>2, Sinks
<1> QED
  BY <1>1, <1>3, Sizes DEF CallType

\* The formats are sequences of items.
LEMMA FormatsAreItems == \A f \in Formats : f \in Seq(Item)
  BY PrintfAssumption

\* A call that begins has output nothing.
LEMMA NewCallIsGood ==
  ASSUME NEW f \in Formats, NEW s \in Sink
  PROVE  NewCall(f, s) \in GoodCall
<1>1. << >> \in Seq(Char) /\ Len(<< >>) = 0
  OBVIOUS
<1>2. NewCall(f, s) \in CallType
  BY <1>1 DEF NewCall, CallType, Sink
<1>3. PendingIsTheEnd(NewCall(f, s))
  BY <1>1 DEF NewCall, PendingIsTheEnd
<1>4. InsideTheSize(NewCall(f, s))
  BY DEF NewCall, InsideTheSize
<1>5. HoldsTheText(NewCall(f, s)) /\ EndsWithNul(NewCall(f, s))
  BY Sizes DEF NewCall, HoldsTheText, EndsWithNul
<1> QED
  BY <1>2, <1>3, <1>4, <1>5 DEF GoodCall

(***************************************************************************)
(* The three steps of a call, as functions of it.                          *)
(***************************************************************************)
Converted(c) ==
  LET t == Text(c.format[c.next])
  IN  [c EXCEPT !.next = @ + 1, !.pending = t, !.text = @ \o t, !.last = t]

Stored(c, ch, idx) ==
  IF c.sink.out = "buffer" THEN Buffer(c.memory, ch, idx, c.sink.maxlen) ELSE c.memory

Emitted(c) ==
  [c EXCEPT !.pending = Tail(@), !.idx = @ + 1, !.memory = Stored(c, Head(c.pending), c.idx)]

End(c) == IF c.idx < c.sink.maxlen THEN c.idx
          ELSE IF c.sink.maxlen = 0 THEN SizeMax ELSE c.sink.maxlen - 1

Terminated(c) == [c EXCEPT !.done = TRUE, !.memory = Stored(c, Nul, End(c))]

\* A conversion appends to the text and to what is pending alike.
LEMMA ConvertedIsGood ==
  ASSUME NEW c \in GoodCall, c.pending = << >>, c.next <= Len(c.format)
  PROVE  Converted(c) \in GoodCall
<1> DEFINE t == Text(c.format[c.next])
<1>1. t \in Seq(Char)
  <2>1. c.format \in Seq(Item)
    BY CallFields, FormatsAreItems
  <2>2. c.format[c.next] \in Item
    BY <2>1, CallFields
  <2> QED
    BY <2>2, TextIsText
<1> HIDE DEF t
<1> DEFINE d == [c EXCEPT !.next = @ + 1, !.pending = t, !.text = @ \o t, !.last = t]
<1>2. c.text \in Seq(Char) /\ c.idx \in Nat /\ c.idx = Len(c.text)
  BY CallFields DEF GoodCall, PendingIsTheEnd
<1>3. d \in CallType
  <2>1. c.text \o t \in Seq(Char) /\ c.next + 1 \in Nat \ {0}
    BY <1>1, <1>2, CallFields
  <2>2. c \in CallType
    BY CallFields
  <2> QED
    BY <1>1, <2>1, <2>2 DEF CallType
<1>4. /\ d.pending = t /\ d.text = c.text \o t /\ d.idx = c.idx /\ d.done = c.done
      /\ d.sink = c.sink /\ d.memory = c.memory
  BY CallFields DEF CallType
<1> HIDE DEF d
<1>5. /\ Len(c.text \o t) = Len(c.text) + Len(t)
      /\ \A n \in 1..Len(t) : (c.text \o t)[Len(c.text) + n] = t[n]
      /\ \A n \in 1..Len(c.text) : (c.text \o t)[n] = c.text[n]
  BY <1>1, <1>2
<1>6. CASE ~c.done
  <2>1. PendingIsTheEnd(d)
    BY <1>2, <1>4, <1>5, <1>6 DEF PendingIsTheEnd
  <2>2. InsideTheSize(d)
    BY <1>4 DEF InsideTheSize, GoodCall
  <2>3. HoldsTheText(d)
    <3> SUFFICES ASSUME c.sink.out = "buffer", NEW a \in 0..(MemorySize - 1),
                        a < c.idx, a < c.sink.maxlen
                 PROVE  c.memory[a] = (c.text \o t)[a + 1]
      BY <1>4 DEF HoldsTheText
    <3>1. c.memory[a] = c.text[a + 1]
      BY <1>6 DEF GoodCall, HoldsTheText
    <3>2. a + 1 \in 1..Len(c.text)
      BY <1>2
    <3> QED
      BY <1>5, <3>1, <3>2
  <2>4. EndsWithNul(d)
    BY <1>4, <1>6 DEF EndsWithNul
  <2> QED
    BY <1>3, <2>1, <2>2, <2>3, <2>4 DEF GoodCall, Converted, d, t
<1>7. ~c.done
  <2>1. c.format \in Seq(Item)
    BY CallFields, FormatsAreItems
  <2>2. Len(c.format) \in Nat /\ c.next \in Nat
    BY <2>1, CallFields
  <2> QED
    BY <2>2 DEF GoodCall, PendingIsTheEnd
<1> QED
  BY <1>6, <1>7

\* Storing one more character writes inside the size only.
LEMMA StoredIs ==
  ASSUME NEW c \in GoodCall, NEW ch \in Char, NEW idx \in Nat
  PROVE  /\ Stored(c, ch, idx) \in [0..(MemorySize - 1) -> Char \cup {Unwritten}]
         /\ \A a \in 0..(MemorySize - 1) :
              Stored(c, ch, idx)[a] =
                IF c.sink.out = "buffer" /\ idx < c.sink.maxlen /\ a = idx THEN ch
                ELSE c.memory[a]
<1>1. c.memory \in [0..(MemorySize - 1) -> Char \cup {Unwritten}]
  BY CallFields
<1> QED
  BY <1>1 DEF Stored, Buffer

\* A character output moves from what is pending to the place idx.
LEMMA EmittedIsGood ==
  ASSUME NEW c \in GoodCall, c.pending # << >>
  PROVE  Emitted(c) \in GoodCall
<1> DEFINE ch == Head(c.pending)
           m == Stored(c, ch, c.idx)
           d == [c EXCEPT !.pending = Tail(@), !.idx = @ + 1, !.memory = m]
<1>1. /\ c.pending \in Seq(Char) /\ c.text \in Seq(Char) /\ c.idx \in Nat
      /\ c.sink.maxlen \in Nat /\ c \in CallType
  BY CallFields
<1>2. /\ ch \in Char /\ Tail(c.pending) \in Seq(Char)
      /\ Len(c.pending) >= 1 /\ Len(Tail(c.pending)) = Len(c.pending) - 1
      /\ ch = c.pending[1]
      /\ \A n \in 1..Len(Tail(c.pending)) : Tail(c.pending)[n] = c.pending[n + 1]
  BY <1>1
<1> HIDE DEF ch
<1>3. /\ m \in [0..(MemorySize - 1) -> Char \cup {Unwritten}]
      /\ \A a \in 0..(MemorySize - 1) :
           m[a] = IF c.sink.out = "buffer" /\ c.idx < c.sink.maxlen /\ a = c.idx THEN ch
                  ELSE c.memory[a]
  BY <1>1, <1>2, StoredIs
<1> HIDE DEF m
<1>4. d \in CallType
  <2>1. c.idx + 1 \in Nat
    BY <1>1
  <2> QED
    BY <1>1, <1>2, <1>3, <2>1 DEF CallType
<1>5. /\ d.pending = Tail(c.pending) /\ d.idx = c.idx + 1 /\ d.memory = m
      /\ d.text = c.text /\ d.done = c.done /\ d.sink = c.sink
  BY <1>1 DEF CallType
<1> HIDE DEF d
<1>6. /\ c.idx + Len(c.pending) = Len(c.text) /\ ~c.done
      /\ \A n \in 1..Len(c.pending) : c.pending[n] = c.text[c.idx + n]
  BY DEF GoodCall, PendingIsTheEnd
<1>7. PendingIsTheEnd(d)
  <2>1. d.idx + Len(d.pending) = Len(d.text)
    BY <1>1, <1>2, <1>5, <1>6
  <2>2. ASSUME NEW n \in 1..Len(d.pending) PROVE d.pending[n] = d.text[d.idx + n]
    <3>1. n + 1 \in 1..Len(c.pending) /\ c.idx + (n + 1) = d.idx + n
      <4>1. n \in 1..(Len(c.pending) - 1) /\ Len(c.pending) \in Nat
        BY <1>1, <1>2, <1>5
      <4>2. d.idx = c.idx + 1 /\ c.idx \in Nat
        BY <1>1, <1>5
      <4>3. n + 1 \in 1..Len(c.pending)
        BY <4>1
      <4> QED
        BY <4>1, <4>2, <4>3
    <3>2. d.pending[n] = c.pending[n + 1]
      BY <1>2, <1>5
    <3>3. c.pending[n + 1] = c.text[c.idx + (n + 1)]
      BY <1>6, <3>1
    <3> QED
      BY <1>5, <3>1, <3>2, <3>3
  <2> QED
    BY <1>5, <1>6, <2>1, <2>2 DEF PendingIsTheEnd
<1>8. InsideTheSize(d)
  <2> SUFFICES ASSUME NEW a \in 0..(MemorySize - 1), m[a] # Unwritten
               PROVE  c.sink.out = "buffer" /\ a < c.sink.maxlen
    BY <1>5 DEF InsideTheSize
  <2> QED
    BY <1>3 DEF GoodCall, InsideTheSize
<1>9. HoldsTheText(d)
  <2> SUFFICES ASSUME c.sink.out = "buffer", NEW a \in 0..(MemorySize - 1),
                      a < c.idx + 1, a < c.sink.maxlen
               PROVE  m[a] = c.text[a + 1]
    BY <1>5 DEF HoldsTheText
  <2>1. CASE a = c.idx
    <3>1. m[a] = ch
      BY <1>3, <2>1
    <3>2. 1 \in 1..Len(c.pending)
      BY <1>1, <1>2
    <3>3. c.pending[1] = c.text[c.idx + 1]
      BY <1>6, <3>2
    <3> QED
      BY <1>2, <2>1, <3>1, <3>3
  <2>2. CASE a # c.idx
    <3>1. a < c.idx
      BY <1>1, <2>2
    <3>2. m[a] = c.memory[a]
      BY <1>3, <2>2
    <3>3. c.memory[a] = c.text[a + 1]
      BY <1>6, <3>1 DEF GoodCall, HoldsTheText
    <3> QED
      BY <3>2, <3>3
  <2> QED
    BY <2>1, <2>2
<1>10. EndsWithNul(d)
  BY <1>5, <1>6 DEF EndsWithNul
<1> QED
  BY <1>4, <1>7, <1>8, <1>9, <1>10 DEF GoodCall, Emitted, d, m, ch

\* The NUL goes where EndsWithNul wants it.
LEMMA TerminatedIsGood ==
  ASSUME NEW c \in GoodCall, c.pending = << >>, c.next > Len(c.format), ~c.done
  PROVE  Terminated(c) \in GoodCall
<1> DEFINE end == End(c)
           m == Stored(c, Nul, end)
           d == [c EXCEPT !.done = TRUE, !.memory = m]
           size == c.sink.maxlen
           stored == IF Len(c.text) < size THEN Len(c.text) ELSE size - 1
<1>1. /\ c.text \in Seq(Char) /\ c.idx \in Nat /\ c.idx = Len(c.text)
      /\ size \in Nat /\ c \in CallType
  BY CallFields DEF GoodCall, PendingIsTheEnd
<1>2. end \in Nat /\ (size > 0 => end = stored /\ end < size)
  BY <1>1, Sizes DEF End
<1> HIDE DEF end
<1>3. /\ m \in [0..(MemorySize - 1) -> Char \cup {Unwritten}]
      /\ \A a \in 0..(MemorySize - 1) :
           m[a] = IF c.sink.out = "buffer" /\ end < size /\ a = end THEN Nul
                  ELSE c.memory[a]
  BY <1>2, CharsAre, StoredIs
<1> HIDE DEF m
<1>4. d \in CallType
  BY <1>1, <1>3 DEF CallType
<1>5. /\ d.pending = c.pending /\ d.idx = c.idx /\ d.memory = m /\ d.next = c.next
      /\ d.text = c.text /\ d.done = TRUE /\ d.sink = c.sink /\ d.format = c.format
  BY <1>1 DEF CallType
<1> HIDE DEF d
<1>6. PendingIsTheEnd(d)
  BY <1>5 DEF GoodCall, PendingIsTheEnd
<1>7. InsideTheSize(d)
  <2> SUFFICES ASSUME NEW a \in 0..(MemorySize - 1), m[a] # Unwritten
               PROVE  c.sink.out = "buffer" /\ a < size
    BY <1>5 DEF InsideTheSize
  <2> QED
    BY <1>3 DEF GoodCall, InsideTheSize
<1>8. HoldsTheText(d)
  BY <1>5 DEF HoldsTheText
<1>9. EndsWithNul(d)
  <2> SUFFICES ASSUME c.sink.out = "buffer", size > 0, NEW a \in 0..(MemorySize - 1)
               PROVE  /\ a < stored => m[a] = c.text[a + 1]
                      /\ a = stored => m[a] = Nul
    BY <1>5 DEF EndsWithNul
  <2>1. ASSUME a < stored PROVE m[a] = c.text[a + 1]
    <3>1. a < c.idx /\ a < size /\ a # end
      BY <1>1, <1>2, <2>1
    <3>2. m[a] = c.memory[a]
      BY <1>3, <3>1
    <3>3. c.memory[a] = c.text[a + 1]
      BY <3>1 DEF GoodCall, HoldsTheText
    <3> QED
      BY <3>2, <3>3
  <2>2. ASSUME a = stored PROVE m[a] = Nul
    BY <1>2, <1>3, <2>2
  <2> QED
    BY <2>1, <2>2
<1> QED
  BY <1>4, <1>6, <1>7, <1>8, <1>9 DEF GoodCall, Terminated, d, m, end

-----------------------------------------------------------------------------
(***************************************************************************)
(* The inductive invariant: all calls in progress are good ones.           *)
(***************************************************************************)
CallsInv == calls \in Seq(GoodCall)

\* A step of the running call keeps the others.
LEMMA RunningIsGood ==
  ASSUME CallsInv, calls # << >>, NEW c \in GoodCall, Running(c)
  PROVE  CallsInv'
<1>1. calls \in Seq(GoodCall) /\ Len(calls) \in Nat
  BY DEF CallsInv
<1>2. [calls EXCEPT ![Len(calls)] = c] \in Seq(GoodCall)
  BY <1>1
<1> QED
  BY <1>2 DEF Running, CallsInv

\* The running call is a good one.
LEMMA TopIsGood == CallsInv /\ calls # << >> => top \in GoodCall
  BY DEF CallsInv, top

\* Every step keeps the invariant.
LEMMA NextCalls == CallsInv /\ [Next]_vars => CallsInv'
<1> SUFFICES ASSUME CallsInv, [Next]_vars PROVE CallsInv'
  OBVIOUS
<1>1. ASSUME NEW call \in Calls, Call(call) PROVE CallsInv'
  <2>1. NewCall(call.format, call.sink) \in GoodCall
    BY Sinks, NewCallIsGood
  <2> QED
    BY <1>1, <2>1 DEF Call, CallsInv
<1>2. CASE Convert
  <2>1. Converted(top) \in GoodCall
    BY <1>2, TopIsGood, ConvertedIsGood DEF Convert
  <2>2. calls # << >> /\ Running(Converted(top))
    BY <1>2 DEF Convert, Converted
  <2> QED
    BY <2>1, <2>2, RunningIsGood
<1>3. CASE Emit
  <2>1. Emitted(top) \in GoodCall
    BY <1>3, TopIsGood, EmittedIsGood DEF Emit
  <2>2. calls # << >> /\ Running(Emitted(top))
    BY <1>3 DEF Emit, Emitted, Stored, Memory
  <2> QED
    BY <2>1, <2>2, RunningIsGood
<1>4. CASE Terminate
  <2>1. Terminated(top) \in GoodCall
    BY <1>4, TopIsGood, TerminatedIsGood DEF Terminate
  <2>2. calls # << >> /\ Running(Terminated(top))
    BY <1>4 DEF Terminate, Terminated, Stored, Memory, End
  <2> QED
    BY <2>1, <2>2, RunningIsGood
<1>5. CASE Return
  BY <1>5 DEF Return, Front, CallsInv
<1>6. CASE Interrupt
  <2>1. NewCall(HandlerFormat, Console) \in GoodCall
    BY Sinks, NewCallIsGood DEF Formats
  <2> QED
    BY <1>6, <2>1 DEF Interrupt, CallsInv
<1>7. CASE UNCHANGED vars
  BY <1>7 DEF vars, CallsInv
<1> QED
  BY <1>1, <1>2, <1>3, <1>4, <1>5, <1>6, <1>7 DEF Next

\* The invariant holds in every state.
LEMMA AlwaysCalls == Spec => []CallsInv
<1>1. Init => CallsInv
  BY DEF Init, CallsInv
<1> QED
  BY <1>1, NextCalls, PTL DEF Spec

(***************************************************************************)
(* Every call returns the length of its text, whatever its output is and   *)
(* whatever a handler prints in between.                                   *)
(***************************************************************************)
THEOREM LengthIsReturned == Spec => []ReturnsTheLength
<1>1. CallsInv => ReturnsTheLength
  <2> SUFFICES ASSUME CallsInv, NEW k \in DOMAIN calls, calls[k].done
               PROVE  calls[k].idx = Len(calls[k].text)
    BY DEF ReturnsTheLength
  <2>1. calls[k] \in GoodCall
    BY DEF CallsInv
  <2> QED
    BY <2>1, CallFields DEF GoodCall, PendingIsTheEnd
<1> QED
  BY <1>1, AlwaysCalls, PTL

(***************************************************************************)
(* No output writes past the size it was given, and a buffer of any size   *)
(* but 0 ends up with what fits of the text and a NUL.                     *)
(***************************************************************************)
THEOREM SizeIsRespected == Spec => []BufferIsRespected
<1>1. CallsInv => BufferIsRespected
  <2> SUFFICES ASSUME CallsInv PROVE BufferIsRespected
    OBVIOUS
  <2>1. ASSUME NEW c \in GoodCall
        PROVE  /\ DOMAIN c.memory = 0..(MemorySize - 1)
               /\ InsideTheSize(c) /\ EndsWithNul(c)
    BY CallFields DEF GoodCall
  <2>2. \A k \in DOMAIN calls : calls[k] \in GoodCall
    BY DEF CallsInv
  <2> QED
    BY <2>1, <2>2 DEF BufferIsRespected, InsideTheSize, EndsWithNul
<1> QED
  BY <1>1, AlwaysCalls, PTL

(***************************************************************************)
(* No conversion of any call leaves buf, whatever its flags, its width and *)
(* its precision are.                                                      *)
(***************************************************************************)
THEOREM BufAlwaysSuffices == Spec => []BufSuffices
<1>1. CallsInv => BufSuffices
  <2> SUFFICES ASSUME CallsInv, NEW k \in DOMAIN calls, NEW n \in DOMAIN calls[k].format,
                      IsNumber(calls[k].format[n])
               PROVE  LET d == calls[k].format[n]
                      IN  /\ Len(PadZeros(Digits(Magnitude(d), Base(d)), d)) <= BufferSize
                          /\ Len(Ntoa(d)) <= BufferSize
    BY DEF BufSuffices
  <2>1. calls[k] \in GoodCall
    BY DEF CallsInv
  <2>2. calls[k].format \in Seq(Item)
    BY <2>1, CallFields, FormatsAreItems
  <2>3. calls[k].format[n] \in Item
    BY <2>2
  <2> QED
    BY <2>3, NtoaFits DEF Buf
<1> QED
  BY <1>1, AlwaysCalls, PTL

-----------------------------------------------------------------------------
(***************************************************************************)
(* The console.  The places a call has printed, and those of the kernel on *)
(* the console, are counted by their ranks.                                *)
(***************************************************************************)

\* A rank counts some of the set.
LEMMA RankBounds ==
  ASSUME NEW n \in Nat, NEW S \in SUBSET (1..n)
  PROVE  /\ IsFiniteSet(S) /\ Cardinality(S) \in Nat
         /\ \A k \in S : Rank(S, k) \in Nat /\ 1 <= Rank(S, k) /\ Rank(S, k) <= Cardinality(S)
<1>1. IsFiniteSet(1..n)
  BY FS_Interval
<1>2. IsFiniteSet(S) /\ Cardinality(S) \in Nat
  BY <1>1, FS_Subset, FS_CardinalityType
<1>3. ASSUME NEW k \in S
      PROVE  Rank(S, k) \in Nat /\ 1 <= Rank(S, k) /\ Rank(S, k) <= Cardinality(S)
  <2> DEFINE R == {m \in S : m <= k}
  <2>1. R \in SUBSET S /\ k \in R
    OBVIOUS
  <2> HIDE DEF R
  <2>2. IsFiniteSet(R) /\ Cardinality(R) \in Nat /\ Cardinality(R) <= Cardinality(S)
    BY <1>2, <2>1, FS_Subset, FS_CardinalityType
  <2>3. Cardinality(R) # 0
    BY <2>1, <2>2, FS_EmptySet
  <2> QED
    BY <2>2, <2>3 DEF Rank, R
<1> QED
  BY <1>2, <1>3

\* The next place has the next rank, and the others keep theirs.
LEMMA RankOfNext ==
  ASSUME NEW n \in Nat, NEW S \in SUBSET (1..n)
  PROVE  LET T == S \cup {n + 1}
         IN  /\ T \in SUBSET (1..(n + 1)) /\ Cardinality(T) = Cardinality(S) + 1
             /\ Rank(T, n + 1) = Cardinality(S) + 1
             /\ \A k \in S : Rank(T, k) = Rank(S, k)
<1> DEFINE T == S \cup {n + 1}
<1>1. T \in SUBSET (1..(n + 1)) /\ n + 1 \notin S /\ S \subseteq T
  OBVIOUS
<1>2. Cardinality(T) = Cardinality(S) + 1
  BY <1>1, RankBounds, FS_AddElement
<1>3. {m \in T : m <= n + 1} = T
  <2>1. \A m \in T : m <= n + 1
    BY <1>1
  <2> HIDE DEF T
  <2> QED
    BY <2>1
<1>4. \A k \in S : {m \in T : m <= k} = {m \in S : m <= k}
  BY <1>1
<1> QED
  BY <1>1, <1>2, <1>3, <1>4 DEF Rank

\* The fields a call has printed by, and what it prints next.
SamePrinted(c, d) == Printed(d) = Printed(c) /\ \A j \in Printed(c) : d.text[j] = c.text[j]

LEMMA PrintedPlaces ==
  ASSUME NEW c \in GoodCall
  PROVE  /\ c.idx \in Nat /\ Len(c.text) \in Nat /\ c.idx <= Len(c.text)
         /\ Printed(c) \in SUBSET (1..c.idx)
<1>1. c.pending \in Seq(Char) /\ c.text \in Seq(Char) /\ c.idx \in Nat
  BY CallFields
<1>2. c.idx + Len(c.pending) = Len(c.text)
  BY DEF GoodCall, PendingIsTheEnd
<1>3. Len(c.pending) \in Nat /\ Len(c.text) \in Nat
  BY <1>1
<1>4. c.idx <= Len(c.text)
  BY <1>1, <1>2, <1>3
<1> QED
  BY <1>1, <1>3, <1>4 DEF Printed

LEMMA ConvertedPrints ==
  ASSUME NEW c \in GoodCall, c.next \in 1..Len(c.format)
  PROVE  SamePrinted(c, Converted(c))
<1> DEFINE t == Text(c.format[c.next])
           d == Converted(c)
<1>1. c.format \in Seq(Item) /\ c.text \in Seq(Char) /\ c \in CallType
  BY CallFields, FormatsAreItems
<1>2. c.format[c.next] \in Item
  BY <1>1
<1>3. t \in Seq(Char)
  BY <1>2, TextIsText
<1>4. d.text = c.text \o t /\ d.idx = c.idx /\ d.sink = c.sink
  BY <1>1 DEF Converted, CallType
<1> HIDE DEF t, d
<1>5. \A j \in 1..c.idx : d.text[j] = c.text[j]
  <2>1. c.idx \in Nat /\ Len(c.text) \in Nat /\ c.idx <= Len(c.text)
    BY PrintedPlaces
  <2>2. \A j \in 1..Len(c.text) : (c.text \o t)[j] = c.text[j]
    BY <1>1, <1>3
  <2> QED
    BY <2>1, <2>2, <1>4
<1>6. Printed(d) = Printed(c)
  BY <1>4, <1>5 DEF Printed
<1>7. Printed(c) \subseteq 1..c.idx
  BY PrintedPlaces
<1> QED
  BY <1>5, <1>6, <1>7 DEF SamePrinted, d

LEMMA TerminatedPrints ==
  ASSUME NEW c \in GoodCall
  PROVE  SamePrinted(c, Terminated(c))
<1>1. c \in CallType
  BY CallFields
<1>2. /\ Terminated(c).text = c.text /\ Terminated(c).idx = c.idx
      /\ Terminated(c).sink = c.sink
  BY <1>1 DEF Terminated, CallType
<1> QED
  BY <1>2 DEF SamePrinted, Printed

\* What a call sends to the console, it has printed.
Sends(c) == c.sink.out = "char" /\ Head(c.pending) # Nul

LEMMA EmittedPrints ==
  ASSUME NEW c \in GoodCall, c.pending # << >>
  PROVE  /\ Head(c.pending) \in Char /\ Head(c.pending) = c.text[c.idx + 1]
         /\ Emitted(c).text = c.text
         /\ ~Sends(c) => SamePrinted(c, Emitted(c))
         /\ Sends(c) => Printed(Emitted(c)) = Printed(c) \cup {c.idx + 1}
<1> DEFINE d == Emitted(c)
<1>1. c \in CallType /\ c.pending \in Seq(Char) /\ c.idx \in Nat
  BY CallFields
<1>2. Head(c.pending) \in Char /\ Head(c.pending) = c.pending[1] /\ 1 \in 1..Len(c.pending)
  BY <1>1
<1>3. Head(c.pending) = c.text[c.idx + 1]
  BY <1>2 DEF GoodCall, PendingIsTheEnd
<1>4. d.text = c.text /\ d.idx = c.idx + 1 /\ d.sink = c.sink
  BY <1>1 DEF Emitted, CallType
<1> HIDE DEF d
<1>5. 1..d.idx = (1..c.idx) \cup {c.idx + 1}
  BY <1>1, <1>4
<1>6. ~Sends(c) => Printed(d) = Printed(c)
  BY <1>3, <1>4, <1>5 DEF Sends, Printed
<1>7. Sends(c) => Printed(d) = Printed(c) \cup {c.idx + 1}
  BY <1>3, <1>4, <1>5 DEF Sends, Printed
<1> QED
  BY <1>2, <1>3, <1>4, <1>6, <1>7 DEF SamePrinted, d

(***************************************************************************)
(* The inductive invariant: what the property says, and that a handler's   *)
(* characters are all on the console.                                      *)
(***************************************************************************)
OutputInv ==
  /\ CallsInv /\ Len(calls) <= 2 /\ uart \in Seq((1..2) \X Char)
  /\ OutputIsNotMixed
  /\ Len(calls) = 2 => Cardinality(Printed(top)) <= Len(uart)

\* What OutputInv gives of the calls in progress.
LEMMA CallsInProgress ==
  ASSUME OutputInv, calls # << >>
  PROVE  /\ calls \in Seq(GoodCall) /\ Len(calls) \in {1, 2} /\ DOMAIN calls = 1..Len(calls)
         /\ calls[1] \in GoodCall /\ top \in GoodCall
         /\ Len(uart) \in Nat /\ OfKernel \in SUBSET (1..Len(uart))
<1>1. calls \in Seq(GoodCall) /\ Len(calls) <= 2 /\ uart \in Seq((1..2) \X Char)
  BY DEF OutputInv, CallsInv
<1>2. Len(calls) \in Nat /\ Len(calls) # 0
  BY <1>1
<1>3. Len(calls) \in {1, 2}
  <2>1. \A n \in Nat : n # 0 /\ n <= 2 => n \in {1, 2}
    OBVIOUS
  <2> QED
    BY <1>1, <1>2, <2>1
<1>4. calls[1] \in GoodCall /\ calls[Len(calls)] \in GoodCall
  BY <1>1, <1>3
<1> QED
  BY <1>1, <1>3, <1>4 DEF top, OfKernel

\* A step that sends nothing to the console and lets every call's prints be.
LEMMA QuietStep ==
  ASSUME OutputInv, calls # << >>, uart' = uart, CallsInv', NEW d, Running(d),
         SamePrinted(top, d)
  PROVE  OutputInv'
<1>1. /\ calls \in Seq(GoodCall) /\ Len(calls) \in {1, 2} /\ DOMAIN calls = 1..Len(calls)
      /\ calls' = [calls EXCEPT ![Len(calls)] = d]
  BY CallsInProgress DEF Running
<1>2. Len(calls') = Len(calls) /\ top' = d
  BY <1>1 DEF top
<1>3. SamePrinted(calls[1], calls'[1])
  <2>1. CASE Len(calls) = 1
    BY <1>1, <2>1 DEF top
  <2>2. CASE Len(calls) = 2
    BY <1>1, <2>2 DEF SamePrinted
  <2> QED
    BY <1>1, <2>1, <2>2
<1>4. OfKernel' = OfKernel
  BY DEF OfKernel
<1>5. OutputIsNotMixed'
  BY <1>1, <1>2, <1>3, <1>4 DEF OutputInv, OutputIsNotMixed, SamePrinted
<1> QED
  BY <1>2, <1>5 DEF OutputInv, SamePrinted

\* The kernel's call sends a character.
LEMMA KernelSends ==
  ASSUME OutputInv, Len(calls) = 1, top.pending # << >>, Sends(top), Running(Emitted(top)),
         uart' = Append(uart, <<1, Head(top.pending)>>), CallsInv'
  PROVE  OutputInv'
<1> DEFINE n == Len(uart)
           ch == Head(top.pending)
           P == Printed(top)
           K == OfKernel
           i == top.idx + 1
<1>1. /\ calls \in Seq(GoodCall) /\ calls # << >> /\ top = calls[1] /\ top \in GoodCall
      /\ n \in Nat /\ K \in SUBSET (1..n)
  BY CallsInProgress, SMTT(30) DEF top
<1>2. calls' = <<Emitted(top)>> /\ Len(calls') = 1 /\ calls'[1] = Emitted(top)
  <2>1. \A e \in GoodCall : \A c \in Seq(GoodCall) : Len(c) = 1 => [c EXCEPT ![1] = e] = <<e>>
    OBVIOUS
  <2>2. Emitted(top) \in GoodCall
    BY <1>1, EmittedIsGood
  <2> QED
    BY <1>1, <2>1, <2>2 DEF Running
<1>3. /\ ch \in Char /\ ch = top.text[i] /\ Emitted(top).text = top.text
      /\ Printed(Emitted(top)) = P \cup {i}
  BY <1>1, EmittedPrints
<1>4. top.idx \in Nat /\ P \in SUBSET (1..top.idx)
  BY <1>1, PrintedPlaces
<1>5. uart \in Seq((1..2) \X Char)
  BY DEF OutputInv
<1>6. /\ uart' \in Seq((1..2) \X Char) /\ DOMAIN uart = 1..n /\ DOMAIN uart' = 1..(n + 1)
      /\ uart'[n + 1] = <<1, ch>> /\ \A k \in 1..n : uart'[k] = uart[k]
  BY <1>1, <1>3, <1>5
<1>7. OfKernel' = K \cup {n + 1}
  <2>1. 1..(n + 1) = (1..n) \cup {n + 1}
    BY <1>1
  <2>2. \A k \in 1..n : uart'[k][1] = uart[k][1]
    BY <1>6
  <2> QED
    BY <1>6, <2>1, <2>2 DEF OfKernel
<1>8. /\ Cardinality(K) = Cardinality(P)
      /\ \A k \in K, j \in P : Rank(K, k) = Rank(P, j) => uart[k][2] = top.text[j]
  BY <1>1 DEF OutputInv, OutputIsNotMixed
<1> HIDE DEF n, ch, P, K, i
<1>9. /\ Cardinality(K \cup {n + 1}) = Cardinality(K) + 1
      /\ Rank(K \cup {n + 1}, n + 1) = Cardinality(K) + 1
      /\ \A k \in K : Rank(K \cup {n + 1}, k) = Rank(K, k)
  BY <1>1, RankOfNext
<1>10. /\ Cardinality(P \cup {i}) = Cardinality(P) + 1
       /\ Rank(P \cup {i}, i) = Cardinality(P) + 1
       /\ \A j \in P : Rank(P \cup {i}, j) = Rank(P, j)
  BY <1>4, RankOfNext DEF i
<1>11. /\ Cardinality(K) \in Nat /\ Cardinality(P) \in Nat
       /\ \A k \in K : Rank(K, k) \in Nat /\ Rank(K, k) <= Cardinality(K)
       /\ \A j \in P : Rank(P, j) \in Nat /\ Rank(P, j) <= Cardinality(P)
  BY <1>1, <1>4, RankBounds
<1>12. ASSUME NEW k \in K \cup {n + 1}, NEW j \in P \cup {i},
              Rank(K \cup {n + 1}, k) = Rank(P \cup {i}, j)
       PROVE  uart'[k][2] = top.text[j]
  <2>1. CASE k \in K /\ j \in P
    BY <1>1, <1>6, <1>8, <1>9, <1>10, <1>12, <2>1
  <2>2. CASE k \in K /\ j = i
    <3>1. Rank(K, k) = Cardinality(K) + 1
      BY <1>8, <1>9, <1>10, <1>12, <2>2
    <3> QED
      BY <1>11, <2>2, <3>1
  <2>3. CASE k = n + 1 /\ j \in P
    <3>1. Rank(P, j) = Cardinality(P) + 1
      BY <1>8, <1>9, <1>10, <1>12, <2>3
    <3> QED
      BY <1>11, <2>3, <3>1
  <2>4. CASE k = n + 1 /\ j = i
    BY <1>3, <1>6, <2>4
  <2> QED
    BY <2>1, <2>2, <2>3, <2>4
<1>13. OutputIsNotMixed'
  <2>1. Printed(calls'[1]) = P \cup {i} /\ calls'[1].text = top.text /\ Len(calls') # 2
    BY <1>2, <1>3
  <2>2. Cardinality(OfKernel') = Cardinality(Printed(calls'[1]))
    BY <1>7, <1>8, <1>9, <1>10, <2>1, SMTT(30)
  <2>3. \A k \in OfKernel', j \in Printed(calls'[1]) :
          Rank(OfKernel', k) = Rank(Printed(calls'[1]), j) => uart'[k][2] = calls'[1].text[j]
    BY <1>7, <1>12, <2>1, ZenonT(30)
  <2> QED
    BY <2>1, <2>2, <2>3 DEF OutputIsNotMixed
<1> QED
  BY <1>2, <1>6, <1>13 DEF OutputInv

\* A handler's call sends a character.
LEMMA HandlerSends ==
  ASSUME OutputInv, Len(calls) = 2, top.pending # << >>, Sends(top), Running(Emitted(top)),
         uart' = Append(uart, <<2, Head(top.pending)>>), CallsInv'
  PROVE  OutputInv'
<1> DEFINE n == Len(uart)
           ch == Head(top.pending)
           P == Printed(top)
           i == top.idx + 1
           c == Cardinality(P)
<1>1. /\ calls \in Seq(GoodCall) /\ calls # << >> /\ top = calls[2] /\ top \in GoodCall
      /\ n \in Nat /\ OfKernel \in SUBSET (1..n)
  BY CallsInProgress, SMTT(30) DEF top
<1>2. Len(calls') = 2 /\ calls'[1] = calls[1] /\ top' = Emitted(top)
  BY <1>1 DEF Running, top
<1>3. /\ ch \in Char /\ ch = top.text[i] /\ Emitted(top).text = top.text
      /\ Printed(Emitted(top)) = P \cup {i}
  BY <1>1, EmittedPrints
<1>4. top.idx \in Nat /\ P \in SUBSET (1..top.idx)
  BY <1>1, PrintedPlaces
<1>5. uart \in Seq((1..2) \X Char)
  BY DEF OutputInv
<1>6. /\ uart' \in Seq((1..2) \X Char) /\ DOMAIN uart = 1..n /\ DOMAIN uart' = 1..(n + 1)
      /\ Len(uart') = n + 1
      /\ uart'[n + 1] = <<2, ch>> /\ \A k \in 1..n : uart'[k] = uart[k]
  BY <1>1, <1>3, <1>5
<1>7. OfKernel' = OfKernel
  <2>1. 1..(n + 1) = (1..n) \cup {n + 1}
    BY <1>1
  <2>2. \A k \in 1..n : uart'[k][1] = uart[k][1]
    BY <1>6
  <2>3. uart'[n + 1][1] # 1
    BY <1>6
  <2> QED
    BY <1>6, <2>1, <2>2, <2>3 DEF OfKernel
<1>8. /\ Cardinality(OfKernel) = Cardinality(Printed(calls[1]))
      /\ \A k \in OfKernel, j \in Printed(calls[1]) :
           Rank(OfKernel, k) = Rank(Printed(calls[1]), j) => uart[k][2] = calls[1].text[j]
      /\ \A j \in P : uart[n - c + Rank(P, j)] = <<2, top.text[j]>>
      /\ c <= n
  BY <1>1 DEF OutputInv, OutputIsNotMixed
<1> HIDE DEF n, ch, P, i, c
<1>9. /\ Cardinality(P \cup {i}) = c + 1 /\ Rank(P \cup {i}, i) = c + 1
      /\ \A j \in P : Rank(P \cup {i}, j) = Rank(P, j)
  BY <1>4, RankOfNext DEF i, c
<1>10. c \in Nat /\ \A j \in P : Rank(P, j) \in Nat /\ 1 <= Rank(P, j) /\ Rank(P, j) <= c
  BY <1>4, RankBounds DEF c
<1>11. ASSUME NEW j \in P \cup {i}
       PROVE  uart'[(n + 1) - (c + 1) + Rank(P \cup {i}, j)] = <<2, top.text[j]>>
  <2>1. CASE j \in P
    <3>1. Rank(P \cup {i}, j) = Rank(P, j) /\ Rank(P, j) \in Nat
          /\ 1 <= Rank(P, j) /\ Rank(P, j) <= c
      BY <1>9, <1>10, <2>1
    <3>2. /\ (n + 1) - (c + 1) + Rank(P, j) = n - c + Rank(P, j)
          /\ n - c + Rank(P, j) \in 1..n
      BY <1>1, <1>8, <1>10, <3>1
    <3> QED
      BY <1>6, <1>8, <2>1, <3>1, <3>2
  <2>2. CASE j = i
    <3>1. (n + 1) - (c + 1) + (c + 1) = n + 1
      BY <1>1, <1>10
    <3> QED
      BY <1>3, <1>6, <1>9, <2>2, <3>1
  <2> QED
    BY <2>1, <2>2
<1>12. \A k \in OfKernel : uart'[k] = uart[k]
  BY <1>1, <1>6
<1>13. OutputIsNotMixed'
  <2>1. /\ Printed(top)' = P \cup {i} /\ top'.text = top.text
        /\ Printed(calls'[1]) = Printed(calls[1]) /\ calls'[1].text = calls[1].text
    BY <1>2, <1>3
  <2>2. Cardinality(OfKernel') = Cardinality(Printed(calls'[1]))
    BY <1>7, <1>8, <2>1
  <2>3. \A k \in OfKernel', j \in Printed(calls'[1]) :
          Rank(OfKernel', k) = Rank(Printed(calls'[1]), j) => uart'[k][2] = calls'[1].text[j]
    <3>1. \A k \in OfKernel, j \in Printed(calls[1]) :
            Rank(OfKernel, k) = Rank(Printed(calls[1]), j) => uart'[k][2] = calls[1].text[j]
      BY <1>8, <1>12, ZenonT(30)
    <3> SUFFICES ASSUME NEW k \in OfKernel', NEW j \in Printed(calls'[1]),
                        Rank(OfKernel', k) = Rank(Printed(calls'[1]), j)
                 PROVE  uart'[k][2] = calls'[1].text[j]
      OBVIOUS
    <3>2. /\ k \in OfKernel /\ j \in Printed(calls[1])
          /\ Rank(OfKernel, k) = Rank(Printed(calls[1]), j)
      BY <1>7, <2>1
    <3> QED
      BY <2>1, <3>1, <3>2
  <2>4. \A j \in Printed(top)' :
          uart'[Len(uart') - Cardinality(Printed(top)') + Rank(Printed(top)', j)]
            = <<2, top'.text[j]>>
    BY <1>6, <1>9, <1>11, <2>1
  <2> QED
    BY <2>2, <2>3, <2>4 DEF OutputIsNotMixed
<1>14. Cardinality(Printed(top)') <= Len(uart')
  BY <1>1, <1>2, <1>3, <1>6, <1>8, <1>9, <1>10
<1> QED
  BY <1>2, <1>6, <1>13, <1>14 DEF OutputInv

\* A call that begins has printed nothing.
LEMMA NewCallPrints == \A f, s : Printed(NewCall(f, s)) = {}
  BY DEF NewCall, Printed

\* The call of a handler is put behind the kernel's.
LEMMA SecondCall ==
  ASSUME NEW S, NEW c \in Seq(S), Len(c) = 1, NEW h \in S
  PROVE  Len(Append(c, h)) = 2 /\ Append(c, h)[1] = c[1] /\ Append(c, h)[2] = h
<1>1. \A d \in Seq(S) :
        /\ Len(Append(d, h)) = Len(d) + 1 /\ Append(d, h)[Len(d) + 1] = h
        /\ \A k \in 1..Len(d) : Append(d, h)[k] = d[k]
  OBVIOUS
<1> DEFINE a == Append(c, h)
<1>2. Len(a) = Len(c) + 1 /\ a[Len(c) + 1] = h /\ \A k \in 1..Len(c) : a[k] = c[k]
  BY <1>1
<1> HIDE DEF a
<1>3. Len(c) + 1 = 2 /\ 1 \in 1..Len(c)
  OBVIOUS
<1>4. Len(a) = 2 /\ a[1] = c[1] /\ a[2] = h
  BY <1>2, <1>3
<1> QED
  BY <1>4 DEF a

LEMMA NextOutput == OutputInv /\ [Next]_vars => OutputInv'
<1> SUFFICES ASSUME OutputInv, [Next]_vars PROVE OutputInv'
  OBVIOUS
<1>0. CallsInv /\ CallsInv'
  BY NextCalls DEF OutputInv
<1>1. ASSUME NEW call \in Calls, Call(call) PROVE OutputInv'
  <2>1. calls' = <<NewCall(call.format, call.sink)>> /\ uart' = << >>
    BY <1>1 DEF Call
  <2>2. Len(calls') = 1 /\ Printed(calls'[1]) = {}
    BY <2>1, NewCallPrints
  <2>3. OfKernel' = {} /\ uart' \in Seq((1..2) \X Char)
    BY <2>1 DEF OfKernel
  <2> QED
    BY <1>0, <2>2, <2>3 DEF OutputInv, OutputIsNotMixed
<1>2. CASE Convert
  <2>1. /\ calls # << >> /\ uart' = uart /\ Running(Converted(top)) /\ top \in GoodCall
        /\ top.next <= Len(top.format)
    BY <1>2, CallsInProgress DEF Convert, Converted
  <2>2. top.next \in 1..Len(top.format)
    <3>1. top.next \in Nat \ {0} /\ top.format \in Seq(Item)
      BY <2>1, CallFields, FormatsAreItems
    <3>2. Len(top.format) \in Nat
      BY <3>1
    <3> QED
      BY <2>1, <3>1, <3>2
  <2> QED
    BY <1>0, <2>1, <2>2, ConvertedPrints, QuietStep
<1>3. CASE Emit
  <2>1. /\ calls # << >> /\ top.pending # << >> /\ Running(Emitted(top)) /\ top \in GoodCall
        /\ uart' = IF Sends(top) THEN Append(uart, <<Len(calls), Head(top.pending)>>) ELSE uart
    BY <1>3, CallsInProgress DEF Emit, Emitted, Stored, Memory, ToConsole, Sends
  <2>2. CASE Sends(top)
    <3>1. Len(calls) = 1 \/ Len(calls) = 2
      BY <2>1, CallsInProgress
    <3> QED
      BY <1>0, <2>1, <2>2, <3>1, KernelSends, HandlerSends
  <2>3. CASE ~Sends(top)
    <3>1. SamePrinted(top, Emitted(top))
      BY <2>1, <2>3, EmittedPrints
    <3> QED
      BY <1>0, <2>1, <2>3, <3>1, QuietStep
  <2> QED
    BY <2>2, <2>3
<1>4. CASE Terminate
  <2>1. calls # << >> /\ uart' = uart /\ Running(Terminated(top)) /\ top \in GoodCall
    BY <1>4, CallsInProgress DEF Terminate, Terminated, Stored, Memory, ToConsole, End
  <2> QED
    BY <1>0, <2>1, TerminatedPrints, QuietStep
<1>5. CASE Return
  <2>1. /\ calls # << >> /\ calls' = Front(calls) /\ uart' = uart
        /\ calls \in Seq(GoodCall) /\ Len(calls) \in {1, 2}
    BY <1>5, CallsInProgress DEF Return
  <2>2. OfKernel' = OfKernel
    BY <2>1 DEF OfKernel
  <2>3. CASE Len(calls) = 1
    <3>1. calls' = << >>
      BY <2>1, <2>3 DEF Front
    <3> QED
      BY <1>0, <2>1, <3>1 DEF OutputInv, OutputIsNotMixed
  <2>4. CASE Len(calls) = 2
    <3>1. Len(calls') = 1 /\ calls'[1] = calls[1]
      BY <2>1, <2>4 DEF Front
    <3> QED
      BY <1>0, <2>1, <2>2, <3>1 DEF OutputInv, OutputIsNotMixed
  <2> QED
    BY <2>1, <2>3, <2>4
<1>6. CASE Interrupt
  <2> DEFINE h == NewCall(HandlerFormat, Console)
  <2>1. /\ calls # << >> /\ calls' = Append(calls, h) /\ uart' = uart /\ Len(calls) = 1
        /\ calls \in Seq(GoodCall) /\ Len(uart) \in Nat
    <3>1. Len(calls) = 1 /\ calls' = Append(calls, h) /\ uart' = uart
      BY <1>6 DEF Interrupt
    <3>2. calls # << >>
      BY <3>1
    <3> QED
      BY <3>1, <3>2, CallsInProgress
  <2>2. Printed(h) = {} /\ h \in GoodCall
    BY Sinks, NewCallPrints, NewCallIsGood DEF Formats
  <2> HIDE DEF h
  <2>3. Len(calls') = 2 /\ calls'[1] = calls[1] /\ top' = h
    <3>1. h \in GoodCall /\ calls \in Seq(GoodCall) /\ Len(calls) = 1
      BY <2>1, <2>2
    <3>2. Len(calls') = 2 /\ calls'[1] = calls[1] /\ calls'[2] = h
      BY <2>1, <3>1, SecondCall
    <3> QED
      BY <3>2 DEF top
  <2>4. OfKernel' = OfKernel
    BY <2>1 DEF OfKernel
  <2>5. Cardinality(Printed(h)) = 0
    BY <2>2, FS_EmptySet
  <2>6. OutputIsNotMixed'
    BY <2>1, <2>2, <2>3, <2>4 DEF OutputInv, OutputIsNotMixed
  <2> QED
    <3>1. Cardinality(Printed(top)') <= Len(uart')
      BY <2>1, <2>3, <2>5
    <3> QED
      BY <1>0, <2>1, <2>3, <2>6, <3>1 DEF OutputInv
<1>7. CASE UNCHANGED vars
  <2>1. calls' = calls /\ uart' = uart
    BY <1>7 DEF vars
  <2>2. OfKernel' = OfKernel /\ top' = top
    BY <2>1 DEF OfKernel, top
  <2>3. OutputIsNotMixed'
    BY <2>1, <2>2 DEF OutputInv, OutputIsNotMixed
  <2> QED
    BY <1>0, <2>1, <2>2, <2>3 DEF OutputInv
<1> QED
  BY <1>1, <1>2, <1>3, <1>4, <1>5, <1>6, <1>7 DEF Next

(***************************************************************************)
(* A handler that prints between any two characters of a message of the    *)
(* kernel (trap.c:107) mixes neither: the console has all of both, each in *)
(* order, whatever the formats, the sinks and the number of interrupts.    *)
(***************************************************************************)
THEOREM MessagesDoNotMix == Spec => []OutputIsNotMixed
<1>1. Init => OutputInv
  BY DEF Init, OutputInv, CallsInv, OutputIsNotMixed
<1>2. OutputInv => OutputIsNotMixed
  BY DEF OutputInv
<1> QED
  BY <1>1, <1>2, NextOutput, PTL DEF Spec

(***************************************************************************)
(* At most two calls are in progress, all that is stored, pending and sent *)
(* is made of characters, digits of any number in any base included, and   *)
(* no index is negative.                                                   *)
(***************************************************************************)
THEOREM PrintfTypeCorrect == Spec => []TypeOKPrintf
<1> DEFINE TypeInv == OutputInv /\ interrupts \in Nat
<1>1. Init => TypeInv
  BY DEF Init, OutputInv, CallsInv, OutputIsNotMixed
<1>2. TypeInv /\ [Next]_vars => TypeInv'
  <2> SUFFICES ASSUME interrupts \in Nat, [Next]_vars PROVE interrupts' \in Nat
    BY NextOutput
  <2>1. ASSUME NEW call \in Calls, Call(call) PROVE interrupts' \in Nat
    BY <2>1, PrintfAssumption DEF Call
  <2>2. ASSUME Interrupt PROVE interrupts' \in Nat
    BY <2>2 DEF Interrupt
  <2> QED
    BY <2>1, <2>2 DEF Next, Convert, Emit, Terminate, Return, vars
<1>3. TypeInv => TypeOKPrintf
  <2>1. GoodCall \subseteq CallType
    BY DEF GoodCall
  <2>2. CallsInv => calls \in Seq(CallType)
    BY <2>1 DEF CallsInv
  <2> QED
    BY <2>2 DEF OutputInv, TypeOKPrintf
<1> QED
  BY <1>1, <1>2, <1>3, PTL DEF Spec
-----------------------------------------------------------------------------
(***************************************************************************)
(* What a text says.  A reader of a text of digits d[m], ..., d[1], with   *)
(* zeros and no digits before it and no digits behind it, has read the     *)
(* number they are the digits of if nothing was left of it, and less       *)
(* otherwise.                                                              *)
(***************************************************************************)

\* The readings are what their definition says, all natural numbers.
LEMMA ReadingsAre ==
  ASSUME NEW t, NEW base \in Bases
  PROVE  /\ Readings(t, base) \in [Nat -> Nat]
         /\ Readings(t, base)[0] = 0
         /\ \A n \in Nat :
              Readings(t, base)[n + 1] =
                IF IsDigit(t[n + 1]) THEN Readings(t, base)[n] * base + t[n + 1]
                ELSE Readings(t, base)[n]
<1> DEFINE Next1(n, v) == IF IsDigit(t[n + 1]) THEN v * base + t[n + 1] ELSE v
           step == [x \in Nat \X Nat |-> Next1(x[1], x[2])]
           Before(n, v) == IF IsDigit(t[n]) THEN v * base + t[n] ELSE v
           Defines(r) == r = [n \in Nat |-> IF n = 0 THEN 0 ELSE Before(n, r[n - 1])]
           r == CHOOSE r : Defines(r)
<1>1. \A n, v \in Nat : Next1(n, v) \in Nat /\ Before(n, v) \in Nat
  <2>1. base \in Nat
    BY DEF Bases
  <2>2. \A v \in Nat : v * base \in Nat
    BY <2>1
  <2> QED
    BY <2>2 DEF IsDigit
<1>2. \A n, v \in Nat : Before(n + 1, v) = Next1(n, v)
  OBVIOUS
<1> HIDE DEF Next1, Before
<1>3. step \in [Nat \X Nat -> Nat]
  BY <1>1
<1>4. PICK g \in [Nat -> Nat] : g[0] = 0 /\ \A n \in Nat : g[n + 1] = step[<<n, g[n]>>]
  <2> HIDE DEF step
  <2>1. 0 \in Nat
    OBVIOUS
  <2>2. \A v \in Nat :
          \E g \in [Nat -> Nat] : g[0] = v /\ \A n \in Nat : g[n + 1] = step[<<n, g[n]>>]
    BY <1>3, Recursion
  <2> QED
    BY <2>1, <2>2
<1>5. \A n \in Nat : g[n + 1] = Next1(n, g[n])
  BY <1>4
<1>6. Defines(g)
  <2> DEFINE h == [n \in Nat |-> IF n = 0 THEN 0 ELSE Before(n, g[n - 1])]
  <2>1. ASSUME NEW n \in Nat PROVE g[n] = h[n]
    <3>1. CASE n = 0
      BY <1>4, <3>1
    <3>2. CASE n # 0
      <4>1. n - 1 \in Nat /\ (n - 1) + 1 = n
        BY <3>2
      <4>2. g[(n - 1) + 1] = Next1(n - 1, g[n - 1]) /\ g[n - 1] \in Nat
        BY <1>4, <1>5, <4>1
      <4>3. Before((n - 1) + 1, g[n - 1]) = Next1(n - 1, g[n - 1])
        BY <1>2, <4>1, <4>2
      <4> QED
        BY <3>2, <4>1, <4>2, <4>3
    <3> QED
      BY <3>1, <3>2
  <2>2. g = [n \in Nat |-> g[n]]
    BY <1>4
  <2> QED
    BY <2>1, <2>2
<1>7. Defines(r)
  BY <1>6
<1>8. Readings(t, base) = r
  BY DEF Readings, Before
<1> HIDE DEF r
<1>9. DOMAIN r = Nat /\ r[0] = 0 /\ \A n \in Nat : r[n + 1] = Next1(n, r[n])
  <2> DEFINE h == [n \in Nat |-> IF n = 0 THEN 0 ELSE Before(n, r[n - 1])]
  <2>1. r = h
    BY <1>7
  <2>2. DOMAIN h = Nat /\ h[0] = 0 /\ \A n \in Nat : h[n + 1] = Before(n + 1, r[n])
    OBVIOUS
  <2>3. DOMAIN r = Nat /\ r[0] = 0 /\ \A n \in Nat : r[n + 1] = Before(n + 1, r[n])
    <3> HIDE DEF h
    <3> QED
      BY <2>1, <2>2
  <2> QED
    BY <2>3 DEF Before, Next1
<1>10. \A n \in Nat : r[n] \in Nat
  <2> DEFINE S == {n \in Nat : r[n] \in Nat}
  <2>1. 0 \in S
    BY <1>9
  <2>2. ASSUME NEW n \in Nat, n \in S PROVE n + 1 \in S
    <3>1. r[n] \in Nat /\ r[n + 1] = Next1(n, r[n])
      BY <1>9, <2>2
    <3>2. r[n + 1] \in Nat
      BY <1>1, <3>1
    <3> QED
      BY <3>2
  <2> HIDE DEF S
  <2>3. Nat \subseteq S
    BY <2>1, <2>2, SetInduction
  <2> QED
    BY <2>3 DEF S
<1>11. r = [n \in Nat |-> r[n]]
  BY <1>7
<1>12. r \in [Nat -> Nat]
  BY <1>10, <1>11
<1> QED
  BY <1>8, <1>9, <1>12 DEF Next1

\* Multiplication by a base keeps the order.
LEMMA TimesBase ==
  ASSUME NEW base \in Bases, NEW v \in Nat, NEW w \in Nat, NEW digit \in Nat
  PROVE  /\ v * base + digit \in Nat
         /\ v < w => v * base + digit < w * base + digit
         /\ v = 0 /\ digit = 0 => v * base + digit = 0
<1>1. /\ v * 2 + digit \in Nat /\ (v < w => v * 2 + digit < w * 2 + digit)
      /\ v = 0 /\ digit = 0 => v * 2 + digit = 0
  OBVIOUS
<1>2. /\ v * 8 + digit \in Nat /\ (v < w => v * 8 + digit < w * 8 + digit)
      /\ v = 0 /\ digit = 0 => v * 8 + digit = 0
  OBVIOUS
<1>3. /\ v * 10 + digit \in Nat /\ (v < w => v * 10 + digit < w * 10 + digit)
      /\ v = 0 /\ digit = 0 => v * 10 + digit = 0
  OBVIOUS
<1>4. /\ v * 16 + digit \in Nat /\ (v < w => v * 16 + digit < w * 16 + digit)
      /\ v = 0 /\ digit = 0 => v * 16 + digit = 0
  OBVIOUS
<1> QED
  BY <1>1, <1>2, <1>3, <1>4, Zenon DEF Bases

LEMMA ReadsBack ==
  ASSUME NEW t, NEW base \in Bases, NEW value \in Nat,
         NEW p \in Nat, NEW m \in Nat, NEW n \in Nat, p + m <= n,
         \A k \in 1..p : IsDigit(t[k]) => t[k] = 0,
         \A j \in 1..m : t[p + j] = Quotients(value, base)[m - j] % base,
         \A k \in (p + m + 1)..n : ~IsDigit(t[k])
  PROVE  /\ Quotients(value, base)[m] = 0 => Readings(t, base)[n] = value
         /\ Quotients(value, base)[m] # 0 => Readings(t, base)[n] < value
<1> DEFINE r == Readings(t, base)
           q == Quotients(value, base)
<1>1. /\ \A k \in Nat : r[k] \in Nat
      /\ r[0] = 0
      /\ \A k \in Nat : r[k + 1] = IF IsDigit(t[k + 1]) THEN r[k] * base + t[k + 1] ELSE r[k]
  <2>1. r \in [Nat -> Nat]
    BY ReadingsAre
  <2> QED
    BY <2>1, ReadingsAre
<1>2. /\ \A k \in Nat : q[k] \in Nat
      /\ q[0] = value
      /\ \A k \in Nat : q[k + 1] = q[k] \div base
  <2>1. q \in [Nat -> Nat]
    BY QuotientsAre
  <2> QED
    BY <2>1, QuotientsAre
<1>3. \A j \in 1..m : t[p + j] = q[m - j] % base
  OBVIOUS
<1> HIDE DEF r, q
<1>4. \A k \in Nat : k <= p => r[k] = 0
  <2> DEFINE S == {k \in Nat : k <= p => r[k] = 0}
  <2>1. 0 \in S
    BY <1>1
  <2>2. ASSUME NEW k \in Nat, k \in S PROVE k + 1 \in S
    <3> SUFFICES ASSUME k + 1 <= p PROVE r[k + 1] = 0
      OBVIOUS
    <3>1. k <= p /\ k + 1 \in 1..p
      OBVIOUS
    <3>2. r[k] = 0 /\ (IsDigit(t[k + 1]) => t[k + 1] = 0)
      BY <2>2, <3>1
    <3>3. 0 * base + 0 = 0
      BY TimesBase
    <3> QED
      BY <1>1, <3>2, <3>3
  <2> HIDE DEF S
  <2>3. Nat \subseteq S
    BY <2>1, <2>2, SetInduction
  <2> QED
    BY <2>3 DEF S
<1>5. ASSUME NEW j \in Nat, j < m
      PROVE  /\ r[p + (j + 1)] = r[p + j] * base + (q[m - (j + 1)] % base)
             /\ q[m - (j + 1)] = q[m - j] * base + (q[m - (j + 1)] % base)
             /\ q[m - (j + 1)] % base \in Nat /\ r[p + j] \in Nat /\ q[m - j] \in Nat
  <2>1. /\ j + 1 \in 1..m /\ p + (j + 1) = (p + j) + 1 /\ p + j \in Nat
        /\ m - (j + 1) \in Nat /\ m - j \in Nat /\ (m - (j + 1)) + 1 = m - j
    BY <1>5
  <2>2. q[m - (j + 1)] \in Nat /\ r[p + j] \in Nat /\ q[m - j] \in Nat
    BY <1>1, <1>2, <2>1
  <2>3. q[m - (j + 1)] % base \in 0..(base - 1)
    BY <2>2, Division
  <2>4. 0..(base - 1) \subseteq 0..15
    BY DEF Bases
  <2>5. t[p + (j + 1)] = q[m - (j + 1)] % base
    BY <1>3, <2>1
  <2>6. IsDigit(t[(p + j) + 1])
    BY <2>1, <2>3, <2>4, <2>5 DEF IsDigit
  <2>7. r[(p + j) + 1] = r[p + j] * base + t[(p + j) + 1]
    BY <1>1, <2>1, <2>6
  <2>8. q[m - j] = q[m - (j + 1)] \div base
    BY <1>2, <2>1
  <2>9. q[m - (j + 1)] = (q[m - (j + 1)] \div base) * base + (q[m - (j + 1)] % base)
    BY <2>2, Division
  <2>10. q[m - (j + 1)] % base \in Nat
    BY <2>3, <2>4
  <2> QED
    BY <2>1, <2>2, <2>5, <2>7, <2>8, <2>9, <2>10
<1>6. \A j \in Nat : j <= m => /\ q[m] = 0 => r[p + j] = q[m - j]
                               /\ q[m] # 0 => r[p + j] < q[m - j]
  <2> DEFINE Good(j) == j <= m => /\ q[m] = 0 => r[p + j] = q[m - j]
                                  /\ q[m] # 0 => r[p + j] < q[m - j]
             S == {j \in Nat : Good(j)}
  <2>1. Good(0)
    <3>1. p + 0 = p /\ m - 0 = m
      OBVIOUS
    <3>2. r[p] = 0 /\ q[m] \in Nat
      BY <1>2, <1>4
    <3> QED
      BY <3>1, <3>2
  <2>2. ASSUME NEW j \in Nat, Good(j) PROVE Good(j + 1)
    <3> SUFFICES ASSUME j + 1 <= m
                 PROVE  /\ q[m] = 0 => r[p + (j + 1)] = q[m - (j + 1)]
                        /\ q[m] # 0 => r[p + (j + 1)] < q[m - (j + 1)]
      OBVIOUS
    <3>1. j < m /\ j <= m
      OBVIOUS
    <3>2. (q[m] = 0 => r[p + j] = q[m - j]) /\ (q[m] # 0 => r[p + j] < q[m - j])
      BY <2>2, <3>1
    <3> DEFINE digit == q[m - (j + 1)] % base
               v == r[p + j]
               w == q[m - j]
    <3>3. /\ r[p + (j + 1)] = v * base + digit
          /\ q[m - (j + 1)] = w * base + digit
          /\ digit \in Nat /\ v \in Nat /\ w \in Nat
      BY <1>5, <3>1
    <3>4. (q[m] = 0 => v = w) /\ (q[m] # 0 => v < w)
      BY <3>2
    <3> HIDE DEF digit, v, w
    <3>5. v < w => v * base + digit < w * base + digit
      BY <3>3, TimesBase
    <3> QED
      BY <3>3, <3>4, <3>5
  <2> HIDE DEF Good
  <2>3. 0 \in S
    BY <2>1
  <2>4. \A j \in Nat : j \in S => j + 1 \in S
    BY <2>2
  <2> HIDE DEF S
  <2>5. Nat \subseteq S
    BY <2>3, <2>4, SetInduction
  <2> QED
    BY <2>5 DEF S, Good
<1>7. \A k \in Nat : p + m + k <= n => r[p + m + k] = r[p + m]
  <2> DEFINE S == {k \in Nat : p + m + k <= n => r[p + m + k] = r[p + m]}
  <2>1. 0 \in S
    OBVIOUS
  <2>2. ASSUME NEW k \in Nat, k \in S PROVE k + 1 \in S
    <3> SUFFICES ASSUME p + m + (k + 1) <= n PROVE r[p + m + (k + 1)] = r[p + m]
      OBVIOUS
    <3>1. /\ p + m + k <= n /\ p + m + k \in Nat /\ p + m + (k + 1) = (p + m + k) + 1
          /\ (p + m + k) + 1 \in (p + m + 1)..n
      OBVIOUS
    <3>2. r[p + m + k] = r[p + m] /\ ~IsDigit(t[(p + m + k) + 1])
      BY <2>2, <3>1
    <3> QED
      BY <1>1, <3>1, <3>2
  <2> HIDE DEF S
  <2>3. Nat \subseteq S
    BY <2>1, <2>2, SetInduction
  <2> QED
    BY <2>3 DEF S
<1>8. r[n] = r[p + m]
  <2>1. n - (p + m) \in Nat /\ p + m + (n - (p + m)) = n
    OBVIOUS
  <2> QED
    BY <1>7, <2>1
<1>9. (q[m] = 0 => r[p + m] = q[0]) /\ (q[m] # 0 => r[p + m] < q[0])
  <2>1. m \in Nat /\ m <= m /\ m - m = 0
    OBVIOUS
  <2>2. (q[m] = 0 => r[p + m] = q[m - m]) /\ (q[m] # 0 => r[p + m] < q[m - m])
    BY <1>6, <2>1, Zenon
  <2> QED
    BY <2>1, <2>2
<1> QED
  BY <1>2, <1>8, <1>9 DEF r, q

-----------------------------------------------------------------------------
(***************************************************************************)
(* The layout of a number in buf: `Kept` digits and zeros, the first of    *)
(* them the digits of the number, then the letter and the zero of a prefix *)
(* and the sign, each if it is asked for and there is room.                *)
(***************************************************************************)
Digit(d, i) == Quotients(Magnitude(d), Base(d))[i - 1] % Base(d)
Room(n) == IF n < BufferSize THEN n ELSE BufferSize

PaddedLength(d) ==
  LET precise == IF "left" \in Flags(d) THEN Magnitudes(d)
                 ELSE Larger(Magnitudes(d), Room(Precision(d)))
  IN  IF ZerosFillWidth(d) THEN Larger(precise, Room(NtoaWidth(d))) ELSE precise

Dropped(d) ==
  IF ~Prefix(d) \/ d.dot \/ PaddedLength(d) # NtoaWidth(d) THEN 0
  ELSE IF Base(d) = 16 /\ PaddedLength(d) > 1 THEN 2 ELSE 1

Kept(d) == PaddedLength(d) - Dropped(d)
KeptDigits(d) == IF Kept(d) < Magnitudes(d) THEN Kept(d) ELSE Magnitudes(d)

LetterOf(d) == IF Base(d) = 16 THEN LetterX ELSE LetterB
Letters(d) == IF Prefix(d) /\ Base(d) # 8 /\ Kept(d) < BufferSize THEN 1 ELSE 0
PrefixZeros(d) == IF Prefix(d) /\ Kept(d) + Letters(d) < BufferSize THEN 1 ELSE 0

HasSign(d) == Negative(d) \/ Flags(d) \cap {"plus", "space"} # {}
SignOf(d) == IF Negative(d) THEN Minus ELSE IF "plus" \in Flags(d) THEN Plus ELSE Space
Signs(d) ==
  IF HasSign(d) /\ Kept(d) + Letters(d) + PrefixZeros(d) < BufferSize THEN 1 ELSE 0

\* How the flags and the conversion depend on each other.
LEMMA FlagFacts ==
  ASSUME NEW d \in Item, IsNumber(d)
  PROVE  /\ ~d.dot => Precision(d) = 0
         /\ d.dot /\ "zeropad" \in Flags(d) => Base(d) = 16
         /\ Prefix(d) => Base(d) # 10 /\ ~NoDigits(d)
         /\ Prefix(d) /\ HasSign(d) => Base(d) = 16 /\ ~Negative(d)
         /\ NtoaWidth(d) = IF ZerosFillWidth(d) /\ Field(d) > 0 /\ HasSign(d) THEN Field(d) - 1
                           ELSE Field(d)
         /\ Field(d) \in Nat
<1>1. d.conv \in {"d", "u", "x", "o", "b", "p"}
  BY DEF IsNumber, Integer
<1>2. ~d.dot => Precision(d) = 0
  BY DEF Precision
<1>3. d.dot /\ "zeropad" \in Flags(d) => d.conv = "p"
  BY DEF Flags
<1>4. Prefix(d) => d.conv \in {"x", "o", "b", "p"} /\ ~NoDigits(d)
  BY <1>1 DEF Prefix, Flags, NoDigits
<1>5. d.conv = "p" => Base(d) = 16
  BY DEF Base
<1>6. d.conv \in {"x", "o", "b", "p"} => Base(d) # 10
  BY DEF Base
<1>7. Negative(d) => d.conv = "d"
  <2>1. d.length \in Length /\ Head(d.arg) \in Int
    BY DEF Item
  <2>2. Modulus[d.length] \in Nat \ {0}
    BY <2>1, PrintfAssumption
  <2>3. Head(d.arg) % Modulus[d.length] \in Nat
    BY <2>1, <2>2
  <2> QED
    BY <2>3 DEF Negative, Argument
<1>8. Flags(d) \cap {"plus", "space"} # {} => d.conv \in {"d", "p"}
  <2>1. d.conv \notin {"d", "p"} => "plus" \notin Flags(d) /\ "space" \notin Flags(d)
    BY DEF Flags
  <2> QED
    BY <2>1
<1>9. Field(d) \in Nat
  BY Fields, Sizes DEF Field
<1>10. NtoaWidth(d) = IF ZerosFillWidth(d) /\ Field(d) > 0 /\ HasSign(d) THEN Field(d) - 1
                      ELSE Field(d)
  BY DEF NtoaWidth, ZerosFillWidth, HasSign, Field
<1>11. Prefix(d) /\ HasSign(d) => d.conv = "p"
  BY <1>4, <1>7, <1>8 DEF HasSign
<1>12. Prefix(d) => ~Negative(d)
  BY <1>4, <1>7
<1> QED
  BY <1>2, <1>3, <1>4, <1>5, <1>6, <1>9, <1>10, <1>11, <1>12

\* The digits of a number: none, or as many as rounds.
LEMMA MagnitudesAre ==
  ASSUME NEW d \in Item, IsNumber(d)
  PROVE  LET digits == IF NoDigits(d) THEN << >> ELSE Digits(Magnitude(d), Base(d))
         IN  /\ digits \in Buf /\ Len(digits) = Magnitudes(d)
             /\ Magnitudes(d) \in Nat /\ Magnitudes(d) <= BufferSize
             /\ \A i \in 1..Magnitudes(d) : digits[i] = Digit(d, i)
             /\ ~NoDigits(d) => Magnitudes(d) = Rounds(Magnitude(d), Base(d))
<1>1. Magnitude(d) \in Nat /\ Base(d) \in Bases
  BY Fields
<1>2. CASE NoDigits(d)
  BY <1>2, Sizes DEF Magnitudes, Buf
<1>3. CASE ~NoDigits(d)
  <2> DEFINE r == Rounds(Magnitude(d), Base(d))
             D == Digits(Magnitude(d), Base(d))
  <2>1. D \in Buf /\ Len(D) = r /\ r \in 1..BufferSize
        /\ \A i \in 1..r : D[i] = Digit(d, i)
    BY <1>1, DigitsFit, DigitsAre, RoundsAre DEF Digit
  <2>2. Magnitudes(d) = r
    BY <1>3, <2>1 DEF Magnitudes
  <2> HIDE DEF r, D
  <2>3. r \in Nat /\ r <= BufferSize
    BY <2>1, Sizes
  <2> QED
    BY <1>3, <2>1, <2>2, <2>3 DEF r, D
<1> QED
  BY <1>2, <1>3

\* Zeros puts zeros behind what is there.
LEMMA ZerosAre ==
  ASSUME NEW buf \in Buf, NEW len \in Nat
  PROVE  /\ Zeros(buf, len) \in Buf /\ Len(buf) \in Nat
         /\ Len(Zeros(buf, len)) = Larger(Len(buf), Room(len))
         /\ \A i \in 1..Len(buf) : Zeros(buf, len)[i] = buf[i]
         /\ \A i \in (Len(buf) + 1)..Len(Zeros(buf, len)) : Zeros(buf, len)[i] = 0
<1>1. Zeros(buf, len) \in Buf
  BY ZerosFit
<1>2. buf \in Seq(Char) /\ Len(buf) \in Nat /\ Room(len) \in Nat
  BY Sizes DEF Buf, Room
<1> DEFINE gap == IF Len(buf) < Room(len) THEN Room(len) - Len(buf) ELSE 0
           zeros == [k \in 1..gap |-> 0]
<1>3. gap \in Nat
  BY <1>2
<1>4. Zeros(buf, len) = buf \o zeros
  BY DEF Zeros, Fill, Room
<1>5. gap = Larger(Len(buf), Room(len)) - Len(buf)
  BY <1>2 DEF Larger
<1> HIDE DEF gap
<1>6. zeros \in Seq(Char) /\ Len(zeros) = gap /\ \A k \in 1..gap : zeros[k] = 0
  BY <1>3, CharsAre
<1> HIDE DEF zeros
<1>7. /\ Len(buf \o zeros) = Len(buf) + gap
      /\ \A i \in 1..Len(buf) : (buf \o zeros)[i] = buf[i]
      /\ \A i \in (Len(buf) + 1)..(Len(buf) + gap) : (buf \o zeros)[i] = zeros[i - Len(buf)]
  BY <1>2, <1>6
<1>8. \A i \in (Len(buf) + 1)..(Len(buf) + gap) : i - Len(buf) \in 1..gap
  BY <1>2, <1>3
<1>9. Larger(Len(buf), Room(len)) \in Nat
  BY <1>2 DEF Larger
<1>10. Len(buf) + gap = Larger(Len(buf), Room(len))
  BY <1>2, <1>5, <1>9
<1> QED
  BY <1>1, <1>2, <1>4, <1>6, <1>7, <1>8, <1>10

\* What _ntoa_format pads: the digits and behind them zeros.
LEMMA PaddedIs ==
  ASSUME NEW d \in Item, IsNumber(d), NEW digits \in Buf, Len(digits) = Magnitudes(d)
  PROVE  /\ PadZeros(digits, d) \in Buf
         /\ Len(PadZeros(digits, d)) = PaddedLength(d)
         /\ \A i \in 1..Magnitudes(d) : PadZeros(digits, d)[i] = digits[i]
         /\ \A i \in (Magnitudes(d) + 1)..PaddedLength(d) : PadZeros(digits, d)[i] = 0
<1>1. Precision(d) \in Nat /\ NtoaWidth(d) \in Nat /\ Magnitudes(d) \in Nat
  BY Fields DEF Buf
<1>2. CASE "left" \in Flags(d)
  <2>1. PadZeros(digits, d) = digits /\ PaddedLength(d) = Magnitudes(d)
    BY <1>2 DEF PadZeros, PaddedLength, ZerosFillWidth
  <2> QED
    BY <1>1, <2>1
<1>3. CASE "left" \notin Flags(d)
  <2> DEFINE exact == Zeros(digits, Precision(d))
             n == Larger(Magnitudes(d), Room(Precision(d)))
  <2>1. /\ exact \in Buf /\ Len(exact) = n /\ n \in Nat /\ n >= Magnitudes(d)
        /\ \A i \in 1..Magnitudes(d) : exact[i] = digits[i]
        /\ \A i \in (Magnitudes(d) + 1)..n : exact[i] = 0
    <3>1. /\ exact \in Buf /\ Len(exact) = n
          /\ \A i \in 1..Magnitudes(d) : exact[i] = digits[i]
          /\ \A i \in (Magnitudes(d) + 1)..Len(exact) : exact[i] = 0
      <4>1. /\ exact \in Buf /\ Len(exact) = Larger(Len(digits), Room(Precision(d)))
            /\ \A i \in 1..Len(digits) : exact[i] = digits[i]
            /\ \A i \in (Len(digits) + 1)..Len(exact) : exact[i] = 0
        BY <1>1, ZerosAre
      <4> HIDE DEF exact
      <4> QED
        BY <4>1
    <3>2. Room(Precision(d)) \in Nat
      BY <1>1, Sizes DEF Room
    <3>3. n \in Nat /\ n >= Magnitudes(d)
      BY <1>1, <3>2 DEF Larger
    <3> QED
      BY <3>1, <3>3
  <2>2. CASE ~ZerosFillWidth(d)
    <3>1. PadZeros(digits, d) = exact /\ PaddedLength(d) = n
      BY <1>3, <2>2 DEF PadZeros, PaddedLength, ZerosFillWidth
    <3> HIDE DEF exact, n
    <3> QED
      BY <2>1, <3>1
  <2>3. CASE ZerosFillWidth(d)
    <3> DEFINE wide == Zeros(exact, NtoaWidth(d))
               l == Larger(n, Room(NtoaWidth(d)))
    <3>1. PadZeros(digits, d) = wide /\ PaddedLength(d) = l
      BY <1>3, <2>3 DEF PadZeros, PaddedLength, ZerosFillWidth
    <3> HIDE DEF exact, n
    <3>2. /\ wide \in Buf /\ Len(wide) = l
          /\ \A i \in 1..n : wide[i] = exact[i]
          /\ \A i \in (n + 1)..l : wide[i] = 0
      <4>1. /\ wide \in Buf /\ Len(wide) = Larger(Len(exact), Room(NtoaWidth(d)))
            /\ \A i \in 1..Len(exact) : wide[i] = exact[i]
            /\ \A i \in (Len(exact) + 1)..Len(wide) : wide[i] = 0
        BY <1>1, <2>1, ZerosAre
      <4> HIDE DEF wide
      <4> QED
        BY <2>1, <4>1
    <3>3. l \in Nat
      BY <3>2 DEF Buf
    <3> HIDE DEF wide, l
    <3>4. \A i \in 1..Magnitudes(d) : wide[i] = digits[i]
      <4>1. \A i \in 1..Magnitudes(d) : i \in 1..n
        BY <1>1, <2>1
      <4> QED
        BY <2>1, <3>2, <4>1
    <3>5. \A i \in (Magnitudes(d) + 1)..l : wide[i] = 0
      <4> TAKE i \in (Magnitudes(d) + 1)..l
      <4>1. i \in (Magnitudes(d) + 1)..n \/ i \in (n + 1)..l
        BY <1>1, <2>1, <3>3
      <4>2. i \in (Magnitudes(d) + 1)..n => i \in 1..n
        BY <1>1, <2>1
      <4> QED
        BY <2>1, <3>2, <4>1, <4>2
    <3> QED
      BY <3>1, <3>2, <3>4, <3>5
  <2> QED
    BY <2>2, <2>3
<1> QED
  BY <1>2, <1>3

\* Put puts one character behind what is there, if there is room.
LEMMA PutIs ==
  ASSUME NEW buf \in Buf, NEW ch \in Char, NEW n \in Nat, n = Len(buf)
  PROVE  /\ Put(buf, ch) \in Buf
         /\ Len(Put(buf, ch)) = n + (IF n < BufferSize THEN 1 ELSE 0)
         /\ \A i \in 1..n : Put(buf, ch)[i] = buf[i]
         /\ n < BufferSize => Put(buf, ch)[n + 1] = ch
<1>1. Put(buf, ch) \in Buf
  BY PutFits
<1>2. buf \in Seq(Char) /\ n <= BufferSize
  BY DEF Buf
<1>3. /\ Len(Append(buf, ch)) = n + 1 /\ \A i \in 1..n : Append(buf, ch)[i] = buf[i]
      /\ Append(buf, ch)[n + 1] = ch
  BY <1>2
<1> QED
  BY <1>1, <1>2, <1>3 DEF Put

\* The sizes of a layout.
LEMMA LayoutSizes ==
  ASSUME NEW d \in Item, IsNumber(d)
  PROVE  /\ Magnitudes(d) \in 0..PaddedLength(d) /\ PaddedLength(d) \in 0..BufferSize
         /\ Prefix(d) => Magnitudes(d) >= 1
         /\ Dropped(d) \in {0, 1, 2} /\ Dropped(d) <= PaddedLength(d)
         /\ Kept(d) \in 0..BufferSize /\ KeptDigits(d) \in 0..Kept(d)
         /\ KeptDigits(d) <= Magnitudes(d)
         /\ Letters(d) \in {0, 1} /\ PrefixZeros(d) \in {0, 1} /\ Signs(d) \in {0, 1}
         /\ Kept(d) + Letters(d) + PrefixZeros(d) + Signs(d) <= BufferSize
<1>1. Magnitudes(d) \in Nat /\ Magnitudes(d) <= BufferSize /\ BufferSize \in Nat
  BY MagnitudesAre, Sizes
<1>2. Room(Precision(d)) \in 0..BufferSize /\ Room(NtoaWidth(d)) \in 0..BufferSize
  BY Fields, Sizes DEF Room
<1>3. Magnitudes(d) \in 0..PaddedLength(d) /\ PaddedLength(d) \in 0..BufferSize
  BY <1>1, <1>2 DEF PaddedLength, Larger
<1>4. Prefix(d) => Magnitudes(d) >= 1
  <2> SUFFICES ASSUME Prefix(d) PROVE Magnitudes(d) >= 1
    OBVIOUS
  <2>1. Magnitudes(d) = Rounds(Magnitude(d), Base(d))
    BY FlagFacts, MagnitudesAre
  <2>2. Rounds(Magnitude(d), Base(d)) \in 1..BufferSize
    BY Fields, RoundsAre
  <2> QED
    BY <2>1, <2>2, Sizes
<1>5. Dropped(d) \in {0, 1, 2} /\ Dropped(d) <= PaddedLength(d)
  BY <1>1, <1>3, <1>4 DEF Dropped
<1>6. Kept(d) \in 0..BufferSize
  BY <1>1, <1>3, <1>5 DEF Kept
<1>7. KeptDigits(d) \in 0..Kept(d) /\ KeptDigits(d) <= Magnitudes(d)
  BY <1>1, <1>6 DEF KeptDigits
<1>8. Letters(d) \in {0, 1} /\ PrefixZeros(d) \in {0, 1} /\ Signs(d) \in {0, 1}
  BY DEF Letters, PrefixZeros, Signs
<1>9. Kept(d) + Letters(d) <= BufferSize
  BY <1>1, <1>6 DEF Letters
<1>10. Kept(d) + Letters(d) + PrefixZeros(d) <= BufferSize
  BY <1>1, <1>6, <1>8, <1>9 DEF PrefixZeros
<1>11. Kept(d) + Letters(d) + PrefixZeros(d) + Signs(d) <= BufferSize
  BY <1>1, <1>6, <1>8, <1>10 DEF Signs
<1> QED
  BY <1>3, <1>4, <1>5, <1>6, <1>7, <1>8, <1>11

(***************************************************************************)
(* The layout of buf, in the order in which it is filled.                  *)
(***************************************************************************)
LEMMA NtoaLayout ==
  ASSUME NEW d \in Item, IsNumber(d)
  PROVE  LET k == Kept(d)
             x == Letters(d)
             z == PrefixZeros(d)
         IN  /\ Ntoa(d) \in Buf /\ Len(Ntoa(d)) = k + x + z + Signs(d)
             /\ \A i \in 1..KeptDigits(d) : Ntoa(d)[i] = Digit(d, i)
             /\ \A i \in (KeptDigits(d) + 1)..k : Ntoa(d)[i] = 0
             /\ x = 1 => Ntoa(d)[k + 1] = LetterOf(d)
             /\ z = 1 => Ntoa(d)[k + x + 1] = 0
             /\ Signs(d) = 1 => Ntoa(d)[k + x + z + 1] = SignOf(d)
<1> DEFINE digits == IF NoDigits(d) THEN << >> ELSE Digits(Magnitude(d), Base(d))
           padded == PadZeros(digits, d)
           kept == SubSeq(padded, 1, Len(padded) - Dropped(d))
           lettered == IF Prefix(d) /\ Base(d) # 8 THEN Put(kept, LetterOf(d)) ELSE kept
           prefixed == IF Prefix(d) THEN Put(lettered, 0) ELSE lettered
           signed == IF HasSign(d) THEN Put(prefixed, SignOf(d)) ELSE prefixed
           k == Kept(d)
           x == Letters(d)
           z == PrefixZeros(d)
           m == KeptDigits(d)
<1>1. /\ digits \in Buf /\ Len(digits) = Magnitudes(d) /\ Magnitudes(d) \in Nat
      /\ \A i \in 1..Magnitudes(d) : digits[i] = Digit(d, i)
  BY MagnitudesAre
<1> HIDE DEF digits
<1>2. /\ padded \in Buf /\ Len(padded) = PaddedLength(d)
      /\ \A i \in 1..Magnitudes(d) : padded[i] = digits[i]
      /\ \A i \in (Magnitudes(d) + 1)..PaddedLength(d) : padded[i] = 0
  BY <1>1, PaddedIs
<1>3. /\ Magnitudes(d) \in 0..PaddedLength(d) /\ PaddedLength(d) \in 0..BufferSize
      /\ k \in 0..BufferSize /\ m \in 0..k /\ m <= Magnitudes(d)
      /\ x \in {0, 1} /\ z \in {0, 1} /\ Signs(d) \in {0, 1} /\ BufferSize \in Nat
      /\ Dropped(d) \in {0, 1, 2} /\ Dropped(d) <= PaddedLength(d)
  BY LayoutSizes, Sizes
<1>4. Ntoa(d) = signed
  <2>1. padded = << >> => ~Prefix(d)
    <3>1. Prefix(d) => Magnitudes(d) >= 1
      BY LayoutSizes
    <3>2. Prefix(d) => Len(padded) # 0
      BY <1>2, <1>3, <3>1
    <3> QED
      BY <3>2
  <2>2. ~d.dot => Precision(d) = 0
    BY FlagFacts
  <2>3. Prefix(d) => PutPrefix(padded, d) = prefixed
    <3> SUFFICES ASSUME Prefix(d) PROVE PutPrefix(padded, d) = prefixed
      OBVIOUS
    <3>1. Len(padded) \in Nat /\ Len(padded) # 0
      <4>1. Prefix(d) => Magnitudes(d) >= 1
        BY LayoutSizes
      <4> QED
        BY <1>2, <1>3, <4>1
    <3> DEFINE full == /\ ~d.dot /\ padded # << >>
                       /\ Len(padded) \in {Precision(d), NtoaWidth(d)}
               drop == IF ~full THEN 0
                       ELSE IF Base(d) = 16 /\ Len(padded) > 1 THEN 2 ELSE 1
    <3>2. full <=> ~d.dot /\ Len(padded) = NtoaWidth(d)
      BY <2>1, <2>2, <3>1
    <3> HIDE DEF padded, full
    <3>3. drop = Dropped(d)
      BY <1>2, <3>2 DEF Dropped
    <3>4. Base(d) # 10 /\ Base(d) \in Bases
      BY FlagFacts, Fields
    <3> HIDE DEF drop
    <3>5. PutPrefix(padded, d) =
            LET base == CASE Base(d) = 16 -> Put(SubSeq(padded, 1, Len(padded) - drop), LetterX)
                          [] Base(d) = 2  -> Put(SubSeq(padded, 1, Len(padded) - drop), LetterB)
                          [] OTHER        -> SubSeq(padded, 1, Len(padded) - drop)
            IN  Put(base, 0)
      BY DEF PutPrefix, drop, full
    <3> QED
      BY <3>3, <3>4, <3>5 DEF LetterOf, Bases
  <2> DEFINE hashed == IF "hash" \in Flags(d) /\ Magnitude(d) # 0 THEN PutPrefix(padded, d)
                       ELSE padded
  <2>4. Ntoa(d) = PutSign(hashed, d)
    BY DEF Ntoa, digits, NoDigits
  <2>5. ~Prefix(d) => prefixed = padded
    <3>1. padded \in Seq(Char) /\ Len(padded) \in Nat
      BY <1>2 DEF Buf
    <3> HIDE DEF padded
    <3>2. SubSeq(padded, 1, Len(padded) - 0) = padded
      BY <3>1
    <3>3. ~Prefix(d) => Dropped(d) = 0
      BY DEF Dropped
    <3> QED
      BY <3>2, <3>3
  <2>6. hashed = prefixed
    <3> HIDE DEF padded, prefixed
    <3> QED
      BY <2>3, <2>5 DEF Prefix
  <2> HIDE DEF hashed, prefixed
  <2> QED
    BY <2>4, <2>6 DEF PutSign, SignOf, HasSign
<1> HIDE DEF padded
<1>5. /\ kept \in Buf /\ Len(kept) = k
      /\ \A i \in 1..m : kept[i] = Digit(d, i)
      /\ \A i \in (m + 1)..k : kept[i] = 0
  <2>1. padded \in Seq(Char)
    BY <1>2 DEF Buf
  <2>2. k = Len(padded) - Dropped(d) /\ k <= Len(padded) /\ k \in Nat
    BY <1>2, <1>3 DEF Kept
  <2>3. kept \in Seq(Char) /\ Len(kept) = k /\ \A i \in 1..k : kept[i] = padded[i]
    BY <2>1, <2>2
  <2> HIDE DEF kept
  <2>4. \A i \in 1..m : i \in 1..k /\ i \in 1..Magnitudes(d)
    BY <1>1, <1>3
  <2>5. \A i \in (m + 1)..k : i \in 1..k /\ i \in (Magnitudes(d) + 1)..PaddedLength(d)
    <3>1. m = IF k < Magnitudes(d) THEN k ELSE Magnitudes(d)
      BY DEF KeptDigits
    <3> QED
      BY <1>1, <1>2, <1>3, <2>2, <3>1
  <2>6. kept \in Buf
    BY <1>3, <2>3 DEF Buf
  <2> QED
    BY <1>1, <1>2, <2>3, <2>4, <2>5, <2>6
<1> HIDE DEF kept
<1>6. LetterOf(d) \in Char /\ 0 \in Char /\ SignOf(d) \in Char
  BY CharsAre DEF LetterOf, SignOf
<1>7. k \in Nat
  BY <1>3
<1>8. /\ lettered \in Buf /\ Len(lettered) = k + x
      /\ \A i \in 1..k : lettered[i] = kept[i]
      /\ x = 1 => lettered[k + 1] = LetterOf(d)
  <2>1. CASE Prefix(d) /\ Base(d) # 8
    <3>1. x = IF k < BufferSize THEN 1 ELSE 0
      BY <2>1 DEF Letters
    <3> QED
      BY <1>5, <1>6, <1>7, <2>1, <3>1, PutIs
  <2>2. CASE ~(Prefix(d) /\ Base(d) # 8)
    <3>1. x = 0 /\ lettered = kept
      BY <2>2 DEF Letters
    <3> QED
      BY <1>5, <1>7, <3>1
  <2> QED
    BY <2>1, <2>2
<1> HIDE DEF lettered
<1>9. /\ prefixed \in Buf /\ Len(prefixed) = k + x + z
      /\ \A i \in 1..(k + x) : prefixed[i] = lettered[i]
      /\ z = 1 => prefixed[k + x + 1] = 0
  <2>0. k + x \in Nat
    BY <1>3
  <2>1. CASE Prefix(d)
    <3>1. z = IF k + x < BufferSize THEN 1 ELSE 0
      BY <2>1 DEF PrefixZeros
    <3> DEFINE n == k + x
    <3> HIDE DEF n
    <3>2. n \in Nat /\ n = Len(lettered) /\ (z = IF n < BufferSize THEN 1 ELSE 0)
      BY <1>8, <2>0, <3>1 DEF n
    <3>3. /\ prefixed \in Buf /\ Len(prefixed) = n + z
          /\ \A i \in 1..n : prefixed[i] = lettered[i]
          /\ z = 1 => prefixed[n + 1] = 0
      BY <1>6, <1>8, <2>1, <3>2, PutIs
    <3> HIDE DEF prefixed
    <3> QED
      BY <3>3 DEF n
  <2>2. CASE ~Prefix(d)
    <3>1. z = 0 /\ prefixed = lettered
      BY <2>2 DEF PrefixZeros
    <3> QED
      BY <1>8, <2>0, <3>1
  <2> QED
    BY <2>1, <2>2
<1> HIDE DEF prefixed
<1>10. /\ signed \in Buf /\ Len(signed) = k + x + z + Signs(d)
       /\ \A i \in 1..(k + x + z) : signed[i] = prefixed[i]
       /\ Signs(d) = 1 => signed[k + x + z + 1] = SignOf(d)
  <2>0. k + x + z \in Nat
    BY <1>3
  <2>1. CASE HasSign(d)
    <3>1. Signs(d) = IF k + x + z < BufferSize THEN 1 ELSE 0
      BY <2>1 DEF Signs
    <3> DEFINE n == k + x + z
    <3> HIDE DEF n
    <3>2. n \in Nat /\ n = Len(prefixed) /\ (Signs(d) = IF n < BufferSize THEN 1 ELSE 0)
      BY <1>9, <2>0, <3>1 DEF n
    <3>3. /\ signed \in Buf /\ Len(signed) = n + Signs(d)
          /\ \A i \in 1..n : signed[i] = prefixed[i]
          /\ Signs(d) = 1 => signed[n + 1] = SignOf(d)
      BY <1>6, <1>9, <2>1, <3>2, PutIs
    <3> HIDE DEF signed
    <3> QED
      BY <3>3 DEF n
  <2>2. CASE ~HasSign(d)
    <3>1. Signs(d) = 0 /\ signed = prefixed
      BY <2>2 DEF Signs
    <3> QED
      BY <1>9, <2>0, <3>1
  <2> QED
    BY <2>1, <2>2
<1> HIDE DEF signed
<1>11. /\ \A i \in 1..k : signed[i] = kept[i]
       /\ x = 1 => signed[k + 1] = lettered[k + 1]
       /\ z = 1 => signed[k + x + 1] = prefixed[k + x + 1]
  <2>1. \A i \in 1..k : i \in 1..(k + x) /\ i \in 1..(k + x + z)
    BY <1>3
  <2>2. x = 1 => k + 1 \in 1..(k + x) /\ k + 1 \in 1..(k + x + z)
    BY <1>3
  <2>3. z = 1 => k + x + 1 \in 1..(k + x + z)
    BY <1>3
  <2> QED
    BY <1>8, <1>9, <1>10, <2>1, <2>2, <2>3
<1>12. \A i \in 1..m : i \in 1..k
  BY <1>3
<1>13. \A i \in (m + 1)..k : i \in 1..k
  BY <1>3
<1> QED
  BY <1>4, <1>5, <1>8, <1>9, <1>10, <1>11, <1>12, <1>13

\* One text behind another.
LEMMA Concatenation ==
  ASSUME NEW u \in Seq(Char), NEW v \in Seq(Char), NEW m, NEW n, m = Len(u), n = Len(v)
  PROVE  /\ Len(u \o v) = m + n
         /\ \A i \in 1..m : (u \o v)[i] = u[i]
         /\ \A i \in (m + 1)..(m + n) : (u \o v)[i] = v[i - m]
<1>1. Len(u) \in Nat /\ Len(v) \in Nat
  OBVIOUS
<1>2. /\ Len(u \o v) = Len(u) + Len(v)
      /\ \A i \in 1..Len(u) : (u \o v)[i] = u[i]
      /\ \A i \in (Len(u) + 1)..(Len(u) + Len(v)) : (u \o v)[i] = v[i - Len(u)]
  OBVIOUS
<1> QED
  BY <1>2

(***************************************************************************)
(* The layout of the text: buf from its end to its start, between `a` and  *)
(* `c` spaces.                                                             *)
(***************************************************************************)
LEMMA TextLayout ==
  ASSUME NEW d \in Item, IsNumber(d)
  PROVE  \E a, c \in Nat :
           /\ Len(Text(d)) = a + Len(Ntoa(d)) + c
           /\ \A i \in 1..a : Text(d)[i] = Space
           /\ \A i \in 1..Len(Ntoa(d)) : Text(d)[a + i] = Ntoa(d)[Len(Ntoa(d)) - i + 1]
           /\ \A i \in (a + Len(Ntoa(d)) + 1)..Len(Text(d)) : Text(d)[i] = Space
           /\ a + c > 0 => Len(Text(d)) = NtoaWidth(d) /\ ~ZerosFillWidth(d)
           /\ ~ZerosFillWidth(d) => Len(Text(d)) >= NtoaWidth(d)
<1> DEFINE n == Len(Ntoa(d))
           rev == Reverse(Ntoa(d))
           w == NtoaWidth(d)
           gap == IF n < w THEN w - n ELSE 0
           fill == [i \in 1..gap |-> Space]
<1>1. Ntoa(d) \in Seq(Char) /\ n \in Nat
  BY NtoaLayout DEF Buf
<1>2. w \in Nat
  BY Fields
<1>3. rev \in Seq(Char) /\ Len(rev) = n /\ \A i \in 1..n : rev[i] = Ntoa(d)[n - i + 1]
  <2> DEFINE b == Ntoa(d)
  <2> HIDE DEF b
  <2>1. b \in Seq(Char) /\ n = Len(b)
    BY <1>1 DEF b
  <2>2. \A i \in 1..Len(b) : Len(b) - i + 1 \in 1..Len(b)
    BY <2>1
  <2>3. [i \in 1..Len(b) |-> b[Len(b) - i + 1]] \in Seq(Char)
    BY <2>1, <2>2
  <2>4. rev = [i \in 1..Len(b) |-> b[Len(b) - i + 1]]
    BY DEF Reverse, b
  <2> QED
    BY <2>1, <2>3, <2>4 DEF b
<1> HIDE DEF n, rev
<1>4. gap \in Nat /\ (gap > 0 => n + gap = w) /\ n + gap >= w
  BY <1>1, <1>2
<1>5. Fill(Space, Len(rev), w) = fill
  BY <1>3 DEF Fill
<1>6. /\ fill \in Seq(Char) /\ Len(fill) = gap /\ \A i \in 1..gap : fill[i] = Space
  <2> HIDE DEF gap
  <2> QED
    BY <1>4, CharsAre
<1>7. Text(d) = Pad(rev, w, Flags(d))
  BY DEF Text, rev, IsNumber, Integer
<1> HIDE DEF fill, gap, w
<1>8. CASE ZerosFillWidth(d)
  <2>1. Text(d) = rev
    BY <1>7, <1>8 DEF Pad, ZerosFillWidth
  <2> WITNESS 0 \in Nat, 0 \in Nat
  <2>2. \A i \in 1..n : 0 + i = i
    OBVIOUS
  <2> QED
    BY <1>1, <1>3, <1>8, <2>1, <2>2 DEF n
<1> DEFINE Spaced(a, c) ==
             /\ Len(Text(d)) = a + n + c
             /\ \A i \in 1..a : Text(d)[i] = Space
             /\ \A i \in 1..n : Text(d)[a + i] = Ntoa(d)[n - i + 1]
             /\ \A i \in (a + n + 1)..Len(Text(d)) : Text(d)[i] = Space
             /\ a + c > 0 => Len(Text(d)) = w /\ ~ZerosFillWidth(d)
             /\ ~ZerosFillWidth(d) => Len(Text(d)) >= w
<1>9. CASE "left" \in Flags(d)
  <2>1. Text(d) = rev \o fill
    BY <1>5, <1>7, <1>9 DEF Pad
  <2>2. /\ Len(rev \o fill) = n + gap
        /\ \A i \in 1..n : (rev \o fill)[i] = rev[i]
        /\ \A i \in (n + 1)..(n + gap) : (rev \o fill)[i] = fill[i - n]
    BY <1>3, <1>6, Concatenation
  <2>3. \A i \in (n + 1)..(n + gap) : i - n \in 1..gap
    BY <1>1, <1>4
  <2>4. ~ZerosFillWidth(d)
    BY <1>9 DEF ZerosFillWidth
  <2>5. 0 + n = n /\ n + gap \in Nat /\ \A i \in 1..n : 0 + i = i
    BY <1>1, <1>4
  <2>6. gap > 0 => n + gap = w
    BY <1>4
  <2>7. n + gap >= w /\ 0 + gap = gap
    BY <1>4
  <2>8. \A i \in 1..0 : Text(d)[i] = Space
    OBVIOUS
  <2>9. Spaced(0, gap)
    BY <1>3, <1>6, <2>1, <2>2, <2>3, <2>4, <2>5, <2>6, <2>7, <2>8
  <2> HIDE DEF Spaced
  <2>10. \E a, c \in Nat : Spaced(a, c)
    BY <1>4, <2>9
  <2> QED
    BY <2>10 DEF Spaced, n, w
<1>10. CASE ~ZerosFillWidth(d) /\ "left" \notin Flags(d)
  <2>1. Text(d) = fill \o rev
    BY <1>5, <1>7, <1>10 DEF Pad, ZerosFillWidth
  <2>2. /\ Len(fill \o rev) = gap + n
        /\ \A i \in 1..gap : (fill \o rev)[i] = fill[i]
        /\ \A i \in (gap + 1)..(gap + n) : (fill \o rev)[i] = rev[i - gap]
    BY <1>3, <1>6, Concatenation
  <2>3. \A i \in 1..n : gap + i \in (gap + 1)..(gap + n) /\ (gap + i) - gap = i
    BY <1>1, <1>4
  <2>4. /\ (gap + n + 1)..(gap + n) = {} /\ gap + n + 0 = gap + n /\ gap + 0 = gap
        /\ gap + n = n + gap
    BY <1>1, <1>4
  <2>5. Spaced(gap, 0)
    BY <1>3, <1>4, <1>6, <1>10, <2>1, <2>2, <2>3, <2>4
  <2> HIDE DEF Spaced
  <2>6. \E a, c \in Nat : Spaced(a, c)
    BY <1>4, <2>5
  <2> QED
    BY <2>6 DEF Spaced, n, w
<1> QED
  BY <1>8, <1>9, <1>10

(***************************************************************************)
(* The layout of a text, place by place: `a` spaces, the sign, the prefix, *)
(* zeros, the digits kept, and spaces to the end.                          *)
(***************************************************************************)
Layout(t, d, a) ==
  LET s == Signs(d)
      z == PrefixZeros(d)
      x == Letters(d)
      h == a + s + z + x
      m == KeptDigits(d)
      g == Kept(d) - m
  IN  /\ h + g + m <= Len(t)
      /\ \A i \in 1..a : t[i] = Space
      /\ s = 1 => t[a + 1] = SignOf(d)
      /\ z = 1 => t[a + s + 1] = 0
      /\ x = 1 => t[a + s + z + 1] = LetterOf(d)
      /\ \A i \in (h + 1)..(h + g) : t[i] = 0
      /\ \A j \in 1..m : t[h + g + j] = Quotients(Magnitude(d), Base(d))[m - j] % Base(d)
      /\ \A i \in (h + g + m + 1)..Len(t) : t[i] = Space
      /\ Len(t) > Signs(d) + z + x + Kept(d) => Len(t) = NtoaWidth(d) /\ ~ZerosFillWidth(d)
      /\ a > 0 => Len(t) > Signs(d) + z + x + Kept(d)
      /\ ~ZerosFillWidth(d) => Len(t) >= NtoaWidth(d)

LEMMA NumberLayout ==
  ASSUME NEW d \in Item, IsNumber(d)
  PROVE  \E a \in Nat : Layout(Text(d), d, a)
<1> DEFINE t == Text(d)
           b == Ntoa(d)
           s == Signs(d)
           z == PrefixZeros(d)
           x == Letters(d)
           k == Kept(d)
           m == KeptDigits(d)
           l == k + x + z + s
<1>1. /\ b \in Buf /\ Len(b) = l
      /\ \A i \in 1..m : b[i] = Digit(d, i)
      /\ \A i \in (m + 1)..k : b[i] = 0
      /\ x = 1 => b[k + 1] = LetterOf(d)
      /\ z = 1 => b[k + x + 1] = 0
      /\ s = 1 => b[k + x + z + 1] = SignOf(d)
  BY NtoaLayout
<1>2. /\ k \in Nat /\ m \in 0..k /\ x \in {0, 1} /\ z \in {0, 1} /\ s \in {0, 1}
      /\ l \in Nat
  BY LayoutSizes, Sizes
<1>3. PICK a \in Nat, c \in Nat :
           /\ Len(t) = a + Len(b) + c
           /\ \A i \in 1..a : t[i] = Space
           /\ \A i \in 1..Len(b) : t[a + i] = b[Len(b) - i + 1]
           /\ \A i \in (a + Len(b) + 1)..Len(t) : t[i] = Space
           /\ a + c > 0 => Len(t) = NtoaWidth(d) /\ ~ZerosFillWidth(d)
           /\ ~ZerosFillWidth(d) => Len(t) >= NtoaWidth(d)
  BY TextLayout
<1> DEFINE h == a + s + z + x
           g == k - m
<1> HIDE DEF t, b, s, z, x, k, m, l
<1>5. Len(t) = a + l + c /\ \A i \in 1..l : t[a + i] = b[l - i + 1]
  BY <1>1, <1>3
<1>6. l = k + x + z + s
  BY DEF l
<1>7. s = 1 => t[a + 1] = SignOf(d)
  <2> SUFFICES ASSUME s = 1 PROVE t[a + 1] = SignOf(d)
    OBVIOUS
  <2>1. 1 \in 1..l /\ l - 1 + 1 = k + x + z + 1
    BY <1>2, <1>6
  <2> QED
    BY <1>1, <1>5, <2>1
<1>8. z = 1 => t[a + s + 1] = 0
  <2> SUFFICES ASSUME z = 1 PROVE t[a + s + 1] = 0
    OBVIOUS
  <2>1. s + 1 \in 1..l /\ l - (s + 1) + 1 = k + x + 1 /\ a + (s + 1) = a + s + 1
    BY <1>2, <1>6
  <2>2. t[a + (s + 1)] = b[l - (s + 1) + 1]
    BY <1>5, <2>1
  <2> QED
    BY <1>1, <2>1, <2>2
<1>9. x = 1 => t[a + s + z + 1] = LetterOf(d)
  <2> SUFFICES ASSUME x = 1 PROVE t[a + s + z + 1] = LetterOf(d)
    OBVIOUS
  <2>1. s + z + 1 \in 1..l /\ l - (s + z + 1) + 1 = k + 1 /\ a + (s + z + 1) = a + s + z + 1
    BY <1>2, <1>6
  <2>2. t[a + (s + z + 1)] = b[l - (s + z + 1) + 1]
    BY <1>5, <2>1
  <2> QED
    BY <1>1, <2>1, <2>2
<1>10. \A i \in (h + 1)..(h + g) : t[i] = 0
  <2> TAKE i \in (h + 1)..(h + g)
  <2>1. /\ i - a \in 1..l /\ a + (i - a) = i
        /\ l - (i - a) + 1 \in (m + 1)..k
    BY <1>2, <1>6
  <2>2. t[a + (i - a)] = b[l - (i - a) + 1]
    BY <1>5, <2>1
  <2> QED
    BY <1>1, <2>1, <2>2
<1>11. \A j \in 1..m : t[h + g + j] = Quotients(Magnitude(d), Base(d))[m - j] % Base(d)
  <2> TAKE j \in 1..m
  <2> DEFINE e == s + z + x + g + j
  <2>1. /\ e \in 1..l /\ a + e = h + g + j
        /\ l - e + 1 = m - j + 1 /\ m - j + 1 \in 1..m
        /\ (m - j + 1) - 1 = m - j
    BY <1>2, <1>6
  <2> HIDE DEF e
  <2>2. t[a + e] = b[l - e + 1]
    BY <1>5, <2>1
  <2>3. b[m - j + 1] = Digit(d, m - j + 1)
    BY <1>1, <2>1
  <2>4. Digit(d, m - j + 1) = Quotients(Magnitude(d), Base(d))[(m - j + 1) - 1] % Base(d)
    BY DEF Digit
  <2> QED
    BY <2>1, <2>2, <2>3, <2>4
<1>12. \A i \in (h + g + m + 1)..Len(t) : t[i] = Space
  <2>1. h + g + m + 1 = a + l + 1 /\ Len(b) = l
    BY <1>1, <1>2, <1>6
  <2> QED
    BY <1>3, <2>1
<1>13. h + g + m <= Len(t)
  BY <1>2, <1>5, <1>6
<1>14. Len(t) > s + z + x + k => Len(t) = NtoaWidth(d) /\ ~ZerosFillWidth(d)
  <2>1. Len(t) > s + z + x + k => a + c > 0
    BY <1>2, <1>5, <1>6
  <2> QED
    BY <1>3, <2>1
<1>15. a > 0 => Len(t) > s + z + x + k
  BY <1>2, <1>5, <1>6
<1> QED
  BY <1>3, <1>7, <1>8, <1>9, <1>10, <1>11, <1>12, <1>13, <1>14, <1>15
     DEF Layout, t, s, z, x, k, m

-----------------------------------------------------------------------------
(***************************************************************************)
(* Within the limits of Fits nothing of a number is lost, and beyond them  *)
(* something is: a digit, a zero, its prefix, its sign, or its width.      *)
(***************************************************************************)

\* The sizes, one by one.
LEMMA SizesOf ==
  ASSUME NEW d \in Item, IsNumber(d)
  PROVE  /\ Magnitudes(d) \in Nat /\ Magnitudes(d) <= BufferSize
         /\ BufferSize \in Nat /\ BufferSize >= 1
         /\ Prefix(d) => Magnitudes(d) >= 1
         /\ Precision(d) \in Nat /\ NtoaWidth(d) \in Nat /\ Field(d) \in Nat
         /\ Kept(d) \in Nat /\ KeptDigits(d) \in Nat /\ PaddedLength(d) \in Nat
         /\ Magnitudes(d) <= PaddedLength(d) /\ PaddedLength(d) <= BufferSize
         /\ KeptDigits(d) <= Kept(d) /\ Kept(d) <= BufferSize
         /\ Letters(d) \in {0, 1} /\ PrefixZeros(d) \in {0, 1} /\ Signs(d) \in {0, 1}
         /\ Kept(d) + Letters(d) + PrefixZeros(d) + Signs(d) <= BufferSize
         /\ Dropped(d) \in {0, 1, 2}
  BY LayoutSizes, Sizes, Fields, FlagFacts

\* How long the digits with their zeros get.
LEMMA PaddedLengths ==
  ASSUME NEW d \in Item, IsNumber(d)
  PROVE  /\ PaddedLength(d) >= Magnitudes(d)
         /\ "left" \notin Flags(d) =>
              Precision(d) <= PaddedLength(d) \/ PaddedLength(d) = BufferSize
         /\ ZerosFillWidth(d) => NtoaWidth(d) <= PaddedLength(d) \/ PaddedLength(d) = BufferSize
         /\ \/ PaddedLength(d) = Magnitudes(d)
            \/ "left" \notin Flags(d) /\ d.dot /\ PaddedLength(d) <= Precision(d)
            \/ ZerosFillWidth(d) /\ PaddedLength(d) <= NtoaWidth(d)
<1>1. /\ Magnitudes(d) \in Nat /\ BufferSize \in Nat /\ Precision(d) \in Nat
      /\ NtoaWidth(d) \in Nat /\ Magnitudes(d) <= BufferSize
  BY SizesOf
<1>2. ~d.dot => Precision(d) = 0
  BY FlagFacts
<1> QED
  BY <1>1, <1>2 DEF PaddedLength, Larger, Room

LEMMA FitsKeeps ==
  ASSUME NEW d \in Item, IsNumber(d), Fits(d)
  PROVE  /\ KeptDigits(d) = Magnitudes(d)
         /\ HasSign(d) => Signs(d) = 1
         /\ Prefix(d) /\ Base(d) # 8 => Letters(d) = 1 /\ PrefixZeros(d) = 1
         /\ Prefix(d) /\ Base(d) = 8 => PrefixZeros(d) = 1 \/ Kept(d) > Magnitudes(d)
         /\ ZerosFillWidth(d) =>
              Kept(d) + Letters(d) + PrefixZeros(d) + Signs(d) >= Field(d)
         /\ "left" \notin Flags(d) => Precision(d) <= Kept(d)
<1> DEFINE M == Magnitudes(d)
           B == BufferSize
           P == Precision(d)
           F == Field(d)
           W == NtoaWidth(d)
           L == PaddedLength(d)
           sign == IF HasSign(d) THEN 1 ELSE 0
           zfw == ZerosFillWidth(d)
           left == "left" \in Flags(d)
           precise == IF left THEN 0 ELSE P
<1>1. /\ M \in Nat /\ M <= B /\ B \in Nat /\ B >= 1 /\ (Prefix(d) => M >= 1)
      /\ P \in Nat /\ W \in Nat /\ F \in Nat /\ L \in Nat /\ M <= L /\ L <= B
      /\ sign \in {0, 1} /\ precise \in Nat
  BY SizesOf
<1>2. /\ ~d.dot => P = 0
      /\ d.dot /\ zfw => Base(d) = 16
      /\ Prefix(d) => Base(d) \in {2, 8, 16}
      /\ Prefix(d) /\ Base(d) # 16 => sign = 0
      /\ W = IF zfw /\ F > 0 THEN F - sign ELSE F
      /\ zfw => ~left
  <2>1. Base(d) \in Bases
    BY Fields
  <2> QED
    BY <1>1, <2>1, FlagFacts DEF ZerosFillWidth, Bases
<1>3. /\ ~Prefix(d) => M + sign <= B /\ precise + sign <= B
      /\ Prefix(d) /\ Base(d) = 8 => M + 1 + sign <= B /\ precise + sign <= B
      /\ Prefix(d) /\ Base(d) # 8 => M + 2 + sign <= B /\ precise + 2 + sign <= B
  BY <1>1 DEF Fits, Larger, HasSign
<1>4. zfw => F + (IF ~Prefix(d) THEN 0 ELSE IF d.dot THEN 2 ELSE IF Base(d) = 2 THEN 1 ELSE 0) <= B
  BY DEF Fits
<1>5. Prefix(d) /\ ~d.dot => M # W /\ ~(Base(d) = 16 /\ zfw /\ M = W - 1)
  BY DEF Fits
<1>6. /\ L >= precise
      /\ zfw => W <= L
      /\ L = M \/ (d.dot /\ L <= precise) \/ (zfw /\ L <= W)
  <2>1. precise <= B /\ (zfw => W <= B)
    BY <1>1, <1>2, <1>3, <1>4
  <2>2. /\ ~left => P <= L \/ L = B
        /\ zfw => W <= L \/ L = B
        /\ L = M \/ (~left /\ d.dot /\ L <= P) \/ (zfw /\ L <= W)
    BY PaddedLengths
  <2> QED
    BY <1>1, <2>1, <2>2
<1>7. Kept(d) = L - Dropped(d)
  BY DEF Kept
<1>8. Dropped(d) = IF ~Prefix(d) \/ d.dot \/ L # W THEN 0
                   ELSE IF Base(d) = 16 /\ L > 1 THEN 2 ELSE 1
  BY DEF Dropped
<1>9. /\ KeptDigits(d) = IF Kept(d) < M THEN Kept(d) ELSE M
      /\ Letters(d) = IF Prefix(d) /\ Base(d) # 8 /\ Kept(d) < B THEN 1 ELSE 0
      /\ PrefixZeros(d) = IF Prefix(d) /\ Kept(d) + Letters(d) < B THEN 1 ELSE 0
      /\ Signs(d) = IF sign = 1 /\ Kept(d) + Letters(d) + PrefixZeros(d) < B THEN 1 ELSE 0
      /\ HasSign(d) => sign = 1
  BY DEF KeptDigits, Letters, PrefixZeros, Signs
<1> HIDE DEF M, B, P, F, W, L, sign, zfw, left, precise
<1>10. CASE ~Prefix(d)
  <2>1. Kept(d) = L /\ Letters(d) = 0 /\ PrefixZeros(d) = 0
    BY <1>1, <1>7, <1>8, <1>9, <1>10
  <2>2. L + sign <= B
    BY <1>1, <1>2, <1>3, <1>4, <1>6, <1>10
  <2> QED
    BY <1>1, <1>2, <1>6, <1>9, <1>10, <2>1, <2>2 DEF zfw, left, precise, B, M, P, F
<1>11. CASE Prefix(d) /\ d.dot
  <2>1. Kept(d) = L
    BY <1>1, <1>7, <1>8, <1>11
  <2> QED
    BY <1>1, <1>2, <1>3, <1>4, <1>6, <1>9, <1>11, <2>1 DEF zfw, left, precise, B, M, P, F
<1>12. CASE Prefix(d) /\ ~d.dot /\ L # W
  <2>1. Kept(d) = L
    BY <1>1, <1>7, <1>8, <1>12
  <2>2. L = M
    BY <1>1, <1>6, <1>12
  <2> QED
    BY <1>1, <1>2, <1>3, <1>4, <1>6, <1>9, <1>12, <2>1, <2>2 DEF zfw, left, precise, B, M, P, F
<1>13. CASE Prefix(d) /\ ~d.dot /\ L = W
  <2>1. zfw /\ M < W
    BY <1>1, <1>5, <1>6, <1>13
  <2>2. Kept(d) = IF Base(d) = 16 THEN W - 2 ELSE W - 1
    BY <1>1, <1>7, <1>8, <1>13, <2>1
  <2>3. F > 0 /\ W = F - sign
    BY <1>1, <1>2, <2>1
  <2> QED
    BY <1>1, <1>2, <1>3, <1>4, <1>5, <1>6, <1>9, <1>13, <2>1, <2>2, <2>3
       DEF zfw, left, precise, B, M, P, F
<1> QED
  BY <1>10, <1>11, <1>12, <1>13

LEMMA KeepsFits ==
  ASSUME NEW d \in Item, IsNumber(d),
         KeptDigits(d) = Magnitudes(d),
         Quotients(Magnitude(d), Base(d))[BufferSize] = 0,
         HasSign(d) => Signs(d) = 1,
         Prefix(d) /\ Base(d) # 8 => Letters(d) = 1 /\ PrefixZeros(d) = 1,
         Prefix(d) /\ Base(d) = 8 => PrefixZeros(d) = 1 \/ Kept(d) > Magnitudes(d),
         ZerosFillWidth(d) =>
           Kept(d) + Letters(d) + PrefixZeros(d) + Signs(d) >= Field(d),
         "left" \notin Flags(d) => Precision(d) <= Kept(d) + PrefixZeros(d)
  PROVE  Fits(d)
<1> DEFINE M == Magnitudes(d)
           B == BufferSize
           P == Precision(d)
           F == Field(d)
           W == NtoaWidth(d)
           L == PaddedLength(d)
           k == Kept(d)
           x == Letters(d)
           z == PrefixZeros(d)
           s == Signs(d)
           sign == IF HasSign(d) THEN 1 ELSE 0
           zfw == ZerosFillWidth(d)
           left == "left" \in Flags(d)
           precise == IF left THEN 0 ELSE P
<1>1. /\ M \in Nat /\ M <= B /\ B \in Nat /\ B >= 1 /\ (Prefix(d) => M >= 1)
      /\ P \in Nat /\ W \in Nat /\ F \in Nat /\ L \in Nat /\ M <= L /\ L <= B
      /\ k \in Nat /\ k + x + z + s <= B
      /\ x \in {0, 1} /\ z \in {0, 1} /\ s \in {0, 1}
      /\ sign \in {0, 1} /\ precise \in Nat
  BY SizesOf
<1>2. /\ ~d.dot => P = 0
      /\ d.dot /\ zfw => Base(d) = 16
      /\ Prefix(d) => Base(d) \in {2, 8, 16}
      /\ Prefix(d) /\ Base(d) # 16 => sign = 0
      /\ W = IF zfw /\ F > 0 THEN F - sign ELSE F
      /\ zfw => ~left
  <2>1. Base(d) \in Bases
    BY Fields
  <2> QED
    BY <1>1, <2>1, FlagFacts DEF ZerosFillWidth, Bases
<1>3. /\ ~left => P <= L \/ L = B
      /\ zfw => W <= L \/ L = B
      /\ L = M \/ (~left /\ d.dot /\ L <= P) \/ (zfw /\ L <= W)
  BY PaddedLengths
<1>4. k = L - Dropped(d)
  BY DEF Kept
<1>5. Dropped(d) = IF ~Prefix(d) \/ d.dot \/ L # W THEN 0
                   ELSE IF Base(d) = 16 /\ L > 1 THEN 2 ELSE 1
  BY DEF Dropped
<1>6. /\ M <= k
      /\ sign <= s
      /\ ~Prefix(d) => x = 0 /\ z = 0
      /\ Prefix(d) /\ Base(d) # 8 => x = 1 /\ z = 1
      /\ Prefix(d) /\ Base(d) = 8 => x = 0 /\ (z = 1 \/ k > M)
      /\ zfw => k + x + z + s >= F
      /\ precise <= k + z
  <2>1. KeptDigits(d) <= k
    BY SizesOf
  <2>2. ~Prefix(d) => x = 0 /\ z = 0
    BY DEF Letters, PrefixZeros
  <2>3. Base(d) = 8 => x = 0
    BY DEF Letters
  <2> QED
    BY <1>1, <2>1, <2>2, <2>3
<1>7. /\ (IF ~Prefix(d) THEN Larger(M, precise)
          ELSE IF Base(d) = 8 THEN Larger(M + 1, precise)
          ELSE Larger(M, precise) + 2) + sign <= B
      /\ zfw => F + (IF ~Prefix(d) THEN 0 ELSE IF d.dot THEN 2
                     ELSE IF Base(d) = 2 THEN 1 ELSE 0) <= B
      /\ Prefix(d) /\ ~d.dot => M # W /\ ~(Base(d) = 16 /\ zfw /\ M = W - 1)
  <2> HIDE DEF M, B, P, F, W, L, k, x, z, s, sign, zfw, left, precise
  <2>1. CASE ~Prefix(d)
    BY <1>1, <1>2, <1>6, <2>1 DEF Larger
  <2>2. CASE Prefix(d) /\ d.dot
    <3>1. k = L
      BY <1>1, <1>4, <1>5, <2>2
    <3>2. Base(d) # 8 => precise <= k
      BY <1>1, <1>3, <1>6, <2>2, <3>1 DEF precise
    <3> QED
      BY <1>1, <1>2, <1>3, <1>6, <2>2, <3>1, <3>2 DEF Larger
  <2>3. CASE Prefix(d) /\ ~d.dot
    <3>1. precise = 0
      BY <1>2, <2>3 DEF precise
    <3>2. M # W
      BY <1>1, <1>2, <1>3, <1>4, <1>5, <1>6, <2>3
    <3>3. ~(Base(d) = 16 /\ zfw /\ M = W - 1)
      BY <1>1, <1>2, <1>3, <1>4, <1>5, <1>6, <2>3
    <3>4. zfw /\ Base(d) = 2 => F + 1 <= B
      BY <1>1, <1>2, <1>3, <1>4, <1>5, <1>6, <2>3
    <3>5. zfw => F <= B
      BY <1>1, <1>6
    <3> QED
      BY <1>1, <1>2, <1>6, <2>3, <3>1, <3>2, <3>3, <3>4, <3>5 DEF Larger
  <2> QED
    BY <2>1, <2>2, <2>3
<1> QED
  BY <1>7 DEF Fits, HasSign

\* What stands at each place of a text.
LEMMA Places ==
  ASSUME NEW d \in Item, IsNumber(d), NEW a \in Nat, NEW t \in Seq(Char), Layout(t, d, a)
  PROVE  LET s == Signs(d)
             z == PrefixZeros(d)
             x == Letters(d)
             k == Kept(d)
             h == a + s + z + x
         IN  /\ h + k <= Len(t) /\ h \in Nat
             /\ \A i \in (h + 1)..(h + k) : IsDigit(t[i])
             /\ \A i \in (h + 1)..(h + k - KeptDigits(d)) : t[i] = 0
             /\ s = 1 => t[a + 1] = SignOf(d)
             /\ z = 1 => t[a + s + 1] = 0
             /\ x = 1 => t[a + s + z + 1] = LetterOf(d)
             /\ \A i \in 1..Len(t) :
                  \/ (i <= a \/ i > h + k) /\ t[i] = Space
                  \/ s = 1 /\ i = a + 1 /\ t[i] = SignOf(d)
                  \/ z = 1 /\ i = a + s + 1 /\ t[i] = 0
                  \/ x = 1 /\ i = a + s + z + 1 /\ t[i] = LetterOf(d)
                  \/ i \in (h + 1)..(h + k) /\ IsDigit(t[i])
<1> DEFINE s == Signs(d)
           z == PrefixZeros(d)
           x == Letters(d)
           k == Kept(d)
           m == KeptDigits(d)
           h == a + s + z + x
           g == k - m
           n == Len(t)
<1>1. /\ k \in Nat /\ m \in Nat /\ m <= k
      /\ s \in {0, 1} /\ z \in {0, 1} /\ x \in {0, 1}
  BY SizesOf
<1>2. n \in Nat
  OBVIOUS
<1>3. /\ h + g + m <= n
      /\ \A i \in 1..a : t[i] = Space
      /\ s = 1 => t[a + 1] = SignOf(d)
      /\ z = 1 => t[a + s + 1] = 0
      /\ x = 1 => t[a + s + z + 1] = LetterOf(d)
      /\ \A i \in (h + 1)..(h + g) : t[i] = 0
      /\ \A j \in 1..m : t[h + g + j] = Quotients(Magnitude(d), Base(d))[m - j] % Base(d)
      /\ \A i \in (h + g + m + 1)..n : t[i] = Space
  BY DEF Layout
<1>4. ASSUME NEW j \in 1..m
      PROVE  Quotients(Magnitude(d), Base(d))[m - j] % Base(d) \in 0..15
  <2> DEFINE q == Quotients(Magnitude(d), Base(d))
             base == Base(d)
  <2>1. m - j \in Nat /\ base \in Bases /\ q \in [Nat -> Nat]
    <3>1. m - j \in Nat
      BY <1>1, <1>4
    <3>2. Base(d) \in Bases /\ Magnitude(d) \in Nat
      BY Fields
    <3> QED
      BY <3>1, <3>2, QuotientsAre
  <2> HIDE DEF q, base, m
  <2>2. q[m - j] \in Nat
    BY <2>1
  <2>3. q[m - j] % base \in 0..(base - 1)
    BY <2>1, <2>2, Division
  <2>4. base - 1 \in 0..15
    BY <2>1 DEF Bases
  <2>5. q[m - j] % base \in 0..15
    <3> DEFINE digit == q[m - j] % base
    <3>1. digit \in 0..(base - 1)
      BY <2>3
    <3> HIDE DEF digit
    <3>2. digit \in 0..15
      BY <2>4, <3>1, SMTT(30)
    <3> QED
      BY <3>2 DEF digit
  <2> QED
    BY <2>5 DEF q, base
<1> HIDE DEF s, z, x, k, m, n
<1>5. \A i \in (h + 1)..(h + k) : IsDigit(t[i])
  <2> TAKE i \in (h + 1)..(h + k)
  <2>1. CASE i <= h + g
    BY <1>1, <1>3, <2>1 DEF IsDigit
  <2>2. CASE i > h + g
    <3>1. i - (h + g) \in 1..m /\ h + g + (i - (h + g)) = i
      BY <1>1, <2>2
    <3> QED
      BY <1>3, <1>4, <3>1 DEF IsDigit
  <2> QED
    BY <1>1, <2>1, <2>2
<1>6. /\ h + k <= n /\ h \in Nat
      /\ h + k - m = h + g
      /\ h + g + m = h + k
  BY <1>1, <1>3
<1>7. ASSUME NEW i \in 1..n
      PROVE  \/ (i <= a \/ i > h + k) /\ t[i] = Space
             \/ s = 1 /\ i = a + 1 /\ t[i] = SignOf(d)
             \/ z = 1 /\ i = a + s + 1 /\ t[i] = 0
             \/ x = 1 /\ i = a + s + z + 1 /\ t[i] = LetterOf(d)
             \/ i \in (h + 1)..(h + k) /\ IsDigit(t[i])
  <2>1. \/ i \in 1..a \/ i \in (h + k + 1)..n
        \/ s = 1 /\ i = a + 1
        \/ z = 1 /\ i = a + s + 1
        \/ x = 1 /\ i = a + s + z + 1
        \/ i \in (h + 1)..(h + k)
    BY <1>1, <1>2, <1>6, <1>7
  <2>2. i \in 1..a => i <= a
    OBVIOUS
  <2>3. i \in (h + k + 1)..n => i > h + k
    BY <1>1, <1>2, <1>6
  <2> QED
    BY <1>3, <1>5, <1>6, <2>1, <2>2, <2>3
<1> QED
  BY <1>3, <1>5, <1>6, <1>7 DEF s, z, x, k, m, n

\* The number read is the one converted if no digit is missing, else a lesser one.
LEMMA NumeralIs ==
  ASSUME NEW d \in Item, IsNumber(d), NEW a \in Nat, NEW t \in Seq(Char), Layout(t, d, a)
  PROVE  Numeral(t, Base(d)) = Magnitude(d)
           <=> Quotients(Magnitude(d), Base(d))[KeptDigits(d)] = 0
<1> DEFINE s == Signs(d)
           z == PrefixZeros(d)
           x == Letters(d)
           k == Kept(d)
           m == KeptDigits(d)
           h == a + s + z + x
           g == k - m
           n == Len(t)
           p == h + g
           base == Base(d)
           value == Magnitude(d)
<1>1. /\ k \in Nat /\ m \in Nat /\ m <= k
      /\ s \in {0, 1} /\ z \in {0, 1} /\ x \in {0, 1} /\ n \in Nat
  BY SizesOf
<1>2. base \in Bases /\ value \in Nat
  BY Fields
<1>3. /\ \A i \in 1..n :
           \/ (i <= a \/ i > h + k) /\ t[i] = Space
           \/ s = 1 /\ i = a + 1 /\ t[i] = SignOf(d)
           \/ z = 1 /\ i = a + s + 1 /\ t[i] = 0
           \/ x = 1 /\ i = a + s + z + 1 /\ t[i] = LetterOf(d)
           \/ i \in (h + 1)..(h + k) /\ IsDigit(t[i])
      /\ \A i \in (h + 1)..(h + k - m) : t[i] = 0
      /\ h + k <= n
  BY Places
<1>4. \A j \in 1..m : t[h + g + j] = Quotients(value, base)[m - j] % base
  BY DEF Layout
<1>5. ~IsDigit(Space) /\ ~IsDigit(SignOf(d)) /\ ~IsDigit(LetterOf(d))
  BY DEF IsDigit, Space, SignOf, LetterOf, Minus, Plus, LetterX, LetterB
<1>6. Numeral(t, base) = Readings(t, base)[n]
  BY DEF Numeral
<1> HIDE DEF s, z, x, k, m, n, base, value
<1>7. p \in Nat /\ p + m <= n /\ p + m = h + k /\ p = h + k - m
  BY <1>1, <1>3
<1>8. \A i \in 1..p : IsDigit(t[i]) => t[i] = 0
  <2> TAKE i \in 1..p
  <2>1. i \in 1..n /\ i <= h + k
    BY <1>1, <1>7
  <2>2. i \in (h + 1)..(h + k) => i \in (h + 1)..(h + k - m)
    BY <1>1, <1>7
  <2> QED
    BY <1>3, <1>5, <2>1, <2>2
<1>9. \A i \in (p + m + 1)..n : ~IsDigit(t[i])
  <2> TAKE i \in (p + m + 1)..n
  <2>1. i \in 1..n /\ i > h + k /\ ~(i <= a) /\ i \notin (h + 1)..(h + k)
        /\ (z = 1 => i # a + s + 1) /\ (s = 1 => i # a + 1) /\ (x = 1 => i # a + s + z + 1)
    BY <1>1, <1>7
  <2> QED
    BY <1>3, <1>5, <2>1
<1> HIDE DEF p
<1>10. \A j \in 1..m : t[p + j] = Quotients(value, base)[m - j] % base
  BY <1>4 DEF p
<1>11. /\ Quotients(value, base)[m] = 0 => Readings(t, base)[n] = value
       /\ Quotients(value, base)[m] # 0 => Readings(t, base)[n] < value
  <2>1. p \in Nat /\ m \in Nat /\ n \in Nat /\ p + m <= n
    BY <1>1, <1>7
  <2> QED
    BY <1>2, <1>8, <1>9, <1>10, <2>1, ReadsBack, ZenonT(60)
<1> QED
  BY <1>2, <1>6, <1>11 DEF base, value, m

\* No digit is missing if each that the number has is kept and there was room for it.
LEMMA LastQuotient ==
  ASSUME NEW d \in Item, IsNumber(d)
  PROVE  Quotients(Magnitude(d), Base(d))[KeptDigits(d)] = 0
           <=> /\ KeptDigits(d) = Magnitudes(d)
               /\ Quotients(Magnitude(d), Base(d))[BufferSize] = 0
<1> DEFINE q == Quotients(Magnitude(d), Base(d))
           m == KeptDigits(d)
           M == Magnitudes(d)
           r == Rounds(Magnitude(d), Base(d))
<1>1. Magnitude(d) \in Nat /\ Base(d) \in Bases
  BY Fields
<1>2. /\ m \in Nat /\ M \in Nat /\ m <= M /\ M <= BufferSize /\ BufferSize \in Nat
      /\ m <= BufferSize
  BY LayoutSizes, SizesOf
<1>3. /\ r \in 1..BufferSize
      /\ \A n \in 1..(r - 1) : q[n] # 0
      /\ r < BufferSize => q[r] = 0
  BY <1>1, RoundsAre
<1>4. ~NoDigits(d) => M = r
  BY MagnitudesAre
<1>5. NoDigits(d) => M = 0 /\ Magnitude(d) = 0
  BY DEF NoDigits, Magnitudes
<1>6. q[0] = Magnitude(d)
  BY <1>1, QuotientsAre
<1>7. ~Prefix(d) => m = M
  <2>1. ~Prefix(d) => Kept(d) = PaddedLength(d)
    BY SizesOf DEF Kept, Dropped
  <2>2. M <= PaddedLength(d) /\ PaddedLength(d) \in Nat
    BY SizesOf
  <2> QED
    BY <1>2, <2>1, <2>2 DEF KeptDigits
<1>8. Prefix(d) => Magnitude(d) # 0
  BY DEF Prefix
<1>9. ASSUME q[m] = 0 PROVE m = M /\ q[BufferSize] = 0
  <2>1. q[BufferSize] = 0
    BY <1>1, <1>2, <1>9, NothingIsLeft
  <2> HIDE DEF q, m, M, r
  <2>2. ~(m < M)
    <3>1. SUFFICES ASSUME m < M PROVE FALSE
      OBVIOUS
    <3>2. M = r
      BY <1>2, <1>4, <1>5, <3>1
    <3>3. m # 0
      BY <1>6, <1>7, <1>8, <1>9, <3>1
    <3>4. m \in 1..(r - 1)
      BY <1>2, <3>1, <3>2, <3>3
    <3> QED
      BY <1>3, <1>9, <3>4
  <2> QED
    BY <1>2, <2>1, <2>2
<1>10. ASSUME m = M, q[BufferSize] = 0 PROVE q[m] = 0
  <2> HIDE DEF q, m, M, r
  <2>1. CASE NoDigits(d)
    BY <1>5, <1>6, <1>10, <2>1
  <2>2. CASE ~NoDigits(d)
    BY <1>2, <1>3, <1>4, <1>10, <2>2
  <2> QED
    BY <2>1, <2>2
<1> QED
  BY <1>9, <1>10

\* The magnitude is the argument without its sign.
LEMMA MagnitudeIs ==
  ASSUME NEW d \in Item, IsNumber(d)
  PROVE  /\ Argument(d) \in Int /\ Magnitude(d) \in Nat
         /\ Negative(d) => Argument(d) < 0 /\ Magnitude(d) = -Argument(d)
         /\ ~Negative(d) => Argument(d) >= 0 /\ Magnitude(d) = Argument(d)
<1> DEFINE m == Modulus[d.length]
           u == Head(d.arg) % m
           v == Argument(d)
<1>1. m \in Nat /\ m > 0
  <2>1. d.length \in Length
    BY DEF Item
  <2> QED
    BY <2>1, PrintfAssumption
<1>2. u \in Int /\ 0 <= u /\ u < m
  <2>1. Head(d.arg) \in Int
    BY DEF Item
  <2> QED
    BY <1>1, <2>1
<1>3. v = u \/ (2 * u >= m /\ v = u - m)
  BY DEF Argument
<1>4. Magnitude(d) = IF v > 0 THEN v ELSE (0 - v) % m
  BY DEF Magnitude
<1>5. Negative(d) <=> v < 0
  BY DEF Negative
<1> HIDE DEF m, u, v
<1>6. v \in Int /\ -m < v /\ v < m
  BY <1>1, <1>2, <1>3
<1>7. v <= 0 => (0 - v) % m = -v
  <2> DEFINE w == 0 - v
  <2>1. v <= 0 => w \in Nat /\ w < m
    BY <1>1, <1>6
  <2> HIDE DEF w
  <2>2. w \in Nat /\ w < m => w % m = w
    BY <1>1
  <2> QED
    BY <1>6, <2>1, <2>2 DEF w
<1>8. /\ v < 0 => Magnitude(d) = -v
      /\ v >= 0 => Magnitude(d) = v
  BY <1>4, <1>6, <1>7
<1> QED
  BY <1>5, <1>6, <1>8, Fields DEF v

\* The sign is shown if there was room for it, in front of all but spaces.
LEMMA SignsAreShown ==
  ASSUME NEW d \in Item, IsNumber(d), NEW a \in Nat, NEW t \in Seq(Char), Layout(t, d, a)
  PROVE  /\ Minus \in Range(t) <=> Negative(d) /\ Signs(d) = 1
         /\ ~Negative(d) /\ "plus" \in Flags(d) => (Plus \in Range(t) <=> Signs(d) = 1)
         /\ \A j \in DOMAIN t : t[j] \in {Minus, Plus} => \A i \in 1..(j - 1) : t[i] = Space
         /\ Len(t) > Field(d) => Space \notin Range(t) \/ "space" \in Flags(d)
<1> DEFINE s == Signs(d)
           z == PrefixZeros(d)
           x == Letters(d)
           k == Kept(d)
           h == a + s + z + x
           n == Len(t)
<1>1. /\ k \in Nat /\ n \in Nat /\ DOMAIN t = 1..n
      /\ s \in {0, 1} /\ z \in {0, 1} /\ x \in {0, 1}
  BY SizesOf
<1>2. /\ \A i \in 1..n :
           \/ (i <= a \/ i > h + k) /\ t[i] = Space
           \/ s = 1 /\ i = a + 1 /\ t[i] = SignOf(d)
           \/ z = 1 /\ i = a + s + 1 /\ t[i] = 0
           \/ x = 1 /\ i = a + s + z + 1 /\ t[i] = LetterOf(d)
           \/ i \in (h + 1)..(h + k) /\ IsDigit(t[i])
      /\ s = 1 => t[a + 1] = SignOf(d)
      /\ h + k <= n
  BY Places
<1>3. /\ \A i \in 1..a : t[i] = Space
      /\ n > s + z + x + k => n = NtoaWidth(d) /\ ~ZerosFillWidth(d)
      /\ a > 0 => n > s + z + x + k
  BY DEF Layout
<1>4. s = 1 => HasSign(d)
  BY DEF Signs
<1>5. /\ ~IsDigit(Minus) /\ ~IsDigit(Plus) /\ ~IsDigit(Space) /\ LetterOf(d) \notin {Minus, Plus, Space}
      /\ Minus # Plus /\ Minus # Space /\ Plus # Space /\ 0 \notin {Minus, Plus, Space}
  BY DEF IsDigit, Minus, Plus, Space, LetterOf, LetterX, LetterB
<1>6. /\ SignOf(d) \in {Minus, Plus, Space}
      /\ SignOf(d) = Minus <=> Negative(d)
      /\ SignOf(d) = Plus <=> ~Negative(d) /\ "plus" \in Flags(d)
  BY <1>5 DEF SignOf
<1>7. NtoaWidth(d) \in Nat /\ Field(d) \in Nat /\ (~ZerosFillWidth(d) => NtoaWidth(d) = Field(d))
  BY FlagFacts, Fields
<1> HIDE DEF s, z, x, k, n
<1>8. s = 1 => a + 1 \in 1..n
  BY <1>1, <1>2
<1>9. \A i \in 1..n : t[i] \in {Minus, Plus} => s = 1 /\ i = a + 1 /\ t[i] = SignOf(d)
  BY <1>2, <1>5
<1>10. Range(t) = {t[i] : i \in 1..n}
  BY <1>1 DEF Range
<1>11. Minus \in Range(t) <=> Negative(d) /\ s = 1
  BY <1>2, <1>6, <1>8, <1>9, <1>10
<1>12. ~Negative(d) /\ "plus" \in Flags(d) => (Plus \in Range(t) <=> s = 1)
  BY <1>2, <1>6, <1>8, <1>9, <1>10
<1>13. \A j \in 1..n : t[j] \in {Minus, Plus} => \A i \in 1..(j - 1) : t[i] = Space
  <2> SUFFICES ASSUME NEW j \in 1..n, t[j] \in {Minus, Plus}, NEW i \in 1..(j - 1)
               PROVE  t[i] = Space
    OBVIOUS
  <2>1. i \in 1..a
    BY <1>1, <1>9
  <2> QED
    BY <1>3, <2>1
<1>14. n > Field(d) /\ Space \in Range(t) => "space" \in Flags(d)
  <2> SUFFICES ASSUME n > Field(d), NEW i \in 1..n, t[i] = Space
               PROVE  "space" \in Flags(d)
    BY <1>10
  <2>1. ~(n > s + z + x + k)
    BY <1>1, <1>3, <1>7
  <2>2. ~(i <= a \/ i > h + k)
    BY <1>1, <1>2, <1>3, <2>1
  <2>3. s = 1 /\ SignOf(d) = Space
    BY <1>2, <1>5, <2>2
  <2>4. "plus" \notin Flags(d) /\ ~Negative(d)
    BY <1>5, <1>6, <2>3
  <2> QED
    BY <1>4, <2>3, <2>4 DEF HasSign
<1> QED
  BY <1>1, <1>11, <1>12, <1>13, <1>14 DEF s, n

\* The digits shown are those kept and the zero of a prefix.
LEMMA DigitsAreShown ==
  ASSUME NEW d \in Item, IsNumber(d), NEW a \in Nat, NEW t \in Seq(Char), Layout(t, d, a)
  PROVE  /\ Cardinality(DigitPlaces(t)) \in Nat
         /\ Kept(d) <= Cardinality(DigitPlaces(t))
         /\ Cardinality(DigitPlaces(t)) <= Kept(d) + PrefixZeros(d)
         /\ \A j \in DigitPlaces(t) : j >= a + Signs(d) + 1
         /\ PrefixZeros(d) = 0 =>
              \A j \in DigitPlaces(t) : j >= a + Signs(d) + Letters(d) + 1
<1> DEFINE s == Signs(d)
           z == PrefixZeros(d)
           x == Letters(d)
           k == Kept(d)
           h == a + s + z + x
           n == Len(t)
           P == DigitPlaces(t)
           I == (h + 1)..(h + k)
           J == I \cup {a + s + 1}
<1>1. /\ k \in Nat /\ n \in Nat /\ DOMAIN t = 1..n
      /\ s \in {0, 1} /\ z \in {0, 1} /\ x \in {0, 1}
  BY SizesOf
<1>2. /\ \A i \in 1..n :
           \/ (i <= a \/ i > h + k) /\ t[i] = Space
           \/ s = 1 /\ i = a + 1 /\ t[i] = SignOf(d)
           \/ z = 1 /\ i = a + s + 1 /\ t[i] = 0
           \/ x = 1 /\ i = a + s + z + 1 /\ t[i] = LetterOf(d)
           \/ i \in (h + 1)..(h + k) /\ IsDigit(t[i])
      /\ \A i \in (h + 1)..(h + k) : IsDigit(t[i])
      /\ h + k <= n
  BY Places
<1>3. ~IsDigit(Space) /\ ~IsDigit(SignOf(d)) /\ ~IsDigit(LetterOf(d))
  BY DEF IsDigit, Space, SignOf, LetterOf, Minus, Plus, LetterX, LetterB
<1>4. P = {i \in 1..n : IsDigit(t[i])}
  BY <1>1 DEF DigitPlaces
<1> HIDE DEF s, z, x, k, n, P
<1>5. I \subseteq P
  BY <1>1, <1>2, <1>4
<1>6. P \subseteq J /\ (z = 0 => P \subseteq I)
  BY <1>1, <1>2, <1>3, <1>4
<1>7. IsFiniteSet(I) /\ Cardinality(I) = k
  <2>1. h + 1 \in Int /\ h + k \in Int
    BY <1>1
  <2>2. h + 1 <= h + k => (h + k) - (h + 1) + 1 = k
    BY <1>1
  <2>3. h + 1 > h + k => k = 0
    BY <1>1
  <2> QED
    BY <2>1, <2>2, <2>3, FS_Interval
<1>8. IsFiniteSet(J) /\ Cardinality(J) \in Nat /\ Cardinality(J) <= k + 1
  <2> HIDE DEF I
  <2>1. IsFiniteSet(J) /\ Cardinality(J) = IF a + s + 1 \in I THEN Cardinality(I) ELSE Cardinality(I) + 1
    BY <1>7, FS_AddElement
  <2> QED
    BY <1>1, <1>7, <2>1
<1>9. IsFiniteSet(P) /\ Cardinality(P) \in Nat
  BY <1>6, <1>8, FS_Subset, FS_CardinalityType
<1>10. Cardinality(I) <= Cardinality(P)
  BY <1>5, <1>9, FS_Subset
<1>11. Cardinality(P) <= Cardinality(J) /\ (z = 0 => Cardinality(P) <= Cardinality(I))
  BY <1>6, <1>7, <1>8, FS_Subset
<1>12. Cardinality(P) <= k + z
  <2> HIDE DEF I, J
  <2> QED
    BY <1>1, <1>7, <1>8, <1>9, <1>11
<1>13. \A j \in P : j >= a + s + 1
  BY <1>1, <1>6
<1>14. z = 0 => \A j \in P : j >= a + s + x + 1
  BY <1>1, <1>6
<1> QED
  BY <1>7, <1>9, <1>10, <1>12, <1>13, <1>14 DEF s, z, x, k, P

\* A prefix of a letter is shown if there was room for both its characters.
LEMMA LetterIsShown ==
  ASSUME NEW d \in Item, IsNumber(d), NEW a \in Nat, NEW t \in Seq(Char), Layout(t, d, a),
         Prefix(d), Base(d) # 8
  PROVE  (\E j \in 2..Len(t) :
            /\ t[j - 1] = 0 /\ t[j] = (IF Base(d) = 16 THEN LetterX ELSE LetterB)
            /\ \A i \in 1..(j - 2) : t[i] \in {Space, Plus})
           <=> Letters(d) = 1 /\ PrefixZeros(d) = 1
<1> DEFINE s == Signs(d)
           z == PrefixZeros(d)
           x == Letters(d)
           k == Kept(d)
           h == a + s + z + x
           n == Len(t)
           letter == LetterOf(d)
           Shown(j) == /\ t[j - 1] = 0 /\ t[j] = letter
                       /\ \A i \in 1..(j - 2) : t[i] \in {Space, Plus}
<1>1. /\ k \in Nat /\ n \in Nat
      /\ s \in {0, 1} /\ z \in {0, 1} /\ x \in {0, 1}
  BY SizesOf
<1>2. /\ \A i \in 1..n :
           \/ (i <= a \/ i > h + k) /\ t[i] = Space
           \/ s = 1 /\ i = a + 1 /\ t[i] = SignOf(d)
           \/ z = 1 /\ i = a + s + 1 /\ t[i] = 0
           \/ x = 1 /\ i = a + s + z + 1 /\ t[i] = letter
           \/ i \in (h + 1)..(h + k) /\ IsDigit(t[i])
      /\ s = 1 => t[a + 1] = SignOf(d)
      /\ z = 1 => t[a + s + 1] = 0
      /\ x = 1 => t[a + s + z + 1] = letter
      /\ h + k <= n
  BY Places
<1>3. \A i \in 1..a : t[i] = Space
  BY DEF Layout
<1>4. letter = IF Base(d) = 16 THEN LetterX ELSE LetterB
  BY DEF LetterOf
<1>5. s = 1 => SignOf(d) \in {Space, Plus}
  <2>1. s = 1 => HasSign(d)
    BY DEF Signs
  <2>2. HasSign(d) => ~Negative(d)
    BY FlagFacts
  <2> QED
    BY <2>1, <2>2 DEF SignOf
<1>6. /\ ~IsDigit(letter) /\ letter \notin {0, Space, Plus}
      /\ Space # 0 /\ Plus # 0
  BY DEF IsDigit, Plus, Space, LetterOf, LetterX, LetterB
<1> HIDE DEF s, z, x, k, n, letter
<1>7. ASSUME x = 1, z = 1 PROVE \E j \in 2..n : Shown(j)
  <2>1. h \in 2..n /\ h - 1 = a + s + 1 /\ h = a + s + z + 1 /\ h - 2 = a + s
    BY <1>1, <1>2, <1>7
  <2>2. \A i \in 1..(h - 2) : i \in 1..a \/ (s = 1 /\ i = a + 1)
    BY <1>1, <2>1
  <2>3. Shown(h)
    BY <1>2, <1>3, <1>5, <1>7, <2>1, <2>2
  <2> HIDE DEF Shown
  <2> QED
    BY <2>1, <2>3
<1>8. ASSUME NEW j \in 2..n, Shown(j) PROVE x = 1 /\ z = 1
  <2>1. j \in 1..n /\ j - 1 \in 1..n
    BY <1>1
  <2>2. x = 1 /\ j = a + s + z + 1
    BY <1>2, <1>5, <1>6, <1>8, <2>1
  <2>3. ~(z = 0)
    <3> SUFFICES ASSUME z = 0 PROVE FALSE
      OBVIOUS
    <3>1. j - 1 \in 1..a \/ (s = 1 /\ j - 1 = a + 1)
      BY <1>1, <2>2
    <3> QED
      BY <1>2, <1>3, <1>5, <1>6, <1>8, <3>1
  <2> QED
    BY <1>1, <2>2, <2>3
<1>9. (\E j \in 2..n : Shown(j)) <=> x = 1 /\ z = 1
  <2> HIDE DEF Shown
  <2> QED
    BY <1>7, <1>8
<1> QED
  BY <1>4, <1>9 DEF n, x, z

\* The octal prefix is shown: a zero of its own, or one of the precision.
LEMMA OctalIsShown ==
  ASSUME NEW d \in Item, IsNumber(d), NEW a \in Nat, NEW t \in Seq(Char), Layout(t, d, a),
         Prefix(d), Base(d) = 8,
         KeptDigits(d) = Magnitudes(d),
         Quotients(Magnitude(d), Base(d))[KeptDigits(d)] = 0
  PROVE  (\E j \in DigitPlaces(t) : t[j] = 0 /\ \A i \in DigitPlaces(t) : j <= i)
           <=> PrefixZeros(d) = 1 \/ Kept(d) > Magnitudes(d)
<1> DEFINE s == Signs(d)
           z == PrefixZeros(d)
           k == Kept(d)
           m == KeptDigits(d)
           n == Len(t)
           P == DigitPlaces(t)
           First(j) == t[j] = 0 /\ \A i \in P : j <= i
           q == Quotients(Magnitude(d), Base(d))
<1>1. /\ k \in Nat /\ m \in Nat /\ m <= k /\ n \in Nat /\ DOMAIN t = 1..n
      /\ s \in {0, 1} /\ z \in {0, 1} /\ m = Magnitudes(d) /\ m >= 1
  BY SizesOf
<1>2. Letters(d) = 0
  BY DEF Letters
<1>3. /\ a + s + z + 0 + k <= n
      /\ \A i \in (a + s + z + 0 + 1)..(a + s + z + 0 + k) : IsDigit(t[i])
      /\ \A i \in (a + s + z + 0 + 1)..(a + s + z + 0 + k - m) : t[i] = 0
      /\ z = 1 => t[a + s + 1] = 0
  BY <1>2, Places
<1>4. \A j \in P : j >= a + s + 1
  BY DigitsAreShown
<1>5. P = {i \in 1..n : IsDigit(t[i])}
  BY <1>1 DEF DigitPlaces
<1>6. z = 0 /\ k = m => t[a + s + 1] = q[m - 1] % 8
  <2>1. \A j \in 1..m : t[a + s + z + 0 + (k - m) + j] = q[m - j] % Base(d)
    BY <1>2 DEF Layout
  <2> HIDE DEF s, z, k, m, q
  <2>2. 1 \in 1..m /\ (z = 0 /\ k = m => a + s + z + 0 + (k - m) + 1 = a + s + 1)
    BY <1>1
  <2> QED
    BY <2>1, <2>2
<1>7. q[m - 1] % 8 # 0
  <2>1. Magnitude(d) \in Nat /\ Base(d) \in Bases /\ Magnitude(d) # 0 /\ m = Rounds(Magnitude(d), Base(d))
    <3>1. ~NoDigits(d)
      BY FlagFacts
    <3> QED
      BY <3>1, Fields, MagnitudesAre DEF Prefix
  <2>2. /\ q \in [Nat -> Nat] /\ q[0] = Magnitude(d)
        /\ \A i \in Nat : q[i + 1] = q[i] \div Base(d)
    BY <2>1, QuotientsAre
  <2>3. \A i \in 1..(m - 1) : q[i] # 0
    BY <2>1, RoundsAre
  <2> HIDE DEF q, m
  <2>4. m - 1 \in Nat /\ (m - 1) + 1 = m
    BY <1>1
  <2>5. q[m - 1] # 0
    <3>1. m - 1 = 0 \/ m - 1 \in 1..(m - 1)
      BY <1>1
    <3> QED
      BY <2>1, <2>2, <2>3, <3>1
  <2>6. q[m - 1] \div 8 = 0
    <3>1. q[m] = 0
      BY DEF q, m
    <3> QED
      BY <2>2, <2>4, <3>1
  <2>7. q[m - 1] \in Nat
    BY <2>2, <2>4
  <2> DEFINE v == q[m - 1]
  <2>8. v \in Nat /\ v # 0 /\ v \div 8 = 0
    BY <2>5, <2>6, <2>7
  <2> HIDE DEF v
  <2>9. v % 8 # 0
    BY <2>8
  <2> QED
    BY <2>9 DEF v
<1> HIDE DEF s, z, k, m, n, P, q
<1>8. a + s + 1 \in P
  <2>1. CASE z = 1
    <3>1. a + s + 1 \in 1..n /\ t[a + s + 1] = 0
      BY <1>1, <1>3, <2>1
    <3> QED
      BY <1>5, <3>1 DEF IsDigit
  <2>2. CASE z = 0
    <3>1. a + s + 1 \in (a + s + z + 0 + 1)..(a + s + z + 0 + k) /\ a + s + 1 \in 1..n
      BY <1>1, <1>3, <2>2
    <3> QED
      BY <1>3, <1>5, <3>1
  <2> QED
    BY <1>1, <2>1, <2>2
<1>9. ASSUME NEW j \in P, First(j) PROVE j = a + s + 1
  <2>1. j <= a + s + 1 /\ j >= a + s + 1 /\ j \in Int
    BY <1>4, <1>5, <1>8, <1>9
  <2> QED
    BY <1>1, <2>1
<1>10. t[a + s + 1] = 0 <=> z = 1 \/ k > m
  <2>1. CASE z = 1
    BY <1>3, <2>1
  <2>2. CASE z = 0 /\ k > m
    <3>1. a + s + 1 \in (a + s + z + 0 + 1)..(a + s + z + 0 + k - m)
      BY <1>1, <2>2
    <3> QED
      BY <1>3, <2>2, <3>1
  <2>3. CASE z = 0 /\ k = m
    BY <1>1, <1>6, <1>7, <2>3
  <2> QED
    BY <1>1, <2>1, <2>2, <2>3
<1>11. t[a + s + 1] = 0 => First(a + s + 1)
  BY <1>4
<1>12. (\E j \in P : First(j)) <=> t[a + s + 1] = 0
  BY <1>8, <1>9, <1>11
<1> QED
  BY <1>1, <1>10, <1>12 DEF P, z, k

\* The text is as wide as asked, unless zeros that should fill the width are missing.
LEMMA WidthIs ==
  ASSUME NEW d \in Item, IsNumber(d), NEW a \in Nat, NEW t \in Seq(Char), Layout(t, d, a)
  PROVE  Len(t) >= Field(d)
           <=> (ZerosFillWidth(d) =>
                  Kept(d) + Letters(d) + PrefixZeros(d) + Signs(d) >= Field(d))
<1>1. /\ Kept(d) \in Nat /\ KeptDigits(d) \in Nat /\ Len(t) \in Nat
      /\ Signs(d) \in {0, 1} /\ PrefixZeros(d) \in {0, 1} /\ Letters(d) \in {0, 1}
      /\ Field(d) \in Nat
  BY SizesOf
<1>2. a + Signs(d) + PrefixZeros(d) + Letters(d) + Kept(d) <= Len(t)
  BY Places
<1>3. /\ Len(t) > Signs(d) + PrefixZeros(d) + Letters(d) + Kept(d) => ~ZerosFillWidth(d)
      /\ ~ZerosFillWidth(d) => Len(t) >= NtoaWidth(d)
  BY DEF Layout
<1>4. ~ZerosFillWidth(d) => NtoaWidth(d) = Field(d)
  BY FlagFacts
<1> DEFINE shown == Kept(d) + Letters(d) + PrefixZeros(d) + Signs(d)
           n == Len(t)
<1>5. shown \in Nat /\ n \in Nat /\ shown <= n /\ (n > shown => ~ZerosFillWidth(d))
  BY <1>1, <1>2, <1>3, SMTT(30)
<1> HIDE DEF shown, n
<1>6. n >= Field(d) <=> (ZerosFillWidth(d) => shown >= Field(d))
  BY <1>1, <1>3, <1>4, <1>5 DEF n
<1> QED
  BY <1>6 DEF n, shown

(***************************************************************************)
(* A number that fits reads back, and one that does not fit does not.      *)
(***************************************************************************)
LEMMA NumbersReadBack ==
  ASSUME NEW d \in Item, IsNumber(d)
  PROVE  /\ Fits(d) => DenotesNumber(Text(d), d)
         /\ DenotesNumber(Text(d), d) => Fits(d) \/ SpaceAsSign(d)
<1> DEFINE t == Text(d)
           q == Quotients(Magnitude(d), Base(d))
           digits == Cardinality(DigitPlaces(t))
           shown == Kept(d) + Letters(d) + PrefixZeros(d) + Signs(d)
           Octal == \E j \in DigitPlaces(t) : t[j] = 0 /\ \A i \in DigitPlaces(t) : j <= i
           Letter == \E j \in 2..Len(t) :
                       /\ t[j - 1] = 0 /\ t[j] = (IF Base(d) = 16 THEN LetterX ELSE LetterB)
                       /\ \A i \in 1..(j - 2) : t[i] \in {Space, Plus}
<1>1. t \in Seq(Char)
  BY TextIsText
<1>2. PICK a \in Nat : Layout(t, d, a)
  BY NumberLayout
<1> HIDE DEF t
<1>3. Numeral(t, Base(d)) = Magnitude(d)
        <=> KeptDigits(d) = Magnitudes(d) /\ q[BufferSize] = 0
  BY <1>1, <1>2, NumeralIs, LastQuotient
<1>4. /\ Minus \in Range(t) <=> Negative(d) /\ Signs(d) = 1
      /\ ~Negative(d) /\ "plus" \in Flags(d) => (Plus \in Range(t) <=> Signs(d) = 1)
      /\ \A j \in DOMAIN t : t[j] \in {Minus, Plus} => \A i \in 1..(j - 1) : t[i] = Space
      /\ Len(t) > Field(d) => Space \notin Range(t) \/ "space" \in Flags(d)
  BY <1>1, <1>2, SignsAreShown
<1>5. /\ digits \in Nat /\ Kept(d) <= digits /\ digits <= Kept(d) + PrefixZeros(d)
  BY <1>1, <1>2, DigitsAreShown
<1>6. Prefix(d) /\ Base(d) # 8 => (Letter <=> Letters(d) = 1 /\ PrefixZeros(d) = 1)
  BY <1>1, <1>2, LetterIsShown
<1>7. Prefix(d) /\ Base(d) = 8 /\ KeptDigits(d) = Magnitudes(d) /\ q[BufferSize] = 0
        => (Octal <=> PrefixZeros(d) = 1 \/ Kept(d) > Magnitudes(d))
  BY <1>1, <1>2, OctalIsShown, LastQuotient
<1>8. Len(t) >= Field(d) <=> (ZerosFillWidth(d) => shown >= Field(d))
  BY <1>1, <1>2, WidthIs
<1>9. /\ Argument(d) \in Int /\ Magnitude(d) \in Nat
      /\ Negative(d) => Argument(d) < 0 /\ Magnitude(d) = -Argument(d)
      /\ ~Negative(d) => Argument(d) >= 0 /\ Magnitude(d) = Argument(d)
  BY MagnitudeIs
<1>10. Precision(d) \in Nat /\ Kept(d) \in Nat /\ PrefixZeros(d) \in Nat
  BY SizesOf
<1>11. /\ Magnitude(d) * (-1) = -Magnitude(d)
       /\ Magnitude(d) * 1 = Magnitude(d)
  BY <1>9
<1> DEFINE Whole == /\ KeptDigits(d) = Magnitudes(d) /\ q[BufferSize] = 0
                    /\ Prefix(d) /\ Base(d) # 8 => Letters(d) = 1 /\ PrefixZeros(d) = 1
                    /\ Prefix(d) /\ Base(d) = 8 =>
                         PrefixZeros(d) = 1 \/ Kept(d) > Magnitudes(d)
                    /\ ZerosFillWidth(d) => shown >= Field(d)
<1>12. DenotesNumber(t, d) <=>
         /\ Numeral(t, Base(d)) = Magnitude(d)
         /\ Numeral(t, Base(d)) * (IF Minus \in Range(t) THEN -1 ELSE 1) = Argument(d)
         /\ ~Negative(d) /\ "plus" \in Flags(d) => Plus \in Range(t)
         /\ Len(t) >= Field(d)
         /\ "left" \notin Flags(d) => digits >= Precision(d)
         /\ Prefix(d) /\ Base(d) = 8 => Octal
         /\ Prefix(d) /\ Base(d) # 8 => Letter
  BY <1>4 DEF DenotesNumber
<1> HIDE DEF q, digits, shown, Octal, Letter
<1>13. ASSUME Fits(d) PROVE DenotesNumber(t, d)
  <2>1. /\ KeptDigits(d) = Magnitudes(d)
        /\ HasSign(d) => Signs(d) = 1
        /\ Prefix(d) /\ Base(d) # 8 => Letters(d) = 1 /\ PrefixZeros(d) = 1
        /\ Prefix(d) /\ Base(d) = 8 => PrefixZeros(d) = 1 \/ Kept(d) > Magnitudes(d)
        /\ ZerosFillWidth(d) => shown >= Field(d)
        /\ "left" \notin Flags(d) => Precision(d) <= Kept(d)
    BY <1>13, FitsKeeps DEF shown
  <2>2. q[BufferSize] = 0
    BY <1>13 DEF Fits, q
  <2>3. /\ Negative(d) => Signs(d) = 1
        /\ "plus" \in Flags(d) => Signs(d) = 1
    BY <2>1 DEF HasSign
  <2>4. Numeral(t, Base(d)) = Magnitude(d)
    BY <1>3, <2>1, <2>2
  <2>5. Numeral(t, Base(d)) * (IF Minus \in Range(t) THEN -1 ELSE 1) = Argument(d)
    BY <1>4, <1>9, <1>11, <2>3, <2>4
  <2>6. "left" \notin Flags(d) => digits >= Precision(d)
    BY <1>5, <1>10, <2>1
  <2> QED
    BY <1>4, <1>6, <1>7, <1>8, <1>12, <2>1, <2>2, <2>3, <2>4, <2>5, <2>6
<1>14. ASSUME DenotesNumber(t, d), ~SpaceAsSign(d) PROVE Fits(d)
  <2>1. KeptDigits(d) = Magnitudes(d) /\ q[BufferSize] = 0
    BY <1>3, <1>12, <1>14
  <2>2. Numeral(t, Base(d)) = Magnitude(d)
    BY <1>12, <1>14
  <2>3. Negative(d) => Signs(d) = 1
    BY <1>4, <1>9, <1>11, <1>12, <1>14, <2>2
  <2>4. HasSign(d) => Negative(d) \/ "plus" \in Flags(d)
    BY <1>14 DEF HasSign, SpaceAsSign
  <2>5. HasSign(d) => Signs(d) = 1
    BY <1>4, <1>12, <1>14, <2>3, <2>4
  <2>6. Prefix(d) /\ Base(d) # 8 => Letters(d) = 1 /\ PrefixZeros(d) = 1
    BY <1>6, <1>12, <1>14
  <2>7. Prefix(d) /\ Base(d) = 8 => PrefixZeros(d) = 1 \/ Kept(d) > Magnitudes(d)
    BY <1>7, <1>12, <1>14, <2>1
  <2>8. ZerosFillWidth(d) => shown >= Field(d)
    BY <1>8, <1>12, <1>14
  <2>9. "left" \notin Flags(d) => Precision(d) <= Kept(d) + PrefixZeros(d)
    BY <1>5, <1>10, <1>12, <1>14
  <2> QED
    BY <2>1, <2>5, <2>6, <2>7, <2>8, <2>9, KeepsFits DEF q, shown
<1> QED
  BY <1>13, <1>14 DEF t

\* What Pad puts around a text, and where the text is then.
LEMMA PadShows ==
  ASSUME NEW text \in Seq(Char), NEW width \in Nat, NEW flags, "zeropad" \notin flags
  PROVE  LET t == Pad(text, width, flags)
             n == Len(text)
             skipped == IF "left" \in flags THEN 0 ELSE Len(t) - n
         IN  /\ Len(t) = Larger(width, n)
             /\ \A k \in 1..n : t[skipped + k] = text[k]
<1> DEFINE n == Len(text)
           gap == IF n < width THEN width - n ELSE 0
           fill == [k \in 1..gap |-> Space]
<1>1. n \in Nat /\ gap \in Nat /\ gap + n = Larger(width, n) /\ n + gap = Larger(width, n)
  BY DEF Larger
<1>2. Fill(Space, n, width) = fill
  BY DEF Fill
<1>3. fill \in Seq(Char) /\ Len(fill) = gap
  <2> HIDE DEF gap
  <2> QED
    BY <1>1, CharsAre
<1> HIDE DEF fill, gap
<1>4. CASE "left" \in flags
  <2>1. Pad(text, width, flags) = text \o fill
    BY <1>2, <1>4 DEF Pad
  <2>2. /\ Len(text \o fill) = n + gap
        /\ \A i \in 1..n : (text \o fill)[i] = text[i]
    BY <1>3, Concatenation
  <2>3. \A i \in 1..n : 0 + i = i
    OBVIOUS
  <2> HIDE DEF n
  <2>4. \A i \in 1..n : (text \o fill)[0 + i] = text[i]
    BY <2>2, <2>3
  <2> QED
    BY <1>1, <1>4, <2>1, <2>2, <2>4 DEF n
<1>5. CASE "left" \notin flags
  <2>1. Pad(text, width, flags) = fill \o text
    BY <1>2, <1>5 DEF Pad
  <2>2. /\ Len(fill \o text) = gap + n
        /\ \A i \in (gap + 1)..(gap + n) : (fill \o text)[i] = text[i - gap]
    BY <1>3, Concatenation
  <2> HIDE DEF n
  <2>3. /\ (gap + n) - n = gap
        /\ \A i \in 1..n : gap + i \in (gap + 1)..(gap + n) /\ (gap + i) - gap = i
    BY <1>1
  <2>4. \A i \in 1..n : (fill \o text)[gap + i] = text[i]
    BY <2>2, <2>3
  <2> QED
    BY <1>1, <1>5, <2>1, <2>2, <2>3, <2>4 DEF n
<1> QED
  BY <1>4, <1>5

\* A string or a character is shown as far as its precision admits.
LEMMA StringsReadBack ==
  ASSUME NEW d \in Item
  PROVE  /\ d.conv = "c" => DenotesString(Text(d), [d EXCEPT !.dot = FALSE], d.arg)
         /\ d.conv = "s" => DenotesString(Text(d), d, d.arg)
<1> DEFINE flags == ReadFlags(d) \ {"zeropad"}
           w == Width(d)
           s == d.arg
           P == Precision(d)
<1>1. w \in Nat /\ P \in Nat /\ "zeropad" \notin flags
      /\ ("left" \in flags <=> "left" \in ReadFlags(d))
  BY Fields
<1>2. d.conv \in {"c", "s"} => s \in Seq(Char)
  BY DEF Item, IsNumber, Integer
<1>3. CASE d.conv = "c"
  <2> DEFINE e == [d EXCEPT !.dot = FALSE]
  <2>1. e.dot = FALSE /\ e.width = d.width /\ e.flags = d.flags
    BY DEF Item
  <2> HIDE DEF e
  <2>2. Width(e) = w /\ ReadFlags(e) = ReadFlags(d)
    BY <2>1 DEF Width, ReadFlags
  <2>3. Text(d) = Pad(s, w, flags)
    BY <1>3 DEF Text, Integer
  <2> DEFINE t == Pad(s, w, flags)
             skipped == IF "left" \in flags THEN 0 ELSE Len(t) - Len(s)
  <2>4. Len(t) = Larger(w, Len(s)) /\ \A k \in 1..Len(s) : t[skipped + k] = s[k]
    BY <1>1, <1>2, <1>3, PadShows
  <2> HIDE DEF t, w, s, flags
  <2>5. DenotesString(t, e, s)
    BY <1>1, <2>1, <2>2, <2>4 DEF DenotesString
  <2> QED
    BY <1>3, <2>3, <2>5 DEF t, e, s
<1>4. CASE d.conv = "s"
  <2> DEFINE cut == Cut(d)
             n == IF d.dot /\ P < Len(s) THEN P ELSE Len(s)
             t == Pad(cut, w, flags)
             skipped == IF "left" \in flags THEN 0 ELSE Len(t) - n
  <2>1. cut \in Seq(Char) /\ Len(cut) = n /\ \A k \in 1..n : cut[k] = s[k]
    <3>1. s \in Seq(Char)
      BY <1>2, <1>4
    <3>2. CASE d.dot /\ P < Len(s)
      <4> HIDE DEF s, P
      <4>1. /\ SubSeq(s, 1, P) \in Seq(Char) /\ Len(SubSeq(s, 1, P)) = P
            /\ \A k \in 1..P : SubSeq(s, 1, P)[k] = s[k]
        BY <1>1, <3>1, <3>2
      <4> QED
        BY <3>2, <4>1 DEF Cut, s, P
    <3>3. CASE ~(d.dot /\ P < Len(s))
      BY <3>1, <3>3 DEF Cut
    <3> QED
      BY <3>2, <3>3
  <2>2. Text(d) = t
    BY <1>4 DEF Text, Integer
  <2> HIDE DEF cut
  <2>3. Len(t) = Larger(w, n) /\ \A k \in 1..n : t[skipped + k] = cut[k]
    <3> HIDE DEF flags, w, n
    <3>1. /\ Len(t) = Larger(w, Len(cut))
          /\ \A k \in 1..Len(cut) :
               t[(IF "left" \in flags THEN 0 ELSE Len(t) - Len(cut)) + k] = cut[k]
      BY <1>1, <2>1, PadShows
    <3> HIDE DEF t
    <3> QED
      BY <2>1, <3>1
  <2> HIDE DEF t, w, s, flags, P
  <2>4. \A k \in 1..n : t[skipped + k] = s[k]
    BY <2>1, <2>3
  <2>5. DenotesString(t, d, s)
    BY <1>1, <2>3, <2>4 DEF DenotesString, w, P
  <2> QED
    BY <1>4, <2>2, <2>5 DEF s
<1> QED
  BY <1>3, <1>4

(***************************************************************************)
(* The call's history: `last` is the text of the item before `next`.       *)
(***************************************************************************)
ShowsItsLast(c) ==
  c.next > 1 => /\ c.next - 1 \in 1..Len(c.format)
                /\ c.last = Text(c.format[c.next - 1])

ShowingCall == {c \in GoodCall : ShowsItsLast(c)}

LastInv == calls \in Seq(ShowingCall)

\* The steps of a call keep its history.
LEMMA StepsShowTheLast ==
  ASSUME NEW c \in ShowingCall
  PROVE  /\ c.pending = << >> /\ c.next <= Len(c.format) => Converted(c) \in ShowingCall
         /\ c.pending # << >> => Emitted(c) \in ShowingCall
         /\ c.pending = << >> /\ c.next > Len(c.format) /\ ~c.done => Terminated(c) \in ShowingCall
<1>1. c \in GoodCall /\ c \in CallType /\ ShowsItsLast(c) /\ c.next \in Nat \ {0}
  BY CallFields DEF ShowingCall
<1>2. ASSUME c.pending = << >>, c.next <= Len(c.format) PROVE Converted(c) \in ShowingCall
  <2>1. Converted(c) \in GoodCall
    BY <1>1, <1>2, ConvertedIsGood
  <2>2. /\ Converted(c).next = c.next + 1 /\ Converted(c).format = c.format
        /\ Converted(c).last = Text(c.format[c.next])
    BY <1>1 DEF Converted, CallType
  <2>3. Len(c.format) \in Nat
    BY <1>1, CallFields, FormatsAreItems
  <2>4. (c.next + 1) - 1 = c.next /\ c.next \in 1..Len(c.format)
    BY <1>1, <1>2, <2>3
  <2> QED
    BY <2>1, <2>2, <2>4 DEF ShowingCall, ShowsItsLast
<1>3. ASSUME c.pending # << >> PROVE Emitted(c) \in ShowingCall
  <2>1. Emitted(c) \in GoodCall
    BY <1>1, <1>3, EmittedIsGood
  <2>2. /\ Emitted(c).next = c.next /\ Emitted(c).format = c.format
        /\ Emitted(c).last = c.last
    BY <1>1 DEF Emitted, CallType
  <2> QED
    BY <1>1, <2>1, <2>2 DEF ShowingCall, ShowsItsLast
<1>4. ASSUME c.pending = << >>, c.next > Len(c.format), ~c.done
      PROVE  Terminated(c) \in ShowingCall
  <2>1. Terminated(c) \in GoodCall
    BY <1>1, <1>4, TerminatedIsGood
  <2>2. /\ Terminated(c).next = c.next /\ Terminated(c).format = c.format
        /\ Terminated(c).last = c.last
    BY <1>1 DEF Terminated, CallType
  <2> QED
    BY <1>1, <2>1, <2>2 DEF ShowingCall, ShowsItsLast
<1> QED
  BY <1>2, <1>3, <1>4

LEMMA NextLast == LastInv /\ [Next]_vars => LastInv'
<1> SUFFICES ASSUME LastInv, [Next]_vars PROVE LastInv'
  OBVIOUS
<1>1. calls \in Seq(ShowingCall) /\ (calls # << >> => top \in ShowingCall)
  BY DEF LastInv, top
<1>2. ASSUME NEW f \in Formats, NEW s \in Sink PROVE NewCall(f, s) \in ShowingCall
  <2>1. NewCall(f, s).next = 1
    BY DEF NewCall
  <2> QED
    BY <2>1, NewCallIsGood DEF ShowingCall, ShowsItsLast
<1>3. ASSUME calls # << >>, NEW c \in ShowingCall, Running(c) PROVE LastInv'
  <2>1. Len(calls) \in Nat /\ [calls EXCEPT ![Len(calls)] = c] \in Seq(ShowingCall)
    BY <1>1, <1>3
  <2> QED
    BY <1>3, <2>1 DEF Running, LastInv
<1>4. ASSUME NEW call \in Calls, Call(call) PROVE LastInv'
  <2>1. NewCall(call.format, call.sink) \in ShowingCall
    BY <1>2, Sinks
  <2> QED
    BY <1>4, <2>1 DEF Call, LastInv
<1>5. CASE Convert
  <2>1. calls # << >> /\ Running(Converted(top)) /\ Converted(top) \in ShowingCall
    BY <1>1, <1>5, StepsShowTheLast DEF Convert, Converted
  <2> QED
    BY <1>3, <2>1
<1>6. CASE Emit
  <2>1. calls # << >> /\ Running(Emitted(top)) /\ Emitted(top) \in ShowingCall
    BY <1>1, <1>6, StepsShowTheLast DEF Emit, Emitted, Stored, Memory
  <2> QED
    BY <1>3, <2>1
<1>7. CASE Terminate
  <2>1. calls # << >> /\ Running(Terminated(top)) /\ Terminated(top) \in ShowingCall
    BY <1>1, <1>7, StepsShowTheLast DEF Terminate, Terminated, Stored, Memory, End
  <2> QED
    BY <1>3, <2>1
<1>8. CASE Return
  BY <1>1, <1>8 DEF Return, Front, LastInv
<1>9. CASE Interrupt
  <2>1. NewCall(HandlerFormat, Console) \in ShowingCall
    BY <1>2, Sinks DEF Formats
  <2> QED
    BY <1>1, <1>9, <2>1 DEF Interrupt, LastInv
<1>10. CASE UNCHANGED vars
  BY <1>1, <1>10 DEF vars, LastInv
<1> QED
  BY <1>4, <1>5, <1>6, <1>7, <1>8, <1>9, <1>10 DEF Next

(***************************************************************************)
(* For every size of buf, every width, precision, set of flags and value:  *)
(* a number within the limits of Fits reads back as the value passed, in   *)
(* the field and with the precision asked for; beyond them it does not,    *)
(* but for a space instead of a sign; and strings and characters are shown *)
(* up to their precision.                                                  *)
(***************************************************************************)
THEOREM AllReadsBack == Spec => []ConversionsReadBack
<1>1. Init => LastInv
  BY DEF Init, LastInv
<1>2. LastInv => ConversionsReadBack
  <2> SUFFICES ASSUME LastInv, calls # << >>, top.next > 1
               PROVE  LET d == top.format[top.next - 1]
                      IN  CASE IsNumber(d) -> /\ Fits(d) => DenotesNumber(top.last, d)
                                              /\ DenotesNumber(top.last, d)
                                                   => Fits(d) \/ SpaceAsSign(d)
                            [] d.conv = "c" -> DenotesString(top.last, [d EXCEPT !.dot = FALSE], d.arg)
                            [] d.conv = "s" -> DenotesString(top.last, d, d.arg)
                            [] OTHER -> top.last = d.arg
    BY DEF ConversionsReadBack
  <2> DEFINE d == top.format[top.next - 1]
             t == top.last
  <2>1. top \in ShowingCall
    BY DEF LastInv, top
  <2>2. top.format \in Seq(Item)
    BY <2>1, CallFields, FormatsAreItems DEF ShowingCall
  <2>3. top.next - 1 \in 1..Len(top.format) /\ t = Text(d)
    BY <2>1 DEF ShowingCall, ShowsItsLast
  <2>4. d \in Item
    BY <2>2, <2>3
  <2> HIDE DEF d, t
  <2>5. IsNumber(d) => /\ Fits(d) => DenotesNumber(t, d)
                       /\ DenotesNumber(t, d) => Fits(d) \/ SpaceAsSign(d)
    BY <2>3, <2>4, NumbersReadBack
  <2>6. /\ d.conv = "c" => DenotesString(t, [d EXCEPT !.dot = FALSE], d.arg)
        /\ d.conv = "s" => DenotesString(t, d, d.arg)
    BY <2>3, <2>4, StringsReadBack
  <2>7. ~IsNumber(d) /\ d.conv # "c" /\ d.conv # "s" => t = d.arg
    BY <2>3 DEF Text, IsNumber
  <2>8. /\ IsNumber(d) => d.conv # "c" /\ d.conv # "s"
        /\ d.conv = "c" => d.conv # "s"
    BY DEF IsNumber, Integer
  <2> QED
    BY <2>5, <2>6, <2>7, <2>8 DEF d, t
<1> QED
  BY <1>1, <1>2, NextLast, PTL DEF Spec
=============================================================================
