------------------------------- MODULE Printf -------------------------------
(***************************************************************************)
(* The formatter of src/printf.c: what each conversion produces, and how   *)
(* _vsnprintf sends it character by character to the console, to a buffer  *)
(* of limited size, or nowhere.  A trap handler that prints may interrupt  *)
(* a call between any two characters.                                      *)
(*                                                                         *)
(* A format is a sequence of items.  An item holds what stands between the *)
(* % and the conversion letter, and the argument the call passes for it: a *)
(* string, or one number or character; a `*` is the number it takes from   *)
(* the arguments.  Characters are numbers: a digit is its value, case of   *)
(* letters aside.  Floats (%f, %e and %g) are left out.                    *)
(***************************************************************************)
EXTENDS Integers, Sequences, FiniteSets, SequencesExt

CONSTANTS
  BufferSize,     \* PRINTF_NTOA_BUFFER_SIZE: 32
  Modulus,        \* 2^8, 2^16, 2^32 and 2^64 for the lengths hh, h, none, l
  PointerDigits,  \* sizeof(void*) * 2
  SizeMax,        \* (size_t)-1
  MemorySize,     \* bytes of memory watched, from the buffer's first one on
  Calls,          \* calls of the kernel: a format, an output, and the bound
                  \* on the messages of handlers that may interrupt it
  HandlerFormat   \* the message of a trap handler

Length == {"char", "short", "int", "long"}
Flag == {"zeropad", "left", "plus", "space", "hash"}
Integer == {"d", "u", "x", "o", "b"}

\* The characters that are no digit.
Minus == 16
Plus == 17
Space == 18
LetterX == 19
LetterB == 20
Nul == 21
Unwritten == -1
Char == 0..21

Console == [out |-> "char", maxlen |-> SizeMax]

IsNumber(d) == d.conv \in Integer \cup {"p"}

Item ==
  {d \in [conv : Integer \cup {"p", "s", "c", "plain"}, flags : SUBSET Flag,
          width : Int, dot : BOOLEAN, precision : Int, length : Length,
          arg : Seq(Int)] :
     IF IsNumber(d) THEN d.arg # << >> ELSE d.arg \in Seq(Char)}

Formats == {c.format : c \in Calls} \cup {HandlerFormat}

ASSUME PrintfAssumption ==
  /\ BufferSize \in Nat \ {0} /\ PointerDigits \in Nat /\ SizeMax \in Nat
  /\ MemorySize \in Nat
  /\ Modulus \in [Length -> Nat \ {0}]
  /\ \A f \in Formats : f \in Seq(Item)
  /\ \A c \in Calls : /\ c.sink \in [out : {"char", "buffer", "null"}, maxlen : 0..SizeMax]
                     /\ c.interrupts \in Nat

-----------------------------------------------------------------------------
(***************************************************************************)
(* An item is read in the order flags, width, precision: a negative width  *)
(* (from a `*`) means left-justified, a negative precision is zero.        *)
(***************************************************************************)
Width(d) == IF d.width < 0 THEN -d.width ELSE d.width
Precision(d) == IF d.dot /\ d.precision > 0 THEN d.precision ELSE 0
ReadFlags(d) == d.flags \cup (IF d.width < 0 THEN {"left"} ELSE {})

\* The flags a conversion of a number goes on with; %p adds its own.
Flags(d) ==
  IF d.conv = "p" THEN ReadFlags(d) \cup {"zeropad"}
  ELSE ReadFlags(d) \ ((IF d.conv \in {"d", "u"} THEN {"hash"} ELSE {})
                        \cup (IF d.conv # "d" THEN {"plus", "space"} ELSE {})
                        \cup (IF d.dot THEN {"zeropad"} ELSE {}))

Base(d) == CASE d.conv \in {"x", "p"} -> 16
             [] d.conv = "o"          -> 8
             [] d.conv = "b"          -> 2
             [] OTHER                 -> 10

\* The argument as its type makes it.  A plain char is unsigned on RISC-V.
Argument(d) ==
  LET m == Modulus[d.length]
      v == Head(d.arg) % m
  IN  IF d.conv = "d" /\ d.length # "char" /\ 2 * v >= m THEN v - m ELSE v

Negative(d) == Argument(d) < 0

\* Mutant: the magnitude is computed in the signed type's positive half.
MagnitudeSigned(d) ==
  LET v == Argument(d)
      m == Modulus[d.length]
  IN  IF v > 0 THEN v ELSE (0 - v) % ((m + 1) \div 2)

\* value > 0 ? value : 0 - value, as the unsigned type: the most negative
\* value wraps to itself (a signed overflow, which the build's neg performs),
\* which the unsigned type reads as its magnitude.
Magnitude(d) ==
  LET v == Argument(d) IN IF v > 0 THEN v ELSE (0 - v) % Modulus[d.length]

-----------------------------------------------------------------------------
\* What value /= base leaves after each round.
Quotients(value, base) ==
  LET q[n \in Nat] == IF n = 0 THEN value ELSE q[n - 1] \div base
  IN  q

(***************************************************************************)
(* buf[PRINTF_NTOA_BUFFER_SIZE]: the number, last digit first, as long as  *)
(* something is left of it and there is room; one round in any case.       *)
(***************************************************************************)
Digits(value, base) ==
  LET left == Quotients(value, base)
      rounds == 1 + Cardinality({n \in 1..(BufferSize - 1) : left[n] # 0})
  IN  [k \in 1..rounds |-> left[k - 1] % base]

\* As many times character c as it takes from length m to length n.
Fill(c, m, n) == [k \in 1..(IF m < n THEN n - m ELSE 0) |-> c]

\* Mutant: the room in buf is not looked at.
ZerosUnbounded(buf, len) == buf \o Fill(0, Len(buf), len)

\* buf[len++] = '0' up to `len`, while there is room.
Zeros(buf, len) ==
  buf \o Fill(0, Len(buf), IF len < BufferSize THEN len ELSE BufferSize)

\* buf[len++] = ch, if there is room.
Put(buf, ch) == IF Len(buf) < BufferSize THEN Append(buf, ch) ELSE buf

\* A sign in front of zeros takes one column of the width.
NtoaWidth(d) ==
  LET width == IF d.conv = "p" THEN PointerDigits ELSE Width(d)
  IN  IF /\ "left" \notin Flags(d) /\ width > 0 /\ "zeropad" \in Flags(d)
         /\ Negative(d) \/ Flags(d) \cap {"plus", "space"} # {}
      THEN width - 1 ELSE width

PadZeros(buf, d) ==
  IF "left" \in Flags(d) THEN buf
  ELSE LET exact == Zeros(buf, Precision(d))
       IN  IF "zeropad" \in Flags(d) THEN Zeros(exact, NtoaWidth(d)) ELSE exact

(***************************************************************************)
(* The prefix takes the place of digits if they fill the width: it is      *)
(* meant for the zeros of PadZeros, but does not look at what it drops.    *)
(***************************************************************************)
PutPrefix(buf, d) ==
  LET full == /\ ~d.dot /\ buf # << >>
              /\ Len(buf) \in {Precision(d), NtoaWidth(d)}
      drop == IF ~full THEN 0
              ELSE IF Base(d) = 16 /\ Len(buf) > 1 THEN 2 ELSE 1
      kept == SubSeq(buf, 1, Len(buf) - drop)
      base == CASE Base(d) = 16 -> Put(kept, LetterX)
                [] Base(d) = 2  -> Put(kept, LetterB)
                [] OTHER        -> kept
  IN  Put(base, 0)

PutSign(buf, d) ==
  IF Negative(d) THEN Put(buf, Minus)
  ELSE IF "plus" \in Flags(d) THEN Put(buf, Plus)
  ELSE IF "space" \in Flags(d) THEN Put(buf, Space)
  ELSE buf

\* _ntoa_long and _ntoa_format: no prefix for zero, no digits for %.0 of zero.
Ntoa(d) ==
  LET digits == IF d.dot /\ Magnitude(d) = 0 THEN << >>
                ELSE Digits(Magnitude(d), Base(d))
      padded == PadZeros(digits, d)
  IN  PutSign(IF "hash" \in Flags(d) /\ Magnitude(d) # 0 THEN PutPrefix(padded, d)
              ELSE padded, d)

-----------------------------------------------------------------------------

Pad(text, width, flags) ==
  IF "left" \in flags THEN text \o Fill(Space, Len(text), width)
  ELSE IF "zeropad" \in flags THEN text
  ELSE Fill(Space, Len(text), width) \o text

\* The part of a string that %s prints.
Cut(d) ==
  IF d.dot /\ Precision(d) < Len(d.arg) THEN SubSeq(d.arg, 1, Precision(d))
  ELSE d.arg

(***************************************************************************)
(* What an item prints: the text between the items, %% and unknown letters *)
(* stand for themselves.                                                   *)
(***************************************************************************)
Text(d) ==
  CASE d.conv \in Integer \cup {"p"} -> Pad(Reverse(Ntoa(d)), NtoaWidth(d), Flags(d))
    [] d.conv = "c" -> Pad(d.arg, Width(d), ReadFlags(d) \ {"zeropad"})
    [] d.conv = "s" -> Pad(Cut(d), Width(d), ReadFlags(d) \ {"zeropad"})
    [] OTHER        -> d.arg

-----------------------------------------------------------------------------
VARIABLES
  calls,      \* the calls of printf in progress, the last one running
  uart,       \* what reached the console since the kernel's call began, as
              \* pairs <<number of calls then in progress, character>>
  interrupts  \* bound on the messages of handlers still to come

vars == <<calls, uart, interrupts>>

(***************************************************************************)
(* One call of _vsnprintf: `next` is the item to convert next, `pending`   *)
(* what of the items before it is not yet output.  A conversion and its    *)
(* output touch nothing but the call's own stack frame, so that a step     *)
(* that converts and one step per character stand for both.  `text` and    *)
(* `last` are histories: all characters converted, and those of the item   *)
(* before `next`.                                                          *)
(***************************************************************************)
NewCall(format, sink) ==
  [format |-> format, sink |-> sink, next |-> 1, pending |-> << >>, idx |-> 0,
   memory |-> [i \in 0..(MemorySize - 1) |-> Unwritten], done |-> FALSE,
   text |-> << >>, last |-> << >>]

top == calls[Len(calls)]
Running(call) == calls' = [calls EXCEPT ![Len(calls)] = call]

\* Mutant: one character too many fits.
BufferOffByOne(memory, ch, idx, maxlen) ==
  IF idx <= maxlen /\ idx \in DOMAIN memory
  THEN [memory EXCEPT ![idx] = ch] ELSE memory

\* _out_buffer.  Memory beyond the bytes watched is left out.
Buffer(memory, ch, idx, maxlen) ==
  IF idx < maxlen /\ idx \in DOMAIN memory
  THEN [memory EXCEPT ![idx] = ch] ELSE memory

\* The memory after out(ch, buffer, idx, maxlen).
Memory(ch, idx) ==
  IF top.sink.out = "buffer" THEN Buffer(top.memory, ch, idx, top.sink.maxlen)
  ELSE top.memory

\* _out_char does not send a NUL; _out_null sends nothing.
ToConsole(ch) ==
  uart' = IF top.sink.out = "char" /\ ch # Nul THEN Append(uart, <<Len(calls), ch>>)
          ELSE uart

Init == calls = << >> /\ uart = << >> /\ interrupts = 0

\* printf, sprintf or snprintf is called.
Call(call) ==
  /\ calls = << >>
  /\ calls' = <<NewCall(call.format, call.sink)>>
  /\ uart' = << >>
  /\ interrupts' = call.interrupts

\* The next item is read and converted.
Convert ==
  /\ calls # << >> /\ top.pending = << >> /\ top.next <= Len(top.format)
  /\ LET t == Text(top.format[top.next])
     IN  Running([top EXCEPT !.next = @ + 1, !.pending = t,
                             !.text = @ \o t, !.last = t])
  /\ UNCHANGED <<uart, interrupts>>

\* Mutant: only characters that are stored are counted.
EmitCountsStored ==
  /\ calls # << >> /\ top.pending # << >>
  /\ ToConsole(Head(top.pending))
  /\ Running([top EXCEPT !.pending = Tail(@),
                !.memory = Memory(Head(top.pending), top.idx),
                !.idx = IF top.sink.out # "char" /\ @ >= top.sink.maxlen THEN @ ELSE @ + 1])
  /\ UNCHANGED interrupts

\* out(ch, buffer, idx++, maxlen)
Emit ==
  /\ calls # << >> /\ top.pending # << >>
  /\ ToConsole(Head(top.pending))
  /\ Running([top EXCEPT !.pending = Tail(@), !.idx = @ + 1,
                         !.memory = Memory(Head(top.pending), top.idx)])
  /\ UNCHANGED interrupts

\* The NUL goes behind the text or over the last character that fits;
\* maxlen - 1 wraps for a size of 0.
Terminate ==
  /\ calls # << >> /\ top.pending = << >> /\ top.next > Len(top.format)
  /\ ~top.done
  /\ LET end == IF top.idx < top.sink.maxlen THEN top.idx
                ELSE IF top.sink.maxlen = 0 THEN SizeMax ELSE top.sink.maxlen - 1
     IN  Running([top EXCEPT !.done = TRUE, !.memory = Memory(Nul, end)])
  /\ ToConsole(Nul)
  /\ UNCHANGED interrupts

\* The call returns idx.
Return ==
  /\ calls # << >> /\ top.done
  /\ calls' = Front(calls)
  /\ UNCHANGED <<uart, interrupts>>

\* Mutant: the text being output is in a buffer the calls share.
InterruptShared ==
  /\ Len(calls) = 1 /\ interrupts > 0
  /\ calls' = <<[top EXCEPT !.pending = << >>], NewCall(HandlerFormat, Console)>>
  /\ interrupts' = interrupts - 1
  /\ UNCHANGED uart

\* Mutant: the handler lets itself be interrupted.
InterruptNested ==
  /\ calls # << >> /\ interrupts > 0
  /\ calls' = Append(calls, NewCall(HandlerFormat, Console))
  /\ interrupts' = interrupts - 1
  /\ UNCHANGED uart

\* A trap handler prints (trap.c:107 and :122; after the latter it never
\* returns).  Interrupts are disabled until it does.
Interrupt ==
  /\ Len(calls) = 1 /\ interrupts > 0
  /\ calls' = Append(calls, NewCall(HandlerFormat, Console))
  /\ interrupts' = interrupts - 1
  /\ UNCHANGED uart

Next ==
  \/ \E call \in Calls : Call(call)
  \/ Convert \/ Emit \/ Terminate \/ Return \/ Interrupt

Spec == Init /\ [][Next]_vars

-----------------------------------------------------------------------------
CallType ==
  [format : Formats, sink : {c.sink : c \in Calls} \cup {Console},
   next : Nat \ {0}, pending : Seq(Char), idx : Nat,
   memory : [0..(MemorySize - 1) -> Char \cup {Unwritten}], done : BOOLEAN,
   text : Seq(Char), last : Seq(Char)]

(***************************************************************************)
(* At most the kernel's call and one of a handler are in progress, and the *)
(* output is made of characters.                                           *)
(***************************************************************************)
TypeOKPrintf ==
  /\ calls \in Seq(CallType) /\ Len(calls) <= 2
  /\ uart \in Seq((1..2) \X Char)
  /\ interrupts \in Nat

Larger(m, n) == IF m > n THEN m ELSE n
Field(d) == IF d.conv = "p" THEN PointerDigits ELSE Width(d)
SpaceAsSign(d) == ~Negative(d) /\ "space" \in Flags(d) /\ "plus" \notin Flags(d)
NoDigits(d) == d.dot /\ Magnitude(d) = 0
Magnitudes(d) == IF NoDigits(d) THEN 0 ELSE Len(Digits(Magnitude(d), Base(d)))
Prefix(d) == "hash" \in Flags(d) /\ Magnitude(d) # 0

(***************************************************************************)
(* The limits of a conversion.  Digits (those a precision asks for, too),  *)
(* prefix and sign must fit buf, and so must the zeros that fill a width,  *)
(* with what a prefix adds to them; the 0 of an octal prefix may be one of *)
(* the precision.  Without a precision, a number of exactly `width` digits *)
(* loses digits to its prefix, in base 16 with zeros one of a digit less.  *)
(***************************************************************************)
ZerosFillWidth(d) == "zeropad" \in Flags(d) /\ "left" \notin Flags(d)

Fits(d) ==
  /\ LET precise == IF "left" \in Flags(d) THEN 0 ELSE Precision(d)
         sign == IF Negative(d) \/ Flags(d) \cap {"plus", "space"} # {} THEN 1 ELSE 0
         room == IF ~Prefix(d) THEN Larger(Magnitudes(d), precise)
                 ELSE IF Base(d) = 8 THEN Larger(Magnitudes(d) + 1, precise)
                 ELSE Larger(Magnitudes(d), precise) + 2
     IN  room + sign <= BufferSize
  /\ Quotients(Magnitude(d), Base(d))[BufferSize] = 0
  /\ ZerosFillWidth(d) =>
       LET grows == IF ~Prefix(d) THEN 0
                    ELSE IF d.dot THEN 2
                    ELSE IF Base(d) = 2 THEN 1 ELSE 0
       IN  Field(d) + grows <= BufferSize
  /\ Prefix(d) /\ ~d.dot =>
       /\ Magnitudes(d) # NtoaWidth(d)
       /\ ~(Base(d) = 16 /\ ZerosFillWidth(d) /\ Magnitudes(d) = NtoaWidth(d) - 1)

IsDigit(c) == c \in 0..15
DigitPlaces(t) == {k \in DOMAIN t : IsDigit(t[k])}

\* The number that a reader of the first n characters of t has read.
Readings(t, base) ==
  LET r[n \in Nat] == IF n = 0 THEN 0
                      ELSE IF IsDigit(t[n]) THEN r[n - 1] * base + t[n]
                      ELSE r[n - 1]
  IN  r
Numeral(t, base) == Readings(t, base)[Len(t)]

\* Text t is the number d.arg, signed, and as wide and as precise as asked.
DenotesNumber(t, d) ==
  /\ Numeral(t, Base(d)) = Magnitude(d)
  /\ Numeral(t, Base(d)) * (IF Minus \in Range(t) THEN -1 ELSE 1) = Argument(d)
  /\ ~Negative(d) /\ "plus" \in Flags(d) => Plus \in Range(t)
  /\ \A j \in DOMAIN t : t[j] \in {Minus, Plus} => \A k \in 1..(j - 1) : t[k] = Space
  /\ Len(t) >= Field(d)
  /\ Len(t) > Field(d) => Space \notin Range(t) \/ "space" \in Flags(d)
  /\ "left" \notin Flags(d) => Cardinality(DigitPlaces(t)) >= Precision(d)
  /\ Prefix(d) /\ Base(d) = 8 => \E j \in DigitPlaces(t) :
       t[j] = 0 /\ \A k \in DigitPlaces(t) : j <= k
  /\ Prefix(d) /\ Base(d) # 8 => \E j \in 2..Len(t) :
       /\ t[j - 1] = 0 /\ t[j] = (IF Base(d) = 16 THEN LetterX ELSE LetterB)
       /\ \A k \in 1..(j - 2) : t[k] \in {Space, Plus}

\* Text t shows the first characters of s, and as many as d admits.
DenotesString(t, d, s) ==
  LET n == IF d.dot /\ Precision(d) < Len(s) THEN Precision(d) ELSE Len(s)
      skipped == IF "left" \in ReadFlags(d) THEN 0 ELSE Len(t) - n
  IN  /\ Len(t) = Larger(Width(d), n)
      /\ \A k \in 1..n : t[skipped + k] = s[k]

(***************************************************************************)
(* What is printed is what was asked for: a number reads back as the value *)
(* passed (the most negative one too), in the field and with the precision *)
(* of the item; a string is shown up to its precision.  A number is spoilt *)
(* exactly beyond the limits of Fits: a space for a sign may be lost where *)
(* the padding makes up for it.                                            *)
(***************************************************************************)
ConversionsReadBack ==
  calls # << >> /\ top.next > 1 =>
    LET d == top.format[top.next - 1]
    IN  CASE IsNumber(d)   -> /\ Fits(d) => DenotesNumber(top.last, d)
                              /\ DenotesNumber(top.last, d) => Fits(d) \/ SpaceAsSign(d)
          [] d.conv = "c"  -> DenotesString(top.last, [d EXCEPT !.dot = FALSE], d.arg)
          [] d.conv = "s"  -> DenotesString(top.last, d, d.arg)
          [] OTHER         -> top.last = d.arg

(***************************************************************************)
(* buf, the array of _ntoa_long on the stack, is never written beyond its  *)
(* end, whatever width, precision and prefix are asked for.                *)
(***************************************************************************)
BufSuffices ==
  \A k \in DOMAIN calls : \A n \in DOMAIN calls[k].format :
    LET d == calls[k].format[n]
    IN  IsNumber(d) => /\ Len(PadZeros(Digits(Magnitude(d), Base(d)), d)) <= BufferSize
                       /\ Len(Ntoa(d)) <= BufferSize

(***************************************************************************)
(* Nothing is written past the size a caller gives, and a buffer of any    *)
(* size but 0 holds, once the call is done, as much of the text as fits    *)
(* and a NUL behind it.                                                    *)
(***************************************************************************)
BufferIsRespected ==
  \A k \in DOMAIN calls :
    LET c == calls[k]
        stored == IF Len(c.text) < c.sink.maxlen THEN Len(c.text) ELSE c.sink.maxlen - 1
    IN  /\ \A a \in DOMAIN c.memory :
             c.memory[a] # Unwritten => c.sink.out = "buffer" /\ a < c.sink.maxlen
        /\ c.done /\ c.sink.out = "buffer" /\ c.sink.maxlen > 0 =>
             \A a \in DOMAIN c.memory :
               /\ a < stored => c.memory[a] = c.text[a + 1]
               /\ a = stored => c.memory[a] = Nul

(***************************************************************************)
(* The value returned is the length of the whole text whatever the output  *)
(* is and however much of it fits: printf.h says so of snprintf, and       *)
(* parse_dt_struct advances by the value of sprintf(NULL, ...).            *)
(***************************************************************************)
ReturnsTheLength ==
  \A k \in DOMAIN calls : calls[k].done => calls[k].idx = Len(calls[k].text)

\* The places in the text of a call whose characters reached the console.
Printed(call) ==
  {j \in 1..call.idx : call.sink.out = "char" /\ call.text[j] # Nul}

\* The places on the console that hold characters of the kernel's call.
OfKernel == {k \in DOMAIN uart : uart[k][1] = 1}

\* The how manieth of a set of places n is.
Rank(S, n) == Cardinality({m \in S : m <= n})

(***************************************************************************)
(* A handler that prints in the middle of the kernel's message changes     *)
(* neither: the kernel's characters come out complete and in order (as     *)
(* many as were printed, each the one of its rank), and those of the       *)
(* handler come out in one piece, which is the end of the output so far.   *)
(***************************************************************************)
OutputIsNotMixed ==
  calls # << >> =>
    /\ Cardinality(OfKernel) = Cardinality(Printed(calls[1]))
    /\ \A k \in OfKernel, j \in Printed(calls[1]) :
         Rank(OfKernel, k) = Rank(Printed(calls[1]), j) => uart[k][2] = calls[1].text[j]
    /\ Len(calls) = 2 =>
         LET p == Printed(top)
         IN  \A j \in p : uart[Len(uart) - Cardinality(p) + Rank(p, j)] = <<2, top.text[j]>>
=============================================================================
