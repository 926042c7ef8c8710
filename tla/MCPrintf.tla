------------------------------ MODULE MCPrintf ------------------------------
(***************************************************************************)
(* All sizes are a quarter of the kernel's, in bits and in characters: a   *)
(* long has 16 bits and buf 8 characters, so that a binary number is twice *)
(* as long as buf, and numbers of all other bases fit it, as in the        *)
(* kernel.  The formats are: each number conversion alone, with the values *)
(* where its length wraps; strings and characters; and one message of      *)
(* several items, into every output.                                       *)
(***************************************************************************)
EXTENDS Printf

MCModulus == [char |-> 4, short |-> 16, int |-> 256, long |-> 65536]

Directive(conv, flags, width, dot, precision, length, arg) ==
  [conv |-> conv, flags |-> flags, width |-> width, dot |-> dot,
   precision |-> precision, length |-> length, arg |-> arg]

Plain(text) == Directive("plain", {}, 0, FALSE, 0, "int", text)

Values(length) ==
  LET m == MCModulus[length] IN {0, 1, m \div 2 - 1, m \div 2, m - 1}

Numbers ==
  {Directive(conv, flags, width, p # 0, p - 1, length, <<arg>>) :
     conv \in Integer,
     flags \in {{}, {"zeropad"}, {"left"}, {"hash"}, {"plus"}, {"hash", "zeropad"},
                {"space", "zeropad"}, {"left", "zeropad"}, {"plus", "zeropad"},
               {"plus", "space", "hash"}},
     width \in {0, 3, 4, 8, 9, -6}, p \in {0, 1, 3, 9, 10},
     length \in {"int"}, arg \in Values("int")}
  \cup
  {Directive(conv, flags, 0, FALSE, 0, length, <<arg>>) :
     conv \in Integer, flags \in {{}, {"hash"}, {"space"}},
     length \in {"char", "short"}, arg \in Values("short")}
  \cup
  {Directive(conv, flags, width, FALSE, 0, "long", <<arg>>) :
     conv \in Integer, flags \in {{}, {"hash"}, {"zeropad", "plus"}, {"hash", "zeropad"}},
     width \in {0, 5, 8}, arg \in Values("long")}
  \cup
  {Directive("p", flags, width, p # 0, p - 1, "long", <<arg>>) :
     flags \in {{}, {"left"}, {"plus"}, {"hash"}, {"plus", "hash"}}, width \in {0, 2},
     p \in {0, 1, 6, 7, 8, 9}, arg \in Values("long")}

Strings ==
  {Directive("s", flags, width, p # 0, p - 1, "int", arg) :
     flags \in {{}, {"left"}, {"zeropad"}}, width \in {0, 4, -3}, p \in {0, 1, 2, 3, 9},
     arg \in {<< >>, <<19>>, <<3, 4, 19>>}}
  \cup
  {Directive("c", flags, width, FALSE, 0, "int", <<arg>>) :
     flags \in {{}, {"left"}, {"zeropad"}}, width \in {0, 1, 3}, arg \in {7, Nul}}

Message ==
  <<Plain(<<20, 19>>), Directive("d", {}, 0, FALSE, 0, "long", <<-120>>), Plain(<<20>>),
    Directive("s", {}, 0, FALSE, 0, "int", <<1, 2>>),
    Directive("c", {}, 0, FALSE, 0, "int", <<Nul>>), Directive("x", {"hash"}, 0, FALSE, 0, "long", <<172>>)>>

\* "Interrupt! cause: %#zX\n"
MCHandlerFormat ==
  <<Plain(<<19>>), Directive("x", {"hash"}, 0, FALSE, 0, "long", <<9>>), Plain(<<20>>)>>

Sinks ==
  {Console, [out |-> "null", maxlen |-> SizeMax]}
  \cup [out : {"buffer"}, maxlen : {0, 1, 5, SizeMax}]

MCCalls ==
  [format : {<<d>> : d \in Numbers \cup Strings}, sink : {Console}, interrupts : {0}]
  \cup [format : {Message}, sink : Sinks, interrupts : {2}]
=============================================================================
