------------------------------- MODULE MCLibc -------------------------------
(***************************************************************************)
(* The library's pairs of writers and readers, and the console it prints   *)
(* on, which this module extends; a behaviour runs one of them, as which   *)
(* says.                                                                   *)
(***************************************************************************)
EXTENDS Console

VARIABLES
  which,
  format, size, text, said, back,
  source, encoded, decoded, phase,
  out, obj_has_key, keys_added, open, pending, path, members,
  chunk, rest, listed, stack, tag, number, number_buffer, name_buffer, stored,
  symbol, root, num_symbols, index, built, stale

textVars    == <<format, size, text, said, back>>
base64Vars  == <<source, encoded, decoded, phase>>
jsonVars    == <<out, obj_has_key, keys_added, open, pending, path, members>>
pdbVars     == <<chunk, rest, listed, stack, tag, number, number_buffer, name_buffer, stored,
                 symbol, root, num_symbols, index, built, stale>>
vars        == <<which, textVars, base64Vars, jsonVars, pdbVars, consoleVars>>

\* Numbers of twelve bits, the first accumulator of eight.
MCWidth == 12
Value(kind, v) == [kind |-> kind, chars |-> <<>>, value |-> v, width |-> 0]
Wide(v, w)     == [Value("x", v) EXCEPT !.width = w]
Chars(kind, s) == [kind |-> kind, chars |-> s, value |-> 0, width |-> 0]

Directives ==
  {Chars("run", <<10, 11>>), Chars("run", <<10, 43>>), Chars("run", <<43, 43>>), Chars("run", <<44>>),
   Chars("c", <<12>>), Chars("c", <<43>>),
   Chars("s", <<10, 11, 12>>), [Chars("s", <<10, 11, 12>>) EXCEPT !.width = 2], Chars("bad", <<13, 14>>),
   Value("d", -17), Value("u", 205), Value("u", -3), Value("x", 171), Value("x", 1000),
   Wide(1000, 5), Wide(9, 3), Wide(0, 2), Value("b", 5)}

MCFormats ==
  {[format |-> f, size |-> n] : f \in {<<d>> : d \in Directives} \cup {<<d, e>> : d, e \in Directives},
                                n \in 1 .. 8}
  \cup {[format |-> <<Value(k, v)>>, size |-> 32] : k \in {"d", "x"}, v \in -2048 .. 2047}

MCTyped ==
  {before \o digits : before \in {<<>>, <<40>>, <<42, 42, 41>>, <<0, 33>>},
                      digits \in UNION {[1 .. n -> {0, 1, 3, 7, 9, 15}] : n \in 1 .. 4}}

Txt == INSTANCE Text WITH
         Width <- MCWidth, NarrowMax <- 255, Formats <- MCFormats, Typed <- MCTyped,
         Bases <- {0, 8, 10, 16, 36}

Bin == INSTANCE Base64 WITH Bytes <- {0, 7, 130, 255}, MaxLen <- 5

Doc == INSTANCE Json WITH
         Keys <- {"a", "b"}, Strings <- {"a", "s"}, Numbers <- {1}, MaxDepth <- 3, MaxKeys <- 4

Pdb == INSTANCE PdbIndex WITH
         Names <- {<<"a">>, <<"a", "b">>, <<"a", "c">>, <<"b", "a">>}, Rvas <- {2, 4, 7},
         MaxSymbols <- 3, Cuts <- {5, 7, 13, 15}

MCBands == {[top |-> 0, bottom |-> 5], [top |-> 5, bottom |-> 7]}
MCTexts == {<<"a", "b">>, <<"c", "d", "newline">>, <<"a", "newline", "d", "d">>}

Init ==
  /\ which \in {"text", "bytes", "json", "symbols", "console"}
  /\ Txt!Init /\ Bin!Init /\ Doc!Init /\ Pdb!Init /\ ConsoleInit

Next ==
  /\ UNCHANGED which
  /\ \/ which = "text" /\ Txt!Next
        /\ UNCHANGED <<base64Vars, jsonVars, pdbVars, consoleVars>>
     \/ which = "bytes" /\ Bin!Next
        /\ UNCHANGED <<textVars, jsonVars, pdbVars, consoleVars>>
     \/ which = "json" /\ Doc!Next
        /\ UNCHANGED <<textVars, base64Vars, pdbVars, consoleVars>>
     \/ which = "symbols" /\ Pdb!Next
        /\ UNCHANGED <<textVars, base64Vars, jsonVars, consoleVars>>
     \/ which = "console" /\ ConsoleNext
        /\ UNCHANGED <<textVars, base64Vars, jsonVars, pdbVars>>

Spec == Init /\ [][Next]_vars

-----------------------------------------------------------------------------
\* What the library writes, it reads back: a text that fits its buffer, the
\* numbers in it, bytes in base 64, the members of a document.
RoundTrips ==
  /\ Txt!TextFits /\ Txt!NumbersReadBack /\ Txt!ScansToNearest
  /\ Bin!BytesReadBack
  /\ Doc!MembersReadBack

\* What SymbolsFound says of the index of symbols.
SymbolsFound == Pdb!SymbolsFound

=============================================================================
