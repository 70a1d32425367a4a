-------------------------------- MODULE Text --------------------------------
(***************************************************************************)
(* The numbers of the C library: snprintf writes them into a buffer        *)
(* (libc/internal/_vprint.inc.c), strtoll and strtoull read them           *)
(* (libc/internal/intscan.c, libc/stdlib/strtol.c).                        *)
(*                                                                         *)
(* A character is its value in the scanner's table: 0 to 35 the digits and *)
(* letters, above them the others.  long long has Width bits, the          *)
(* scanner's first accumulator holds up to NarrowMax.                      *)
(***************************************************************************)
EXTENDS Integers, Sequences, SequencesExt

CONSTANTS
  Width,      \* bits of a long long
  NarrowMax,  \* UINT_MAX
  Formats,    \* the formats, sequences of directives, with the size of the buffer
  Typed,      \* texts that did not come from snprintf
  Bases       \* the bases strtoll is asked to read in

VARIABLES format, size, text, said, back

Ex    == 33
Minus == 40
Plus  == 41
Blank == 42
Tab   == 43
Quote == 44
Nul   == 45

WideMax == (2^Width) - 1
Least   == -(2^(Width - 1))

Wrap(d) == LET u == d % (2^Width) IN IF u >= 2^(Width - 1) THEN u - (2^Width) ELSE u

\* The digits of n in base b, the most significant first.
Digits(n, b) ==
  LET k == CHOOSE k \in 1 .. Width : n < b^k /\ (k = 1 \/ n >= b^(k - 1))
  IN  [i \in 1 .. k |-> (n \div (b^(k - i))) % b]

Magnitude(d) == IF d < 0 THEN Wrap(-d) ELSE d

\* Least is its own magnitude, and the loop over its digits sees one, a zero.
printdecimal(d, un_signed) ==
     (IF d < 0 /\ ~un_signed THEN <<Minus>> ELSE <<>>)
  \o (IF Magnitude(d) < 0 THEN <<0>> ELSE Digits(Magnitude(d), 10))

Zeros(n) == [i \in 1 .. n |-> 0]

\* The zeros before a hexadecimal number; too narrow a width pads all the same.
HexPadding(width, m) ==
  LET nibbles == IF m < 0 THEN Width \div 4 ELSE Len(Digits(m, 16))
      padding == IF width >= nibbles THEN width - nibbles ELSE width
  IN  CASE width > 0 /\ m = 0 -> width - 1
        [] m <= 256           -> padding
        [] OTHER              -> 2 * (padding \div 2)

\* Beyond 256 the digits go out in pairs; 256 itself loses its third digit.
HexDigits(m) ==
  CASE m > 256 -> Zeros(Len(Digits(m, 16)) % 2) \o Digits(m, 16)
    [] m > 15 /\ m <= 256 -> <<(m % 256) \div 16, m % 16>>
    [] OTHER -> <<m % 16>>

printbin(d) == IF d = 0 THEN <<>> ELSE Digits(d % (2^Width), 2)

-----------------------------------------------------------------------------
\* What was put into the buffer, how much of it was counted, and whether a
\* print said that there is no more room.
Empty == [text |-> <<>>, count |-> 0, eof |-> FALSE]

Appended(b, s) == [b EXCEPT !.text = @ \o s, !.count = @ + Len(s)]

\* buffer_characters_left, an unsigned number: behind the end of the buffer
\* there is no end.
Beyond == 1000
Left(b, room) == IF Len(b.text) <= room THEN room - Len(b.text) ELSE Beyond

\* buffer_print: cut to what is left.  The room for what grows, a tab, and for
\* a quote is judged by what the whole run leaves, so that several tabs in one
\* run can go past the end.  With exactly nothing left the length wraps around:
\* the print goes on past the run, to the next tab or quote in memory.
BufferPrint(b, room, s) ==
  LET left   == Left(b, room)
      length == IF left < Len(s) + 1 THEN left - 1 ELSE Len(s)
      slack  == left - length
      Put(a, c) == CASE a.eof                 -> a
                     [] c = Tab /\ slack < 5   -> [a EXCEPT !.eof = TRUE]
                     [] c = Tab /\ slack >= 5  -> Appended(a, <<Blank, Blank, Blank, Blank>>)
                     [] c = Quote /\ slack < 2 -> [a EXCEPT !.eof = TRUE]
                     [] OTHER                  -> Appended(a, <<c>>)
  IN  CASE left = 1 -> [b EXCEPT !.eof = TRUE]
        [] left = 0 -> [FoldLeft(Put, b, s) EXCEPT !.eof = TRUE]
        [] left > 1 -> FoldLeft(Put, b, SubSeq(s, 1, length))

\* Whether buffer_putchar takes all of s; it refuses only the last place.
Takes(b, room, s) == Left(b, room) = 0 \/ Len(s) < Left(b, room)

\* buffer_putchar, once for each character, up to the first that does not fit.
PutChars(b, room, s) ==
  IF Takes(b, room, s) THEN Appended(b, s)
  ELSE [Appended(b, SubSeq(s, 1, Left(b, room) - 1)) EXCEPT !.eof = TRUE]

\* The pairs of printhex: a character that does not fit is counted, not noticed.
PutPairs(b, room, s) ==
  IF Takes(b, room, s) THEN Appended(b, s)
  ELSE [b EXCEPT !.text = @ \o SubSeq(s, 1, Left(b, room) - 1), !.count = @ + Len(s)]

PutHex(b, room, width, m) ==
  LET padded == PutChars(b, room, Zeros(HexPadding(width, m)))
  IN  CASE padded.eof              -> padded
        [] ~padded.eof /\ m > 256  -> PutPairs(padded, room, HexDigits(m))
        [] ~padded.eof /\ m <= 256 -> PutChars(padded, room, HexDigits(m))

\* The conversions of numbers.
Numeral(b, room, d) ==
  CASE d.kind = "d" -> PutChars(b, room, printdecimal(d.value, FALSE))
    [] d.kind = "u" -> PutChars(b, room, printdecimal(d.value, TRUE))
    [] d.kind = "x" -> PutHex(b, room, d.width, Magnitude(d.value))
    [] d.kind = "b" -> PutChars(b, room, printbin(d.value))

\* A run of text, or a conversion; one of a string may cut it, one of a
\* character counts one, whatever was printed for it.
Directive(b, room, d) ==
  CASE b.eof                            -> b
    [] ~b.eof /\ d.kind = "s" /\ d.width > 0 -> BufferPrint(b, room, SubSeq(d.chars, 1, d.width))
    [] ~b.eof /\ d.kind = "c" -> [BufferPrint(b, room, d.chars) EXCEPT !.count = b.count + 1]
    [] ~b.eof /\ d.kind \in {"d", "u", "x", "b"} -> Numeral(b, room, d)
    [] OTHER                            -> BufferPrint(b, room, d.chars)

\* A conversion that is not known prints the rest of the format as it stands.
UpToBad(f) ==
  LET bad == {i \in DOMAIN f : f[i].kind = "bad"}
  IN  IF bad = {} THEN f ELSE SubSeq(f, 1, CHOOSE i \in bad : \A j \in bad : i <= j)

vsnprintf(f, room) == FoldLeft(LAMBDA b, d : Directive(b, room, d), Empty, UpToBad(f))

-----------------------------------------------------------------------------
\* One more digit: the first accumulator while it is small, then the wide one.
\* NarrowRoomLoose leaves no room for the digit itself.
NarrowRoomLoose(y, base) == y <= NarrowMax \div base

NarrowRoom(y, base) ==
  CASE base = 10              -> y <= (NarrowMax \div 10) - 1
    [] base \in {2, 4, 8, 16, 32} -> y <= NarrowMax \div 32
    [] OTHER                  -> y <= (NarrowMax \div 36) - 1

WideRoom(y, base, c) ==
  IF base \in {2, 4, 8, 16, 32} THEN y <= WideMax \div base
  ELSE y <= WideMax \div base /\ base * y <= WideMax - c

OneMore(s, base, c) ==
  CASE s.narrow /\ NarrowRoom(s.y, base) -> [s EXCEPT !.y = (base * @ + c) % (NarrowMax + 1)]
    [] ~(s.narrow /\ NarrowRoom(s.y, base)) /\ ~s.full /\ WideRoom(s.y, base, c)
         -> [s EXCEPT !.y = (base * @ + c) % (WideMax + 1), !.narrow = FALSE]
    [] OTHER -> [s EXCEPT !.full = TRUE]

\* __intscan: white space, a sign, a prefix, digits; lim is even for the
\* signed types and odd for the unsigned ones.
intscan(s, asked, lim) ==
  LET At(i)  == IF i \in DOMAIN s THEN s[i] ELSE Nul
      first  == CHOOSE i \in 1 .. Len(s) + 1 : At(i) # Blank /\ \A j \in 1 .. i - 1 : At(j) = Blank
      start  == IF At(first) \in {Minus, Plus} THEN first + 1 ELSE first
      zero   == asked \in {0, 16} /\ At(start) = 0
      hex    == zero /\ At(start + 1) = Ex
      base   == CASE hex                 -> 16
                  [] ~hex /\ asked # 0   -> asked
                  [] ~hex /\ asked = 0   -> IF zero THEN 8 ELSE 10
      from   == CASE hex -> start + 2 [] zero /\ ~hex -> start + 1 [] ~zero -> start
      to     == CHOOSE i \in from - 1 .. Len(s) + 1 :
                  At(i + 1) >= base /\ \A j \in from .. i : At(j) < base
      read   == FoldLeft(LAMBDA a, c : OneMore(a, base, c),
                         [y |-> 0, narrow |-> TRUE, full |-> FALSE], SubSeq(s, from, to))
      y      == IF read.full THEN lim ELSE read.y
      neg    == At(first) = Minus /\ ~(read.full /\ lim % 2 = 1)
  IN  CASE (~zero \/ hex) /\ to < from       -> 0
        [] y >= lim /\ lim % 2 = 0 /\ ~neg   -> lim - 1
        [] y > lim /\ ~(lim % 2 = 0 /\ ~neg) -> lim
        [] OTHER -> IF neg THEN (-y) % (2^Width) ELSE y

strtoll(s, base)  == Wrap(intscan(s, base, 2^(Width - 1)))
strtoull(s, base) == intscan(s, base, WideMax)

-----------------------------------------------------------------------------
Nothing == [base |-> 0, signed |-> 0, unsigned |-> 0]

Init ==
  /\ format = <<>> /\ size = 1 /\ text = <<>> /\ said = 0
  /\ back = Nothing

\* snprintf writes the formatted text, and a zero behind as much of it as it
\* says; a full buffer is told by -1, and the zero then goes before the buffer.
snprintf ==
  /\ text = <<>> /\ format = <<>>
  /\ \E f \in Formats :
       LET b == vsnprintf(f.format, f.size)
       IN  /\ format' = f.format
           /\ size' = f.size
           /\ text' = b.text
           /\ said' = IF b.eof THEN -1 ELSE b.count
  /\ UNCHANGED back

\* A text from elsewhere.
Type ==
  /\ text = <<>> /\ format = <<>>
  /\ text' \in Typed
  /\ said' = Len(text')
  /\ UNCHANGED <<format, size, back>>

\* strtoll and strtoull read the text as far as the zero behind it.
Read ==
  /\ text # <<>> /\ said \in 0 .. Len(text) /\ back = Nothing
  /\ \E base \in Bases :
       LET read == SubSeq(text, 1, said)
       IN  back' = [base |-> base, signed |-> strtoll(read, base), unsigned |-> strtoull(read, base)]
  /\ UNCHANGED <<format, size, text, said>>

Next == snprintf \/ Type \/ Read

-----------------------------------------------------------------------------
\* Every variable is of its type.
TypeOK ==
  /\ said \in -1 .. 100 /\ size \in 1 .. 100
  /\ \A i \in DOMAIN text : text[i] \in 0 .. Nul
  /\ back.signed \in Least .. -Least - 1 /\ back.unsigned \in 0 .. WideMax

\* The text of a format if there were room for all of it.
Whole == vsnprintf(format, 100).text

\* Directives that snprintf gets wrong: a run with several tabs and a hexadecimal
\* number written in pairs when they do not fit, a tab as a character always.
Tabs(d)     == Len(SelectSeq(d.chars, LAMBDA c : c = Tab))
SeveralTabs == \E i \in DOMAIN format : Tabs(format[i]) > 1
Pairs       == \E i \in DOMAIN format : format[i].kind = "x" /\ Magnitude(format[i].value) > 256
TabAlone    == \E i \in DOMAIN format : format[i].kind = "c" /\ Tabs(format[i]) > 0

\* Whatever snprintf says, it has left the last place of the buffer alone, for
\* the zero, unless several tabs of a run do not fit.  If it does not say -1 it
\* has written what it says, and has cut it only when the buffer was full, but
\* for the directives above.
TextFits ==
  format # <<>> =>
    /\ ~(SeveralTabs /\ Len(Whole) >= size) => Len(text) < size
    /\ said >= 0 /\ ~TabAlone /\ ~(Len(Whole) >= size /\ (SeveralTabs \/ Pairs))
         => /\ said = Len(text) /\ IsPrefix(text, Whole)
            /\ said < size - 1 => text = Whole

Single(kind) == Len(format) = 1 /\ format[1].kind = kind

\* A number that was printed is read back: in decimal all but the least one,
\* in hexadecimal the positive ones but 256.
NumbersReadBack ==
  back # Nothing /\ said = Len(text) =>
    /\ Single("d") /\ back.base = 10 /\ format[1].value # Least => back.signed = format[1].value
    /\ Single("x") /\ back.base = 16 /\ format[1].value > 0 /\ format[1].value # 256
         => back.signed = format[1].value

\* A typed number, of any length, is read as it is or as the nearest number
\* of the type.
ScansToNearest ==
  back # Nothing /\ format = <<>> /\ back.base # 0 =>
    LET sign   == SelectSeq(text, LAMBDA c : c = Minus)
        digits == SelectSeq(text, LAMBDA c : c < back.base)
        exact  == FoldLeft(LAMBDA n, c : back.base * n + c, 0, digits)
        value  == IF sign = <<>> THEN exact ELSE -exact
    IN  (\A i \in DOMAIN text : text[i] < 36 => text[i] < back.base) =>
          /\ back.signed = CASE value < Least -> Least
                             [] value > -Least - 1 -> -Least - 1
                             [] OTHER -> value
          /\ back.unsigned = IF exact > WideMax THEN WideMax ELSE value % (WideMax + 1)

=============================================================================
