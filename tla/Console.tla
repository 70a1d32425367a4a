------------------------------ MODULE Console ------------------------------
(***************************************************************************)
(* The console (kernel/output_console.c) on the back buffer                *)
(* (kernel/video.c): regions with a cursor each, text that is drawn in     *)
(* cells, line breaks that scroll.                                         *)
(*                                                                         *)
(* A row of the back buffer is a sequence of cells; a character is Width   *)
(* columns wide and Glyph rows high, and its cell is recorded in all those *)
(* rows.  The regions a client creates lie apart and span the screen, and  *)
(* are at least a line high; it does not write in the first context, which *)
(* is the whole screen, once there are others.                             *)
(***************************************************************************)
EXTENDS Integers, Sequences, SequencesExt

CONSTANTS
  Columns, Rows,       \* the screen, in characters and in rows
  Line, Glyph,         \* LINE_HEIGHT_PIXELS, the height of a glyph
  Bands,               \* the regions a client may create: top and bottom
  MaxContexts,         \* MAX_CONSOLE_CONTEXTS
  Alphabet, Texts,     \* the characters, what is written with them
  MaxLines             \* bound: the lines that are written

ASSUME ConsoleAssumption ==
  /\ {Columns, Rows, Line, Glyph, MaxContexts, MaxLines} \subseteq Nat
  /\ Glyph <= Line /\ Line <= Rows /\ 1 <= MaxContexts
  /\ Bands \subseteq [top : 0 .. Rows, bottom : 0 .. Rows]
  /\ \A b \in Bands : b.top + Line <= b.bottom
  /\ Texts \subseteq Seq(Alphabet)

VARIABLES
  contexts,  \* _contexts: top, bottom, the cursor and whether there is a font
  active,    \* _active_context
  screen,    \* the back buffer
  shown,     \* the frame buffer
  lines,     \* for each context, what its lines since the last clear began with
  count      \* lines written

consoleVars == <<contexts, active, screen, shown, lines, count>>

Break == "newline"
Clear == "background"

Blank == [r \in 0 .. Rows - 1 |-> [c \in 1 .. Columns |-> Clear]]

Context(top, bottom) == [top |-> top, bottom |-> bottom, x |-> 0, y |-> top, font |-> FALSE]

ConsoleInit ==
  /\ contexts = <<Context(0, Rows)>>
  /\ active = 1
  /\ screen = Blank
  /\ shown = screen
  /\ lines = << << <<>> >> >>
  /\ count = 0

-----------------------------------------------------------------------------
\* One segment of text at the cursor; beyond the right edge it would go on in
\* the next row, which the texts here do not.
Drawn(sc, x, y, segment) ==
  [r \in DOMAIN sc |->
     IF r \in y .. y + Glyph - 1
     THEN [c \in 1 .. Columns |-> IF c \in x + 1 .. x + Len(segment) THEN segment[c - x] ELSE sc[r][c]]
     ELSE sc[r]]

\* video_scroll_up_region_full_width: the rows from top to bottom get those a
\* strip below them.
video_scroll_up_region_full_width(sc, top, bottom, strip) ==
  [r \in DOMAIN sc |-> IF r \in top .. bottom - 1 THEN sc[r + strip] ELSE sc[r]]

\* The cursor moves down, or the region up; ScrollsLate forgets that the next
\* line has a height too.
ScrollsLate(y, bottom) == y + Line > bottom
Scrolls(y, bottom)     == y + Line > bottom - Line

\* What writing changes: the cursor, the back buffer and the lines of the region.
\* Of a text, start is where the present segment begins.
Writing(x, y, sc, ls, start) == [x |-> x, y |-> y, screen |-> sc, lines |-> ls, start |-> start]

LineBreak(cx, w, start) ==
  IF Scrolls(w.y, cx.bottom)
  THEN Writing(0, w.y, video_scroll_up_region_full_width(w.screen, cx.top, w.y, Line),
               Append(w.lines, <<>>), start)
  ELSE Writing(0, w.y + Line, w.screen, Append(w.lines, <<>>), start)

\* A line begins with the first segment that is written on it.
Begun(ls, segment) ==
  IF Last(ls) = <<>> THEN [ls EXCEPT ![Len(ls)] = segment] ELSE ls

\* The segment is on the line, and drawn if it is to be.
OnLine(w, segment, draws) ==
  Writing(w.x, w.y, IF draws THEN Drawn(w.screen, w.x, w.y, segment) ELSE w.screen,
          Begun(w.lines, segment), w.start)

\* The character at pos.  A segment before a line break is drawn if it has more
\* than one character.
Put(cx, text, pos, w) ==
  LET segment == SubSeq(text, w.start + 1, pos - 1)
  IN  IF text[pos] # Break THEN w ELSE LineBreak(cx, OnLine(w, segment, Len(segment) > 1), pos)

\* The last segment moves the cursor, by the characters of the whole text.
Output(cx, text, start) ==
  LET after[pos \in 0 .. Len(text)] ==
        IF pos = 0 THEN start ELSE Put(cx, text, pos, after[pos - 1])
      end  == after[Len(text)]
      rest == OnLine(end, SubSeq(text, end.start + 1, Len(text)), TRUE)
  IN  IF end.start = Len(text) THEN end
      ELSE Writing(end.x + Len(text), end.y, rest.screen, rest.lines, end.start)

-----------------------------------------------------------------------------
Cx == contexts[active]

At(cx, x, y) == [top |-> cx.top, bottom |-> cx.bottom, x |-> x, y |-> y, font |-> cx.font]

\* What is written becomes visible at once.
Effect(w, n) ==
  /\ contexts' = [contexts EXCEPT ![active] = At(Cx, w.x, w.y)]
  /\ screen' = w.screen
  /\ shown' = w.screen
  /\ lines' = [lines EXCEPT ![active] = w.lines]
  /\ count' = n
  /\ UNCHANGED active

Now == Writing(Cx.x, Cx.y, screen, lines[active], 0)

output_console_create_region ==
  /\ Len(contexts) < MaxContexts
  /\ \E b \in Bands :
       /\ \A i \in 2 .. Len(contexts) :
            b.bottom <= contexts[i].top \/ contexts[i].bottom <= b.top
       /\ contexts' = Append(contexts, Context(b.top, b.bottom))
  /\ lines' = Append(lines, << <<>> >>)
  /\ UNCHANGED <<active, screen, shown, count>>

output_console_activate_region ==
  /\ active' \in DOMAIN contexts
  /\ UNCHANGED <<contexts, screen, shown, lines, count>>

\* A font of a size other than the fixed one is refused, which changes nothing.
output_console_set_font ==
  /\ contexts' = [contexts EXCEPT ![active].font = TRUE]
  /\ UNCHANGED <<active, screen, shown, lines, count>>

\* What other regions wrote is gone: a line that was begun shows nothing more.
Wiped(ls) == [n \in DOMAIN ls |-> IF ls[n] = <<>> THEN <<>> ELSE <<Clear>>]

\* The whole screen is cleared, the cursor of the active context put back.
output_console_clear_screen ==
  /\ contexts' = [contexts EXCEPT ![active] = At(Cx, 0, Cx.top)]
  /\ screen' = Blank
  /\ shown' = screen'
  /\ lines' = [i \in DOMAIN lines |-> IF i = active THEN << <<>> >> ELSE Wiped(lines[i])]
  /\ UNCHANGED <<active, count>>

Usable == Cx.font /\ (active = 1 => Len(contexts) = 1)

output_console_line_break ==
  /\ Usable /\ count < MaxLines
  /\ Effect(LineBreak(Cx, Now, 0), count + 1)

output_console_output_string ==
  /\ Usable
  /\ \E text \in Texts :
       LET n == Len(SelectSeq(text, LAMBDA c : c = Break))
       IN  /\ count + n <= MaxLines
           /\ Cx.x + Len(text) <= Columns
           /\ Effect(Output(Cx, text, Now), count + n)

ConsoleNext ==
  \/ output_console_create_region \/ output_console_activate_region
  \/ output_console_set_font \/ output_console_clear_screen
  \/ output_console_line_break \/ output_console_output_string

ConsoleSpec == ConsoleInit /\ [][ConsoleNext]_consoleVars

-----------------------------------------------------------------------------
\* The contexts that may be written in.
Regions == IF Len(contexts) = 1 THEN {1} ELSE 2 .. Len(contexts)

\* The row of line n of region i, counted from the line of the cursor.
RowOf(i, n) == contexts[i].y - (Len(lines[i]) - n) * Line

\* The cursor of a region is where a whole line fits, and above it stand the
\* lines that were written there, in order, up to the top of the region: a
\* break scrolls neither too late nor into a neighbour.
ConsoleInside ==
  /\ shown = screen
  /\ \A i \in Regions :
       /\ contexts[i].y \in contexts[i].top .. contexts[i].bottom - Line
       /\ \A n \in DOMAIN lines[i] :
            RowOf(i, n) >= contexts[i].top /\ Len(lines[i][n]) > 1 =>
              \A r \in RowOf(i, n) .. RowOf(i, n) + Glyph - 1 : IsPrefix(lines[i][n], screen[r])

=============================================================================
