------------------------------- MODULE Console -------------------------------
(****************************************************************************)
(* text.c and color.c: sys_write to the screen.  Text is a sequence of      *)
(* characters; the colour sequences in it are not shown but set the colour  *)
(* of what follows.  A glyph is one column wide; the code never scrolls.    *)
(****************************************************************************)
EXTENDS Integers, Sequences, SequencesExt

CONSTANT Width      \* columns of the screen

ASSUME WidthAssumption == Width \in Nat \ {0}

\* s_colors, as far as two entries tell: a shared beginning, then what differs, then the end.
s_colors == << [ansi |-> <<"E", "0", "m">>, shell |-> "white"],
               [ansi |-> <<"E", "3", "m">>, shell |-> "red"] >>

VARIABLES
    str, size,      \* the buffer of the current sys_write, and how much of it is to be written
    i,              \* text_output_size's index, from 0
    s_color_state,
    s_cursor,
    screen          \* the glyphs drawn: character, colour and place

consoleVars == <<str, size, i, s_color_state, s_cursor, screen>>

ConsoleInit ==
    /\ str = <<>> /\ size = 0 /\ i = 0
    /\ s_color_state = "foreground"
    /\ s_cursor = [x |-> 0, y |-> 0]
    /\ screen = <<>>

\* color_from_ansi: the index of the colour whose sequence starts here, or 0.  The comparison does
\* not know about size and reads on to the end of the sequence.
color_from_ansi(s, k) ==
    SelectInSeq(s_colors, LAMBDA c : IsPrefix(c.ansi, SubSeq(s, k + 1, Len(s))))

TextPending == i < size

\* sys_write(STDOUT, buffer, count)
sys_write(buffer, count) ==
    /\ ~TextPending
    /\ str' = buffer /\ size' = count /\ i' = 0
    /\ UNCHANGED <<s_color_state, s_cursor, screen>>

OutputColor_KeepsEnd ==
    /\ TextPending /\ color_from_ansi(str, i) # 0
    /\ LET c == s_colors[color_from_ansi(str, i)]
       IN s_color_state' = c.shell /\ i' = i + Len(c.ansi) - 1
    /\ UNCHANGED <<str, size, s_cursor, screen>>

\* A turn of the loop that finds a colour: skip its sequence.
OutputColor ==
    /\ TextPending /\ color_from_ansi(str, i) # 0
    /\ LET c == s_colors[color_from_ansi(str, i)]
       IN s_color_state' = c.shell /\ i' = i + Len(c.ansi)
    /\ UNCHANGED <<str, size, s_cursor, screen>>

Newline(cursor) == [x |-> 0, y |-> cursor.y + 1]

\* A turn that does not: text_output_char_color.
OutputChar ==
    /\ TextPending /\ color_from_ansi(str, i) = 0
    /\ \/ str[i + 1] = "\n" /\ s_cursor' = Newline(s_cursor) /\ UNCHANGED screen
       \/ /\ str[i + 1] # "\n"
          /\ screen' = Append(screen, [chr |-> str[i + 1], color |-> s_color_state, at |-> s_cursor])
          /\ s_cursor' = IF s_cursor.x + 1 < Width THEN [s_cursor EXCEPT !.x = @ + 1]
                         ELSE Newline(s_cursor)
    /\ i' = i + 1
    /\ UNCHANGED <<str, size, s_color_state>>

ConsoleNext == OutputColor \/ OutputChar

------------------------------------------------------------------------------
(* What should be on the screen, position by position.                      *)

\* The colour sequence, if any, whose first character is at position k (from 1) of s.
StartsColor(s, k) == \E c \in DOMAIN s_colors : IsPrefix(s_colors[c].ansi, SubSeq(s, k, Len(s)))
InColor(s, k) == \E j \in 1..k : StartsColor(s, j) /\ \A l \in j..k - 1 : s[l] # "m"

\* The positions that show a glyph, and the colour that holds there.
Shown(s, n) == {k \in 1..n : ~InColor(s, k) /\ s[k] # "\n"}
ColorAt(s, k, before) ==
    LET starts == {j \in 1..k : StartsColor(s, j)}
    IN IF starts = {} THEN before
       ELSE s_colors[CHOOSE c \in DOMAIN s_colors : IsPrefix(s_colors[c].ansi, SubSeq(s, Max(starts), Len(s)))].shell
==============================================================================
