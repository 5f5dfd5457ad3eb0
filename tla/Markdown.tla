------------------------------ MODULE Markdown ------------------------------
(***************************************************************************)
(* The pure functions of the note body's Markdown: the toolbar's           *)
(* transformations (ui/markdown/Markdown.kt), the reader's inline spans,   *)
(* and the live preview of the editor with its two-way offset mapping      *)
(* (ui/markdown/MarkdownRender.kt).  A text is a sequence of characters;   *)
(* an offset is the code's, counted from 0, and a caret stands before the  *)
(* character of its offset.  "a" is any character without a meaning, and   *)
(* the three characters of an empty or ticked box "[ ]", "[x]" are one.    *)
(***************************************************************************)
EXTENDS Integers, Sequences, SequencesExt

NL     == "newline"
SP     == "space"
Whitespace  == {SP, NL}
Boxes  == {"box", "tick"}
Characters == {"a", "*", "backtick", "#", ">", "-"} \cup Whitespace \cup Boxes
Strong == <<"*", "*">>
Slant  == <<"*">>
Code   == <<"backtick">>
Markers     == {Strong, Slant, Code}
PrefixKinds == {"HEADING", "QUOTE", "BULLET", "CHECK"}

\* The characters of t from offset i up to, not including, offset j.
Sub(t, i, j) == SubSeq(t, i + 1, j)

\* t with its characters from offset i up to offset j replaced.
Spliced(t, i, new, j) == Sub(t, 0, i) \o new \o Sub(t, j, Len(t))

\* regionMatches: m stands in t at offset i.
StandsAt(t, i, m) == i >= 0 /\ i + Len(m) <= Len(t) /\ Sub(t, i, i + Len(m)) = m

Least(S)    == CHOOSE x \in S : \A y \in S : x <= y
Greatest(S) == CHOOSE x \in S : \A y \in S : x >= y

\* indexOf('\n', i), or the length of the text.
LineEnd(t, i) == Least({j \in i..Len(t) : j = Len(t) \/ t[j + 1] = NL} \cup {Len(t)})

\* Mutant: lastIndexOf from the offset itself.
LineStartAt(t, i) ==
  Greatest({0} \cup {k + 1 : k \in {j \in 0..(Len(t) - 1) : j <= i /\ t[j + 1] = NL}})

\* lastIndexOf('\n', i - 1 but not below 0) + 1.
LineStart(t, i) ==
  Greatest({0} \cup {j + 1 : j \in {k \in 0..(Len(t) - 1) :
                                      /\ k <= (IF i > 0 THEN i - 1 ELSE 0)
                                      /\ t[k + 1] = NL}})

-----------------------------------------------------------------------------
(* Blocks: what the beginning of a line makes of it.                       *)

Hashes(k) == [i \in 1..(k + 1) |-> IF i <= k THEN "#" ELSE SP]

\* The prefix of a heading, 0 if the line is none.
HeadingPrefix(line) ==
  Greatest({0} \cup {k + 1 : k \in {l \in 1..3 : StandsAt(line, 0, Hashes(l))}})

Indent(line) == Least({i \in 0..Len(line) : i = Len(line) \/ line[i + 1] # SP})

\* The offset after at most one space.
Gap(line, i) == IF StandsAt(line, i, <<SP>>) THEN i + 1 ELSE i

\* parseLine: the kind of a line and the length of the prefix that says so.
ParseLine(line) ==
  LET w       == Indent(line)
      check   == StandsAt(line, w, <<"-", SP>>) /\ w + 2 < Len(line)
                   /\ line[w + 3] \in Boxes
      bullet  == IF StandsAt(line, w, <<"-">>) THEN Gap(line, w + 1) ELSE 0
      listed  == ~check /\ bullet > 0 /\ \E i \in (bullet + 1)..Len(line) : line[i] # SP
  IN CASE check                   -> [kind |-> "check", prefix |-> Gap(line, w + 3)]
       [] HeadingPrefix(line) > 0 -> [kind |-> "heading", prefix |-> HeadingPrefix(line)]
       [] StandsAt(line, 0, <<">">>) -> [kind |-> "quote", prefix |-> Gap(line, 1)]
       [] listed                  -> [kind |-> "list", prefix |-> bullet]
       [] OTHER                   -> [kind |-> "paragraph", prefix |-> 0]

-----------------------------------------------------------------------------
(* Inline markers: **bold**, *italic* and `code`.                          *)

\* The matches of the three patterns from offset i on: the marker, where it
\* opens and where it closes.  A match has content; code has no quote inside.
Matches(b, i) ==
  {x \in [mark : Markers, open : i..Len(b), close : i..Len(b)] :
     LET from == x.open + Len(x.mark)
     IN /\ x.close > from
        /\ StandsAt(b, x.open, x.mark) /\ StandsAt(b, x.close, x.mark)
        /\ x.mark = Code => \A j \in from..(x.close - 1) : b[j + 1] # "backtick"}

\* A regular expression takes the leftmost match, there the first alternative
\* that matches, and of that the shortest content.
Earlier(x, y) ==
  \/ x.open < y.open
  \/ x.open = y.open /\ Len(x.mark) > Len(y.mark)
  \/ x.open = y.open /\ x.mark = y.mark /\ x.close <= y.close

\* findInline, of the matches M.
FindInline(M) == CHOOSE x \in M : \A y \in M : Earlier(x, y)

\* spans: what the reader shows of a line, the texts of its spans in a row.
Spans(b) ==
  LET from[i \in 0..Len(b)] ==
        LET M == Matches(b, i)
            x == FindInline(M)
        IN IF M = {} THEN Sub(b, i, Len(b))
           ELSE Sub(b, i, x.open) \o Sub(b, x.open + Len(x.mark), x.close)
                  \o from[x.close + Len(x.mark)]
  IN from[0]

-----------------------------------------------------------------------------
(* The live preview: the display sb and the column map of every offset,    *)
(* each part with its columns counted from its own beginning.              *)

\* appendBodyHidingMarkers: of body b from an offset on, up to its end.  A marker
\* has the column of the character that is shown next.
BodyPreview(b) ==
  LET from[i \in 0..Len(b)] ==
        LET M     == Matches(b, i)
            x     == FindInline(M)
            inner == x.open + Len(x.mark)
            next  == x.close + Len(x.mark)
            plain == x.open - i
            width == plain + x.close - inner
            rest  == from[next]
        IN IF M = {}
             THEN [sb |-> Sub(b, i, Len(b)), map |-> [k \in i..Len(b) |-> k - i]]
             ELSE [sb  |-> Sub(b, i, x.open) \o Sub(b, inner, x.close) \o rest.sb,
                   map |-> [k \in i..Len(b) |->
                              CASE k < x.open               -> k - i
                                [] k \in x.open..(inner - 1)  -> plain
                                [] k \in inner..(x.close - 1) -> plain + k - inner
                                [] k \in x.close..(next - 1) -> width
                                [] k >= next                -> width + rest.map[k]]]
  IN from[0]

\* What is shown in place of the prefix of a line.
Ornament(kind) ==
  CASE kind = "quote" -> <<"bar", SP>>
    [] kind = "check" -> <<"mark", SP>>
    [] kind = "list"  -> <<"dot", SP, SP>>
    [] OTHER          -> <<>>

\* A line is shown as it is written if the caret is on it or it is blank.
Verbatim(t, s, e, cursor) ==
  cursor \in s..e \/ \A i \in (s + 1)..e : t[i] = SP

\* One line of livePreviewTransform, the one of offsets s..e.
LinePreview(t, s, e, cursor) ==
  LET line  == Sub(t, s, e)
      block == ParseLine(line)
      lead  == Ornament(block.kind)
      body  == BodyPreview(Sub(line, block.prefix, Len(line)))
  IN IF Verbatim(t, s, e, cursor)
       THEN [sb |-> line, map |-> [k \in s..e |-> k - s]]
       ELSE [sb  |-> lead \o body.sb,
             map |-> [k \in s..e |->
                        IF k - s < block.prefix THEN Len(lead)
                        ELSE Len(lead) + body.map[k - s - block.prefix]]]

\* livePreviewTransform: of text t from the beginning of a line on.
LivePreview(t, cursor) ==
  LET from[s \in 0..Len(t)] ==
        LET e    == LineEnd(t, s)
            line == LinePreview(t, s, e, cursor)
            rest == from[e + 1]
        IN IF e = Len(t) THEN line
           ELSE [sb  |-> Append(line.sb, NL) \o rest.sb,
                 map |-> [k \in s..Len(t) |->
                            IF k <= e THEN line.map[k]
                            ELSE Len(line.sb) + 1 + rest.map[k]]]
  IN from[0]

\* Mutant: the first offset at or after a display column.
ToFirstOriginal(p, col) ==
  Least({Greatest(DOMAIN p.map)} \cup {i \in DOMAIN p.map : p.map[i] >= col})

\* transformedToOriginal: the last offset at or before a display column.
ToOriginal(p, col) ==
  Greatest({0} \cup {i \in DOMAIN p.map : p.map[i] <= col})

-----------------------------------------------------------------------------
(* The toolbar.  An edit is the new text and where the caret goes.         *)

\* selectionBounds: the word around the caret, and the markers next to it.
SelectionBounds(t, cursor, m) ==
  LET inWord == cursor < Len(t) /\ t[cursor + 1] \notin Whitespace
      left   == IF inWord
                  THEN Least({i \in 0..cursor : \A j \in i..cursor : t[j + 1] \notin Whitespace})
                  ELSE cursor
      right  == IF inWord
                  THEN Greatest({i \in cursor..Len(t) :
                                   \A j \in cursor..(i - 1) : t[j + 1] \notin Whitespace})
                  ELSE cursor
      \* how many markers stand in a row from an offset on, in steps of one marker
      runs(from, step) == Greatest({k \in 0..Len(t) :
                                      \A j \in 1..k : StandsAt(t, from + j * step, m)})
      L      == Len(m)
  IN [start |-> left - L * runs(left, -L), end |-> right + L * runs(right - L, L)]

\* The selection carries the marker on both ends.
Wrapped(t, b, m) ==
  /\ b.end - b.start >= 2 * Len(m)
  /\ StandsAt(t, b.start, m) /\ StandsAt(t, b.end - Len(m), m)

ToggleWrap(t, cursor, m) ==
  LET b     == SelectionBounds(t, cursor, m)
      inner == Sub(t, b.start + Len(m), b.end - Len(m))
      whole == Sub(t, b.start, b.end)
      edit(middle, c) == [text |-> Spliced(t, b.start, middle, b.end), caret |-> c]
  IN IF Wrapped(t, b, m) THEN edit(inner, b.start)
     ELSE edit(m \o whole \o m,
               IF b.start = b.end THEN b.start + Len(m) ELSE b.end + 2 * Len(m))

PlainPrefix(kind) ==
  CASE kind = "QUOTE"  -> <<">", SP>>
    [] kind = "BULLET" -> <<"-", SP>>
    [] kind = "CHECK"  -> <<"-", SP, "box", SP>>

\* togglePlainPrefix.
TogglePlainPrefix(line, cursor, prefix) ==
  IF StandsAt(line, 0, prefix)
    THEN [text |-> Sub(line, Len(prefix), Len(line)),
          caret |-> IF cursor > Len(prefix) THEN cursor - Len(prefix) ELSE 0]
    ELSE [text |-> prefix \o line, caret |-> cursor + Len(prefix)]

\* Mutant: the third level gets a fourth.
CycleHeadingPast(line, cursor, start) ==
  LET h == HeadingPrefix(line)
  IN IF h = 0 THEN [text |-> <<"#", SP>> \o line, caret |-> cursor + 2]
     ELSE [text |-> <<"#">> \o line, caret |-> cursor + 1]

\* The heading of a line goes up one level, and from the third to none.
CycleHeading(line, cursor, start) ==
  LET h == HeadingPrefix(line)
  IN CASE h = 0 -> [text |-> <<"#", SP>> \o line, caret |-> cursor + 2]
       [] h \in 2..3 -> [text |-> <<"#">> \o line, caret |-> cursor + 1]
       [] h = 4 -> [text |-> Sub(line, h, Len(line)),
                    caret |-> IF cursor - h > start THEN cursor - h ELSE start]

\* substring(lineStart, lineEnd) throws.
Throws(t, cursor) == LineStart(t, cursor) > LineEnd(t, cursor)

\* What a press makes of a line that begins at offset start.
PressLine(line, cursor, start, kind) ==
  IF kind = "HEADING" THEN CycleHeading(line, cursor, start)
  ELSE TogglePlainPrefix(line, cursor, PlainPrefix(kind))

ToggleLinePrefix(t, cursor, kind) ==
  LET s    == LineStart(t, cursor)
      e    == LineEnd(t, cursor)
      new  == PressLine(Sub(t, s, e), cursor, s, kind)
      made == Spliced(t, s, new.text, e)
  IN [text |-> made, caret |-> IF new.caret > Len(made) THEN Len(made) ELSE new.caret]
=============================================================================
