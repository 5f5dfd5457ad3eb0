---------------------------- MODULE MarkdownField ----------------------------
(***************************************************************************)
(* The body field of the note editor (ui/screen/editor/NoteEditorScreen.kt *)
(* 84-143, 182-240): the text and the caret, the keyboard, the formatting  *)
(* toolbar over the functions of Markdown, a dictation that is inserted,   *)
(* and taps, which come back through the live preview's offset mapping.    *)
(***************************************************************************)
EXTENDS Markdown

CONSTANTS Keys,       \* the characters the user types
          Notes,      \* the texts a visit may begin with
          MaxChanges  \* bound on the changes of one visit

ASSUME FieldAssumption ==
  /\ "a" \in Keys /\ Keys \subseteq Characters
  /\ \A t \in Notes : t \in Seq(Characters)
  /\ MaxChanges \in Nat

VARIABLES text,       \* bodyField.text
          caret,      \* bodyField.selection, collapsed
          changes,    \* history: the changes so far
          thrown      \* a press of the toolbar has thrown, and the app is gone

fieldVars == <<text, caret, changes, thrown>>

FieldTypes ==
  /\ text \in Seq(Characters)
  /\ caret \in 0..Len(text) /\ changes \in 0..MaxChanges
  /\ thrown \in BOOLEAN

Preview == LivePreview(text, caret)

\* A note is loaded with the caret at its end.
FieldInit ==
  /\ text \in Notes
  /\ caret = Len(text)
  /\ changes = 0
  /\ thrown = FALSE

\* applyEdit.
Apply(edit) ==
  /\ changes < MaxChanges
  /\ changes' = changes + 1
  /\ text' = edit.text
  /\ caret' = edit.caret
  /\ UNCHANGED thrown

Insert(s) == Apply([text  |-> Sub(text, 0, caret) \o s \o Sub(text, caret, Len(text)),
                    caret |-> caret + Len(s)])

TypeKey  == \E key \in Keys : Insert(<<key>>)
Erase == caret > 0 /\ Apply([text  |-> RemoveAt(text, caret), caret |-> caret - 1])

\* The effect on finalResult inserts at the caret, after a space.
Dictate == Insert(IF text = <<>> THEN <<"a">> ELSE <<SP, "a">>)

\* A tap on a display column.
Tap ==
  /\ LET p == Preview IN \E col \in 0..Len(p.sb) : caret' = ToOriginal(p, col)
  /\ UNCHANGED <<text, changes, thrown>>

Wrap == \E m \in Markers : Apply(ToggleWrap(text, caret, m))

Prefix ==
  /\ ~Throws(text, caret)
  /\ \E kind \in PrefixKinds : Apply(ToggleLinePrefix(text, caret, kind))

Throw ==
  /\ Throws(text, caret)
  /\ thrown' = TRUE
  /\ UNCHANGED <<text, caret, changes>>

FieldNext == ~thrown /\ (TypeKey \/ Erase \/ Dictate \/ Tap \/ Wrap \/ Prefix \/ Throw)

FieldSpec == FieldInit /\ [][FieldNext]_fieldVars

-----------------------------------------------------------------------------
\* The line of an offset, counted by the newlines before it.
LineNumber(t, i) == Cardinality({k \in 1..i : t[k] = NL})

\* The preview and the reader agree: line by line, what is shown away from the
\* caret is the ornament of the block and the texts of its inline spans.
Shown ==
  LET from[s \in 0..Len(text)] ==
        LET e    == LineEnd(text, s)
            line == Sub(text, s, e)
            b    == ParseLine(line)
            here == IF Verbatim(text, s, e, caret) THEN line
                    ELSE Ornament(b.kind) \o Spans(Sub(line, b.prefix, Len(line)))
        IN IF e = Len(text) THEN here ELSE Append(here, NL) \o from[e + 1]
  IN from[0]

\* What the live preview p of the text has to keep.
Anchored(p) ==
  LET visible(i) == p.map[i + 1] > p.map[i]
  IN /\ p.sb = Shown
     /\ \A i \in 0..Len(text) : p.map[i] \in 0..Len(p.sb)
     /\ p.map[Len(text)] = Len(p.sb)
     /\ \A i \in 0..(Len(text) - 1) :
          /\ p.map[i] <= p.map[i + 1]
          /\ visible(i) => p.sb[p.map[i] + 1] = text[i + 1]
          /\ text[i + 1] \in {"a", NL} => visible(i)
     /\ \A col \in 0..Len(p.sb) :
          LET i == ToOriginal(p, col)
          IN i < Len(text) /\ p.map[i] <= col => visible(i)

\* "A real OffsetMapping keeps the caret and selections anchored to the
\* untouched source" (MarkdownRender.kt:248): the columns stay within the
\* display and in order, a character is shown at its own column, the display is
\* what the reader would show, and wherever the user taps, the caret comes to
\* stand before the last character shown at or before that column -- never inside
\* a hidden marker.  A tap on an ornament so leaves it before the newline that
\* ends the line above, or at the beginning of the text.
PreviewIsAnchored == Anchored(Preview)

\* The characters of a text that no press may touch, in order: SelectSeq in a
\* form that a proof can unfold.
Words(t) ==
  LET upto[i \in 0..Len(t)] ==
        IF i = 0 THEN <<>>
        ELSE IF t[i] \in {"a", NL} THEN Append(upto[i - 1], t[i])
        ELSE upto[i - 1]
  IN upto[Len(t)]

\* A press where another one has left the text and the caret.
Press(edit, kind) == ToggleLinePrefix(edit.text, edit.caret, kind)

\* What a press of the toolbar has put in, pressing again takes out: a marker
\* around the word the caret is still in, a prefix wherever the caret was left,
\* and a heading after its three levels.  No press touches anything but marker
\* characters.
PressTakesBack ==
  /\ \A m \in Markers :
       LET once   == ToggleWrap(text, caret, m)
           inWord == caret < Len(text) /\ text[caret + 1] \notin Whitespace
           again  == ToggleWrap(once.text, caret + Len(m), m)
       IN /\ Words(once.text) = Words(text)
          /\ once.caret \in 0..Len(once.text)
          /\ inWord /\ Len(once.text) > Len(text) => again.text = text
  /\ ~Throws(text, caret) =>
       LET now == [text |-> text, caret |-> caret]
       IN /\ \A kind \in PrefixKinds \ {"HEADING"} :
               LET once == Press(now, kind)
               IN /\ Words(once.text) = Words(text)
                  /\ Len(once.text) > Len(text) => Press(once, kind) = now
          /\ LET third == Press(Press(Press(now, "HEADING"), "HEADING"), "HEADING")
             IN /\ Words(Press(now, "HEADING").text) = Words(text)
                /\ HeadingPrefix(Sub(text, LineStart(text, caret), LineEnd(text, caret))) = 0
                     => Press(third, "HEADING") = now

\* A press changes the line of the caret and leaves the caret on it, with two
\* exceptions of the code: removing a quote, bullet or box from under the caret
\* carries it to an earlier line, and with the caret before a newline that
\* begins the text the press throws.
PrefixKeepsLine ==
  IF Throws(text, caret) THEN caret = 0 /\ text[1] = NL
  ELSE \A kind \in PrefixKinds :
         LET e     == ToggleLinePrefix(text, caret, kind)
             under == kind # "HEADING" /\ Len(e.text) < Len(text)
                        /\ caret - LineStart(text, caret) < Len(PlainPrefix(kind))
         IN LineNumber(e.text, e.caret) = LineNumber(text, caret) \/ under

\* "A second press on already-wrapped text unwraps it" (Markdown.kt:130), where
\* the first press has left the caret.  Refuted by TLC.
SecondPressUnwraps ==
  \A m \in Markers :
    LET once == ToggleWrap(text, caret, m)
    IN Len(once.text) > Len(text) => ToggleWrap(once.text, once.caret, m).text = text
=============================================================================
