--------------------------- MODULE MCMarkdownField ---------------------------
EXTENDS MarkdownField

\* Every short text over the plain characters, and pages of two lines.
MCLines == {<<>>, <<"#", "#", SP, "a">>, <<">", "*", "a", "*">>,
            <<SP, "-", SP, "box", SP, "a">>, <<"-", SP, "tick">>, <<"-", SP, "-", SP, "a">>,
            <<"a", "*", "*", "a", "*", "*">>, <<"backtick", "*", "backtick", "a", "*">>}
MCNotes == BoundedSeq({"a", "*", SP, NL}, 4) \cup {l \o <<NL>> \o k : l, k \in MCLines}
=============================================================================
