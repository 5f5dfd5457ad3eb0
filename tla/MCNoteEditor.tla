---- MODULE MCNoteEditor ----
EXTENDS NoteEditor
====
