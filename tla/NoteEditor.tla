----------------------------- MODULE NoteEditor -----------------------------
(***************************************************************************)
(* The note editor: NoteEditorViewModel over its DAO calls.                *)
(*                                                                         *)
(* Its coroutines run on Dispatchers.Main.immediate, so they interleave    *)
(* with the user and with each other only where they are suspended: in the *)
(* debounce, in the language model, and in a DAO call.  A call first waits *)
(* for the database ("call"), then, executed, for the main thread          *)
(* ("back").  Room executes writes one at a time in the order they were    *)
(* issued, reads whenever it likes.  Cancelling a coroutine drops a write  *)
(* that waits its turn, but not one that is being executed.                *)
(*                                                                         *)
(* Back and delete only pop the editor: its view model, with all that its  *)
(* coroutines do, lives on until the exit transition has ended.            *)
(*                                                                         *)
(* A text is the number of the edit that made it, 0 the blank one; a list  *)
(* of tags is the set of the edits that made it, 0 the model's suggestion. *)
(***************************************************************************)
EXTENDS Integers, Sequences, FiniteSets

CONSTANTS MaxEdits,     \* bound on the user's edits and deletes, one delete more
          MaxVisits     \* bound on the visits to the editor

ASSUME EditorAssumption == {MaxEdits, MaxVisits} \subseteq Nat

VARIABLES
  rows, nextId,         \* the notes of the entries table
  writes,               \* the writes Room has not executed yet, in order
  open, visits,         \* does an editor's view model live, and how many there were
  popped,               \* its screen is on its way out
  noteId, note,         \* the view model's noteId and the id in _note (0 is null)
  screen,               \* title and body, _tags and _pinned
  edits,                \* what the user has done so far
  job                   \* the coroutines of viewModelScope, by what they do

VARIABLES
  opened,               \* history: the row this visit was opened on, or 0
  inserted,             \* history: rows inserted for this visit
  deleting,             \* history: the delete button was the user's last word
  mishaps               \* history: what came between two steps of a coroutine

table   == <<rows, nextId>>
ui      == <<open, popped, visits, opened>>
model   == <<noteId, note, screen>>
history == <<inserted, deleting, mishaps>>
vars == <<table, writes, ui, model, edits, job, history>>

\* One coroutine for every tap; at most two of a kind are at work, the second
\* only beside the first.
Pins    == {"pin1", "pin2"}
Deletes == {"delete1", "delete2"}
Jobs    == {"load", "autosave", "ai"} \cup Pins \cup Deletes

Row   == [text : Nat, tags : SUBSET (0..MaxEdits), pinned : BOOLEAN, summary : Nat]
Blank == [text |-> 0, tags |-> {}, pinned |-> FALSE, summary |-> 0]
Ended == [pc |-> "none", op |-> "none", id |-> 0, row |-> Blank]

Mishaps == {"insert",   \* an insert was cancelled, doubled, or came before the load
            "reread",   \* the row was inserted, but not read back into _note
            "unread",   \* delete found _note null while a coroutine was at work
            "crossed",  \* a row was written while another coroutine was about to
            "late"}     \* the opened row was written by a coroutine of an earlier visit

Reads == {"load", "reread", "existing", "summarized"}

Init ==
  /\ rows = [i \in {1} |-> [Blank EXCEPT !.text = 1]] /\ nextId = 2 /\ writes = <<>>
  /\ open = FALSE /\ popped = FALSE /\ visits = 0 /\ opened = 0
  /\ noteId = 0 /\ note = 0 /\ screen = Blank
  /\ edits = 0
  /\ job = [j \in Jobs |-> Ended]
  /\ inserted = {} /\ deleting = FALSE /\ mishaps = {}

-----------------------------------------------------------------------------
(* Coroutines and their DAO calls.                                         *)

Active(j) == job[j].pc # "none"
Calling(j, ops) == Active(j) /\ job[j].op \in ops /\ job[j].pc \in {"call", "back"}

Go(j, step) == job' = [job EXCEPT ![j] = step]
Call(o, id, row) == [pc |-> "call", op |-> o, id |-> id, row |-> row]
Write(j) == [by |-> j, op |-> job'[j].op, id |-> job'[j].id, row |-> job'[j].row]

\* The call of j is executed, and j is to go on with this row.
Answer(j, id, row) == Go(j, [pc |-> "back", op |-> job[j].op, id |-> id, row |-> row])

\* The coroutines J are cancelled: what they wait to write is dropped, except
\* that Room may be executing the first write of all.
InOrder(S) == {f \in [1..Cardinality(S) -> S] : \A a, b \in DOMAIN f : a < b => f[a] < f[b]}
Kept(J) ==
  LET others == InOrder({i \in DOMAIN writes : writes[i].by \notin J})
      rest   == {[k \in DOMAIN f |-> writes[f[k]]] : f \in others}
  IN rest \cup IF writes # <<>> /\ Head(writes).by \in J
                 THEN {<<[Head(writes) EXCEPT !.by = "nobody"]>> \o r : r \in rest}
                 ELSE {}

CutShort(J) == {o \in {"insert", "reread"} : \E j \in J : Calling(j, {o})}

\* Two inserts for one note: the first has not come back yet, or the note that
\* is being loaded exists already.
DoubleInsert(J) ==
  IF \E k \in Jobs \ J : Calling(k, {"insert", "load"}) THEN {"insert"} ELSE {}

\* Coroutine j, which replaces those of J, calls save(): it reads the view model
\* and issues its first DAO call.
Save(j, J, scr) ==
  /\ \E kept \in Kept(J) :
       IF noteId = 0
         THEN /\ job' = [k \in Jobs |-> IF k = j THEN Call("insert", 0, scr)
                                       ELSE IF k \in J THEN Ended ELSE job[k]]
              /\ writes' = Append(kept, Write(j))
              /\ mishaps' = mishaps \cup CutShort(J) \cup DoubleInsert(J \cup {j})
         ELSE /\ job' = [k \in Jobs |-> IF k = j THEN Call("existing", noteId, scr)
                                       ELSE IF k \in J THEN Ended ELSE job[k]]
              /\ writes' = kept
              /\ mishaps' = mishaps \cup CutShort(J)
  /\ UNCHANGED inserted

-----------------------------------------------------------------------------
(* The user.                                                               *)

\* A new editor for a stored note, which is loaded, or for a new one.
Open(id) ==
  /\ ~open /\ visits < MaxVisits
  /\ open' = TRUE /\ visits' = visits + 1 /\ opened' = id /\ UNCHANGED popped
  /\ noteId' = 0 /\ note' = 0 /\ screen' = Blank
  /\ job' = [j \in Jobs |-> IF j = "load" /\ id # 0 THEN Call("load", id, Blank) ELSE Ended]
  /\ writes' = [i \in DOMAIN writes |-> [writes[i] EXCEPT !.by = "left"]]
  /\ inserted' = {} /\ deleting' = FALSE /\ mishaps' = {}
  /\ UNCHANGED <<table, edits>>

\* What the user does in a screen, which still takes input while it slides out.
Act(bound) == open /\ edits < bound /\ edits' = edits + 1

\* An edit after a delete that found no note starts a new one.
Edit == Act(MaxEdits) /\ deleting' = (deleting /\ note # 0)

\* Mutant: an autosave that is pending or under way is left to run.
TypeOnce ==
  /\ Edit
  /\ screen' = [screen EXCEPT !.text = edits' + 1]
  /\ IF Active("autosave") THEN UNCHANGED job
     ELSE job' = [job EXCEPT !["autosave"] = [Ended EXCEPT !.pc = "delay"]]
  /\ UNCHANGED <<table, writes, ui, noteId, note, inserted, mishaps>>

\* onTextChanged: the debounce starts anew.
Type ==
  /\ Edit
  /\ screen' = [screen EXCEPT !.text = edits' + 1]
  /\ writes' \in Kept({"autosave"})
  /\ mishaps' = mishaps \cup CutShort({"autosave"})
  /\ job' = [job EXCEPT !["autosave"] = [Ended EXCEPT !.pc = "delay"]]
  /\ UNCHANGED <<table, ui, noteId, note, inserted>>

\* addTag and removeTag: saved at once, in the autosave's place.
EditTags ==
  /\ Edit
  /\ screen' = [screen EXCEPT !.tags = @ \cup {edits'}]
  /\ Save("autosave", {"autosave"}, screen')
  /\ UNCHANGED <<table, ui, noteId, note>>

\* togglePinned works on the note that was read back, and writes one column.
TogglePinned(p) ==
  /\ note # 0 /\ ~Active(p) /\ (p = "pin2" => Active("pin1")) /\ Edit
  /\ screen' = [screen EXCEPT !.pinned = ~@]
  /\ Go(p, Call("setPinned", note, screen'))
  /\ writes' = Append(writes, Write(p))
  /\ UNCHANGED <<table, ui, noteId, note, inserted, mishaps>>

\* summarize and suggestTags; both buttons are disabled while one is at work.
AskModel(o) ==
  /\ screen.text > 0 /\ ~Active("ai") /\ Edit
  /\ job' = [job EXCEPT !["ai"] = [Ended EXCEPT !.pc = "thinking", !.op = o, !.row = screen]]
  /\ UNCHANGED <<table, writes, ui, model, inserted, mishaps>>

\* Back pops the editor, and so does the end of a delete.
Back ==
  /\ open /\ ~popped
  /\ popped' = TRUE
  /\ UNCHANGED <<table, writes, open, visits, opened, model, edits, job, history>>

\* delete: without a note that was read back there is nothing to delete.
Delete(d) ==
  /\ Act(MaxEdits + 1)
  /\ IF note = 0
       THEN /\ popped' = TRUE /\ deleting' = TRUE
            /\ mishaps' = mishaps \cup IF \E j \in Jobs : Active(j) THEN {"unread"} ELSE {}
            /\ UNCHANGED <<job, writes>>
       ELSE /\ ~Active(d) /\ (d = "delete2" => Active("delete1"))
            /\ Go(d, Call("delete", note, Blank))
            /\ writes' = Append(writes, Write(d))
            /\ UNCHANGED <<popped, deleting, mishaps>>
  /\ UNCHANGED <<table, open, visits, opened, model, inserted>>

\* The exit transition has ended: onCleared cancels every coroutine of the view
\* model, which is gone then.
Cleared ==
  /\ open /\ popped
  /\ open' = FALSE /\ popped' = FALSE
  /\ noteId' = 0 /\ note' = 0 /\ screen' = Blank
  /\ writes' \in Kept(Jobs)
  /\ mishaps' = mishaps \cup CutShort(Jobs)
  /\ job' = [j \in Jobs |-> Ended]
  /\ UNCHANGED <<table, visits, opened, edits, inserted, deleting>>

-----------------------------------------------------------------------------
(* The database.                                                           *)

\* What the coroutine goes on with after reading a row: the copy it will write,
\* with the columns of upsertNote or setSummary replaced, or the row itself.
AfterRead(o, draft, stored) ==
  CASE o = "existing"   -> [stored EXCEPT !.text = draft.text, !.tags = draft.tags]
    [] o = "summarized" -> [stored EXCEPT !.summary = draft.text]
    [] OTHER            -> stored

\* dao.byId; a row that is gone is read as null, here id 0.
ReadRow(j) ==
  /\ job[j].pc = "call" /\ job[j].op \in Reads
  /\ IF job[j].id \in DOMAIN rows
       THEN Answer(j, job[j].id, AfterRead(job[j].op, job[j].row, rows[job[j].id]))
       ELSE Answer(j, 0, job[j].row)
  /\ UNCHANGED <<table, writes, ui, model, edits, history>>

\* Coroutines that hold what they read, or are to save, from before the write w.
Crossed(w) ==
  \E k \in Jobs \ {w.by} :
    /\ job[k].id = w.id
    /\ \/ Calling(k, {"update"})
       \/ Calling(k, {"existing", "summarized"}) /\ job[k].pc = "back"
       \/ Calling(k, {"existing"}) /\ w.op = "update"

\* Mutant: an update inserts the row if it is gone, as REPLACE would.
Replaced(w) ==
  CASE w.op = "update"    -> [i \in DOMAIN rows \cup {w.id} |-> IF i = w.id THEN w.row ELSE rows[i]]
    [] w.op = "setPinned" -> [i \in DOMAIN rows |->
                                IF i = w.id THEN [rows[i] EXCEPT !.pinned = w.row.pinned]
                                            ELSE rows[i]]
    [] w.op = "delete"    -> [i \in DOMAIN rows \ {w.id} |-> rows[i]]

\* dao.update, dao.setPinned and dao.deleteById: no row, no change.
Updated(w) ==
  CASE w.op = "update"    -> [i \in DOMAIN rows |-> IF i = w.id THEN w.row ELSE rows[i]]
    [] w.op = "setPinned" -> [i \in DOMAIN rows |->
                                IF i = w.id THEN [rows[i] EXCEPT !.pinned = w.row.pinned]
                                            ELSE rows[i]]
    [] w.op = "delete"    -> [i \in DOMAIN rows \ {w.id} |-> rows[i]]

\* dao.insert: the id is generated.
InsertRow(row) ==
  /\ rows' = [i \in DOMAIN rows \cup {nextId} |-> IF i = nextId THEN row ELSE rows[i]]
  /\ nextId' = nextId + 1

\* Room's next write; its coroutine, unless cancelled, has its result, or has
\* nothing left to do.
ExecuteWrite ==
  /\ writes # <<>>
  /\ LET w == Head(writes) IN
     /\ IF w.op = "insert"
          THEN /\ InsertRow(w.row)
               /\ inserted' = IF w.by = "left" THEN inserted ELSE inserted \cup {nextId}
               /\ UNCHANGED mishaps
          ELSE /\ rows' = Updated(w)
               /\ mishaps' = mishaps \cup (IF Crossed(w) THEN {"crossed"} ELSE {})
                                     \cup (IF w.by = "left" /\ w.id = opened THEN {"late"} ELSE {})
               /\ UNCHANGED <<nextId, inserted>>
     /\ IF w.by \notin Jobs THEN UNCHANGED job
        ELSE IF w.op \in {"update", "setPinned"} THEN Go(w.by, Ended)
        ELSE Answer(w.by, IF w.op = "insert" THEN nextId ELSE w.id, w.row)
  /\ writes' = Tail(writes)
  /\ UNCHANGED <<ui, model, edits, deleting>>

-----------------------------------------------------------------------------
(* Coroutines going on, on the main thread.                                *)

AutosaveFires ==
  /\ job["autosave"].pc = "delay"
  /\ Save("autosave", {}, screen)
  /\ UNCHANGED <<table, ui, model, edits, deleting>>

ModelAnswers ==
  /\ job["ai"].pc = "thinking"
  /\ \/ /\ job["ai"].op = "summarize" /\ note # 0
        /\ Go("ai", Call("summarized", note, job["ai"].row))
        /\ UNCHANGED <<screen, writes, history>>
     \/ /\ job["ai"].op = "summarize" /\ note = 0
        /\ Go("ai", Ended)
        /\ UNCHANGED <<screen, writes, history>>
     \/ /\ job["ai"].op = "suggestTags"
        /\ screen' = [screen EXCEPT !.tags = @ \cup {0}]
        /\ Save("ai", {}, screen') /\ UNCHANGED deleting
     \/ /\ job["ai"].op = "suggestTags"      \* the engine is unavailable
        /\ Go("ai", Ended)
        /\ UNCHANGED <<screen, writes, history>>
  /\ UNCHANGED <<table, ui, noteId, note, edits>>

Returned(j, o) == job[j].pc = "back" /\ job[j].op = o

\* Mutant: save() does not take the id of the note it inserted.
InsertedOnly(j) ==
  /\ Returned(j, "insert")
  /\ Go(j, Ended)
  /\ UNCHANGED <<table, writes, ui, model, edits, history>>

\* save(), after upsertNote inserted the note: the id is taken by the first to
\* come back, and the row is read into _note.
Inserted(j) ==
  /\ Returned(j, "insert")
  /\ IF noteId = 0
       THEN noteId' = job[j].id /\ Go(j, Call("reread", job[j].id, Blank))
       ELSE Go(j, Ended) /\ UNCHANGED noteId
  /\ UNCHANGED <<table, writes, ui, note, screen, edits, history>>

ReadBack(j) ==
  /\ Returned(j, "reread")
  /\ note' = job[j].id
  /\ Go(j, Ended)
  /\ UNCHANGED <<table, writes, ui, noteId, screen, edits, history>>

\* upsertNote and setSummary write the row they have read, or return early.
WriteBack(j) ==
  /\ Returned(j, "existing") \/ Returned(j, "summarized")
  /\ IF job[j].id = 0
       THEN Go(j, Ended) /\ UNCHANGED writes
       ELSE Go(j, Call("update", job[j].id, job[j].row)) /\ writes' = Append(writes, Write(j))
  /\ UNCHANGED <<table, ui, model, edits, history>>

\* load() replaces whatever the editor shows by the stored note.
Loaded ==
  /\ Returned("load", "load")
  /\ Go("load", Ended)
  /\ IF job["load"].id = 0 THEN UNCHANGED model
     ELSE /\ noteId' = job["load"].id /\ note' = job["load"].id
          /\ screen' = [job["load"].row EXCEPT !.summary = 0]
  /\ UNCHANGED <<table, writes, ui, edits, history>>

\* delete() goes back when the row is gone.
Deleted(d) ==
  /\ Returned(d, "delete")
  /\ Go(d, Ended)
  /\ popped' = TRUE /\ deleting' = TRUE
  /\ UNCHANGED <<table, writes, open, visits, opened, model, edits, inserted, mishaps>>

Database == ExecuteWrite \/ \E j \in Jobs : ReadRow(j)

Resume(j) == Inserted(j) \/ ReadBack(j) \/ WriteBack(j)

Coroutines == \/ AutosaveFires \/ ModelAnswers \/ Loaded
              \/ \E d \in Deletes : Deleted(d)
              \/ \E j \in Jobs : Resume(j)

User == \/ \E id \in DOMAIN rows \cup {0} : Open(id)
        \/ Type \/ EditTags \/ Back
        \/ \E p \in Pins : TogglePinned(p)
        \/ \E d \in Deletes : Delete(d)
        \/ \E o \in {"summarize", "suggestTags"} : AskModel(o)

Next == User \/ Database \/ Coroutines \/ Cleared

Spec == Init /\ [][Next]_vars

\* Room executes what was issued, and coroutines are dispatched; nothing makes
\* the user act, or stop acting before the bounds do.
Fairness == /\ WF_vars(ExecuteWrite)
            /\ WF_vars(AutosaveFires) /\ WF_vars(ModelAnswers)
            /\ WF_vars(Loaded) /\ \A d \in Deletes : WF_vars(Deleted(d))
            /\ \A j \in Jobs : WF_vars(ReadRow(j)) /\ WF_vars(Resume(j))

FairSpec == Spec /\ Fairness

-----------------------------------------------------------------------------
(* Properties.                                                             *)

\* The view model's fields, the coroutines and the queue are of their types.
TypeOK ==
  /\ nextId \in Nat \ {0} /\ DOMAIN rows \subseteq 1..(nextId - 1)
  /\ \A i \in DOMAIN rows : rows[i] \in Row
  /\ open \in BOOLEAN /\ popped \in BOOLEAN /\ visits \in 0..MaxVisits
  /\ {noteId, note, opened} \subseteq 0..(nextId - 1)
  /\ screen \in Row /\ edits \in 0..(MaxEdits + 1)
  /\ \A j \in Jobs :
       /\ job[j].pc \in {"none", "delay", "thinking", "call", "back"}
       /\ job[j].op \in Reads \cup {"none", "summarize", "suggestTags", "insert", "update",
                                    "setPinned", "delete"}
       /\ job[j].id \in 0..(nextId - 1) /\ job[j].row \in Row
  /\ \A i \in DOMAIN writes : writes[i].by \in Jobs \cup {"nobody", "left"}
  /\ inserted \subseteq 1..(nextId - 1) /\ deleting \in BOOLEAN
  /\ mishaps \subseteq Mishaps

Quiet == writes = <<>> /\ \A j \in Jobs : ~Active(j)

\* A new note becomes one row and an opened one none, however the debounce, the
\* tag buttons and the language model interleave, unless an insert was in flight
\* when another save began or when its own was cancelled.
OneRowPerNote ==
  mishaps \cap {"insert", "late"} = {} =>
    Cardinality(inserted) <= (IF opened = 0 THEN 1 ELSE 0)

\* Once the editor is at rest, what it shows is what is stored: no keystroke, tag
\* or pin is lost to a cancelled autosave or to a write issued before it.
ScreenIsStored ==
  open /\ Quiet /\ noteId \in DOMAIN rows /\ mishaps \cap {"insert", "crossed", "late"} = {} =>
    [rows[noteId] EXCEPT !.summary = 0] = screen

\* "Deletes the note if it exists": once the delete button was the user's last
\* word, nothing of the note is left in the table, and no save that is late or
\* that runs while the screen slides out brings it back, unless delete found
\* _note null: it does while the note is being loaded or saved for the first
\* time, and for good when an edit cut short the read that follows that save.
DeletedIsGone ==
  deleting /\ Quiet /\ mishaps \cap {"insert", "reread", "unread"} = {} =>
    (inserted \cup {opened}) \cap DOMAIN rows = {}

\* delete: "Deletes the note if it exists; new unsaved notes simply go back."
\* Refuted by a run: when typing cut short the read that follows the first
\* insert, _note stays null and the stored note is never deleted.
DeleteDeletes ==
  deleting /\ Quiet /\ mishaps \cap {"insert", "unread"} = {} =>
    inserted \cap DOMAIN rows = {}

\* What is on screen and in no row, in a visit without a lost update or a delete.
Unsaved == /\ open /\ ~deleting /\ screen.text > 1
           /\ mishaps \cap {"crossed", "late"} = {}
           /\ \A i \in DOMAIN rows : rows[i].text # screen.text

\* Once the user stops, what was typed is stored, on its way out too, or the
\* note is deleted or the view model gone.
TypedIsStored == Unsaved ~> ~Unsaved
=============================================================================
