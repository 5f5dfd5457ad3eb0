----------------------------- MODULE EntryStore -----------------------------
(* The entries table and EntryRepository, at the granularity of its DAO     *)
(* calls: every suspend operation of the repository is a job, a coroutine   *)
(* of some view model, and between two DAO calls of one job those of others *)
(* run.  Room serialises the calls themselves.                              *)
(*                                                                          *)
(* A row is abstracted to who wrote it: body is the set of jobs whose text  *)
(* it holds, every other column the job that set it.  Titles go with the    *)
(* body; time stamps and the source only order and decorate lists.          *)
EXTENDS Integers

CONSTANTS
  Job,           \* the calls made to the repository
  None,          \* the writer of a column nobody has set, and no row at all
  MaxDay         \* bound on the days that pass

ASSUME StoreAssumption == None \notin Job /\ MaxDay \in Nat

VARIABLES
  rows,          \* the table: its rows by id
  nextId,        \* the id the next insert generates
  today,         \* todayIndex
  at,            \* the DAO call each job waits for
  op,            \* the repository operation of each job
  row,           \* the id it works on
  day,           \* the day it was begun on
  copy           \* the row it has read

VARIABLES
  deleted,       \* history: ids that were deleted
  raced,         \* history: days two jobs found without a page together
  contended      \* history: rows written between a read and a write of a job

table   == <<rows, nextId>>
jobs    == <<at, op, row, day, copy>>
history == <<deleted, raced, contended>>
vars    == <<table, today, jobs, history>>

Writer == Job \cup {None}
Entry  == [kind : {"NOTE", "JOURNAL_ENTRY"}, dayIndex : 0..MaxDay \cup {None},
           body : SUBSET Job, tags : Writer, mood : Writer, summary : Writer,
           pinned : Writer, archived : Writer]

(* The columns each operation passes to copy, the rest keep what was read.  *)
Edits == [upsertNote      |-> {"body", "tags"},
          setTags         |-> {"tags"},
          setSummary      |-> {"summary"}, \* and setJournalSummary
          saveJournalText |-> {"body"},
          saveJournalMood |-> {"mood"},
          appendToToday   |-> {"body"}]

NoteEdit == {"upsertNote", "setTags", "setSummary"}
PageEdit == {"saveJournalText", "saveJournalMood", "setSummary"}
Flag     == {"pinned", "archived"}       \* setPinned and setArchived
TodayOp  == {"todayEntry", "appendToToday"}

Empty == [kind |-> "NOTE", dayIndex |-> None, body |-> {}, tags |-> None,
          mood |-> None, summary |-> None, pinned |-> None, archived |-> None]

NewNote(j) == [Empty EXCEPT !.body = {j}, !.tags = j, !.pinned = j]
NewPage(d) == [Empty EXCEPT !.kind = "JOURNAL_ENTRY", !.dayIndex = d]

Pages(d) == {id \in DOMAIN rows : rows[id].kind = "JOURNAL_ENTRY" /\ rows[id].dayIndex = d}

Init ==
  /\ rows = [id \in {} |-> Empty] /\ nextId = 1 /\ today = 0
  /\ at = [j \in Job |-> "idle"]
  /\ op = [j \in Job |-> "none"]
  /\ row = [j \in Job |-> 0]
  /\ day = [j \in Job |-> 0]
  /\ copy = [j \in Job |-> Empty]
  /\ deleted = {} /\ raced = {} /\ contended = {}

-----------------------------------------------------------------------------
(* Calls of the repository.                                                 *)

Begin(j, o, id, call) ==
  /\ at[j] = "idle"
  /\ op' = [op EXCEPT ![j] = o]
  /\ row' = [row EXCEPT ![j] = id]
  /\ day' = [day EXCEPT ![j] = today]
  /\ at' = [at EXCEPT ![j] = call]
  /\ UNCHANGED <<table, today, copy, history>>

(* upsertNote without an id.                                                *)
CreateNote(j) == Begin(j, "upsertNote", 0, "insert")

(* A screen holds the id of a row it was shown once; the note may be gone.  *)
EditNote(j) ==
  \E id \in deleted \cup {i \in DOMAIN rows : rows[i].kind = "NOTE"} :
    \/ \E o \in NoteEdit : Begin(j, o, id, "read")
    \/ \E f \in Flag : Begin(j, f, id, "flag")
    \/ Begin(j, "delete", id, "delete")

EditPage(j) ==
  \E id \in {i \in DOMAIN rows : rows[i].kind = "JOURNAL_ENTRY"} :
    \E o \in PageEdit : Begin(j, o, id, "read")

(* todayEntry and appendToToday take todayIndex first.                      *)
OpenToday(j) == \E o \in TodayOp : Begin(j, o, 0, "find")

-----------------------------------------------------------------------------
(* The DAO calls.  Other jobs that hold a copy of a row when it is written  *)
(* will write over it.                                                      *)

Touch(j, id) ==
  contended' = IF \E k \in Job \ {j} : at[k] = "write" /\ row[k] = id
               THEN contended \cup {id} ELSE contended

(* dao.insert: the id is generated.                                         *)
Insert(entry) ==
  /\ rows' = [id \in DOMAIN rows \cup {nextId} |-> IF id = nextId THEN entry ELSE rows[id]]
  /\ nextId' = nextId + 1

InsertNote(j) ==
  /\ at[j] = "insert"
  /\ Insert(NewNote(j))
  /\ at' = [at EXCEPT ![j] = "done"]
  /\ row' = [row EXCEPT ![j] = nextId]
  /\ UNCHANGED <<today, op, day, copy, history>>

(* dao.byId, and the early return when the row is gone.                     *)
ReadRow(j) ==
  /\ at[j] = "read"
  /\ \/ /\ row[j] \in DOMAIN rows
        /\ copy' = [copy EXCEPT ![j] = rows[row[j]]]
        /\ at' = [at EXCEPT ![j] = "write"]
     \/ /\ row[j] \notin DOMAIN rows
        /\ at' = [at EXCEPT ![j] = "done"]
        /\ UNCHANGED copy
  /\ UNCHANGED <<table, today, op, row, day, history>>

(* Mutant: the pinned argument of upsertNote is written on update too.      *)
EditedPinned(j, o, entry) ==
  [f \in DOMAIN entry |->
     IF f \notin Edits[o] \cup {"pinned"} THEN entry[f]
     ELSE IF f # "body" THEN j
     ELSE IF o = "appendToToday" THEN entry.body \cup {j} ELSE {j}]

(* existing.copy(...): the whole row as it was read, with the columns of    *)
(* the operation replaced.                                                  *)
Edited(j, o, entry) ==
  [f \in DOMAIN entry |->
     IF f \notin Edits[o] THEN entry[f]
     ELSE IF f # "body" THEN j
     ELSE IF o = "appendToToday" THEN entry.body \cup {j} ELSE {j}]

(* Mutant: an update inserts what is not there, as REPLACE would.           *)
Replace(id, entry) ==
  rows' = [i \in DOMAIN rows \cup {id} |-> IF i = id THEN entry ELSE rows[i]]

(* dao.update: writes the row of that id, if there is one.                  *)
Update(id, entry) ==
  rows' = [i \in DOMAIN rows |-> IF i = id THEN entry ELSE rows[i]]

WriteRow(j) ==
  /\ at[j] = "write"
  /\ Update(row[j], Edited(j, op[j], copy[j]))
  /\ Touch(j, row[j])
  /\ at' = [at EXCEPT ![j] = "done"]
  /\ UNCHANGED <<nextId, today, op, row, day, copy, deleted, raced>>

(* dao.setPinned and dao.setArchived: one UPDATE of one column.             *)
WriteFlag(j) ==
  /\ at[j] = "flag"
  /\ rows' = [i \in DOMAIN rows |->
                IF i = row[j] THEN [rows[i] EXCEPT ![op[j]] = j] ELSE rows[i]]
  /\ Touch(j, row[j])
  /\ at' = [at EXCEPT ![j] = "done"]
  /\ UNCHANGED <<nextId, today, op, row, day, copy, deleted, raced>>

(* dao.deleteById.                                                          *)
DeleteRow(j) ==
  /\ at[j] = "delete"
  /\ rows' = [i \in DOMAIN rows \ {row[j]} |-> rows[i]]
  /\ deleted' = deleted \cup {row[j]}
  /\ at' = [at EXCEPT ![j] = "done"]
  /\ UNCHANGED <<nextId, today, op, row, day, copy, raced, contended>>

(* Mutant: only an unwritten page is found.                                 *)
FoundEmpty(d) == {id \in Pages(d) : rows[id].body = {}}

(* dao.journalByDay: LIMIT 1 without an order.                              *)
Found(d) == Pages(d)

(* What follows todayEntry: its caller has the row, appendToToday writes.   *)
AfterToday(j) == IF op[j] = "appendToToday" THEN "write" ELSE "done"

FindPage(j) ==
  /\ at[j] = "find"
  /\ \/ \E id \in Found(day[j]) :
          /\ copy' = [copy EXCEPT ![j] = rows[id]]
          /\ row' = [row EXCEPT ![j] = id]
          /\ at' = [at EXCEPT ![j] = AfterToday(j)]
          /\ UNCHANGED raced
     \/ /\ Found(day[j]) = {}
        /\ at' = [at EXCEPT ![j] = "create"]
        /\ raced' = IF \E k \in Job : at[k] = "create" /\ day[k] = day[j]
                    THEN raced \cup {day[j]} ELSE raced
        /\ UNCHANGED <<copy, row>>
  /\ UNCHANGED <<table, today, op, day, deleted, contended>>

(* The ?: branch of todayEntry inserts the page and returns its copy.       *)
CreatePage(j) ==
  /\ at[j] = "create"
  /\ Insert(NewPage(day[j]))
  /\ copy' = [copy EXCEPT ![j] = NewPage(day[j])]
  /\ row' = [row EXCEPT ![j] = nextId]
  /\ at' = [at EXCEPT ![j] = AfterToday(j)]
  /\ UNCHANGED <<today, op, day, history>>

Midnight ==
  /\ today < MaxDay
  /\ today' = today + 1
  /\ UNCHANGED <<table, jobs, history>>

Next ==
  \/ \E j \in Job : \/ CreateNote(j) \/ EditNote(j) \/ EditPage(j) \/ OpenToday(j)
                    \/ InsertNote(j) \/ ReadRow(j) \/ WriteRow(j) \/ WriteFlag(j)
                    \/ DeleteRow(j) \/ FindPage(j) \/ CreatePage(j)
  \/ Midnight

Spec == Init /\ [][Next]_vars

-----------------------------------------------------------------------------
(* Every variable holds a value of its type.                                *)
TypeOK ==
  /\ nextId \in Nat \ {0}
  /\ DOMAIN rows \subseteq 1..(nextId - 1)
  /\ rows \in [DOMAIN rows -> Entry]
  /\ today \in 0..MaxDay
  /\ at \in [Job -> {"idle", "insert", "read", "write", "flag", "delete", "find",
                     "create", "done"}]
  /\ op \in [Job -> {"none", "delete"} \cup NoteEdit \cup PageEdit \cup Flag \cup TodayOp]
  /\ row \in [Job -> Nat]
  /\ day \in [Job -> 0..MaxDay]
  /\ copy \in [Job -> Entry]
  /\ deleted \subseteq Nat /\ contended \subseteq Nat /\ raced \subseteq 0..MaxDay

(* A day gets a second page only if two calls of todayEntry found none      *)
(* together: whatever else runs between the query and the insert, however   *)
(* late after midnight, an existing page is found.                          *)
SecondPageOnlyByRace ==
  \A a, b \in DOMAIN rows :
    /\ rows[a].kind = "JOURNAL_ENTRY" /\ rows[b].kind = "JOURNAL_ENTRY"
    /\ rows[a].dayIndex = rows[b].dayIndex
    /\ a # b
    => rows[a].dayIndex \in raced

(* A deleted note does not come back: neither an autosave that read it      *)
(* before, nor a summary that arrives late, writes it again.                *)
DeletedStaysDeleted == deleted \cap DOMAIN rows = {}

(* An edit changes the columns it is about and no other, although it writes *)
(* the whole row: another column changes only back to a copy that was read  *)
(* before somebody else wrote the row.                                      *)
EditsOwnColumns ==
  [][\A j \in Job : at[j] = "write" /\ at'[j] = "done" =>
       \A id \in DOMAIN rows : id \notin contended /\ id \in DOMAIN rows' =>
         \A f \in DOMAIN rows[id] : f \notin Edits[op[j]] => rows'[id][f] = rows[id][f]]_vars

(* A job is under way, for Book, from its call to its last DAO call.        *)
Phase   == [j \in Job |-> IF at[j] \in {"idle", "done"} THEN at[j] ELSE "called"]
Promise == INSTANCE Book WITH phase <- Phase

(* The DAO calls of concurrent jobs keep the book: each operation takes     *)
(* effect at one of them, on the columns it is about and no other, but for  *)
(* a row that was written between the read and the write of another job.    *)
KeepsBook == Promise!Spec

(* todayEntry: "The one-per-day invariant lives here."  Refuted by TLC.     *)
OnePerDay ==
  \A a, b \in DOMAIN rows :
    rows[a].kind = "JOURNAL_ENTRY" /\ rows[a].dayIndex = rows[b].dayIndex
      => rows[b].kind = "NOTE" \/ a = b
=============================================================================
