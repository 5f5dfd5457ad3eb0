---------------------------- MODULE JournalPage ----------------------------
(***************************************************************************)
(* The journal screen: JournalViewModel over its DAO calls, beside the     *)
(* dictation that appends to today's page.                                 *)
(*                                                                         *)
(* The text on screen is a copy.  It goes to the page by a debounced save  *)
(* and by the save that selecting another day begins; it comes back by a   *)
(* mirror: Room re-runs the query of the selected day after every write to *)
(* the table, and what it finds replaces the text.  Coroutines run on      *)
(* Dispatchers.Main.immediate and interleave where they are suspended; a   *)
(* DAO call waits for the database ("call") and then for the main thread   *)
(* ("back").  Room executes writes in the order they were issued.          *)
(*                                                                         *)
(* A text is the set of the edits it holds, each with the day that was     *)
(* selected when it was made.                                              *)
(***************************************************************************)
EXTENDS Integers, Sequences, FiniteSets, FiniteSetsExt, TLC

CONSTANTS Flushes,      \* the saves of selectDay that may be under way, and
          Marks,        \* the moods and summaries: one coroutine for each tap
          MaxEdits,     \* bound on the texts typed and dictated
          MaxMarks,     \* bound on the moods and summaries set
          MaxSelects,   \* bound on the days picked
          MaxActs,      \* bound on all of them together
          MaxJobs,      \* bound on the coroutines begun at a time
          LastDay       \* bound on the days: the screen opens on LastDay - 1

ASSUME PageAssumption ==
  /\ {MaxEdits, MaxMarks, MaxSelects, MaxActs, MaxJobs} \subseteq Nat /\ LastDay \in Nat \ {0}
  /\ Flushes \cap Marks = {}
  /\ (Flushes \cup Marks) \cap {"debounce", "append", "nobody"} = {}

VARIABLES
  rows, nextId,         \* the journal pages of the entries table
  writes,               \* the writes Room has not executed yet, in order
  today,                \* todayIndex
  selected,             \* _selectedDay
  text,                 \* _bodyText
  entry,                \* the entry flow: the page it shows, or NoPage
  dirty,                \* the query of the selected day is to be run (again)
  answer,               \* what the query found and the mirror has not seen yet
  job,                  \* the coroutines, by what they do
  edits, marks, selects \* how often the user has done what

VARIABLES
  seen,                 \* history: the mirror has shown the day picked last
  mishaps               \* history: what came between two steps of a coroutine

table  == <<rows, nextId>>
mirror == <<entry, dirty, answer>>
counts == <<edits, marks, selects>>
history == <<seen, mishaps>>
vars == <<table, writes, today, selected, text, mirror, job, counts, history>>

\* saveJob, the saves of selectDay, setMood and the summaries, and appendToToday.
Jobs == {"debounce", "append"} \cup Flushes \cup Marks
Saves == {"debounce"} \cup Flushes

Days   == 0..LastDay
Text   == SUBSET ((1..MaxEdits) \X Days)
Page   == [id : Nat, day : Days, body : Text, rev : Nat]
\* rev stands for updatedAt, which tells any two writes of a page apart.
NoPage == [id |-> 0, day |-> 0, body |-> {}, rev |-> 0]
Ended  == [pc |-> "none", op |-> "none", page |-> NoPage, text |-> {}]

Mishaps == {"unseen",   \* a save began between picking a day and seeing its page
            "alike",    \* the page of a day picked equals the value shown before
            "behind",   \* a save began before the mirror had shown what is on the page
            "crossed"}  \* a page was written while another coroutine was about to

\* journalByDay and observeJournalByDay, LIMIT 1: SQLite takes the first row.
PageOf(d) == LET found == {i \in DOMAIN rows : rows[i].day = d}
             IN IF found = {} THEN NoPage ELSE rows[Min(found)]

Init ==
  /\ rows \in {<<>>, <<[NoPage EXCEPT !.id = 1]>>}  \* is there a page of day 0?
  /\ nextId = Len(rows) + 1
  /\ writes = <<>>
  /\ today = LastDay - 1 /\ selected = today
  /\ text = {}
  /\ entry = NoPage /\ dirty = TRUE /\ answer = <<>>
  /\ job = [j \in Jobs |-> Ended]
  /\ edits = 0 /\ marks = 0 /\ selects = 0
  /\ seen = TRUE /\ mishaps = {}

-----------------------------------------------------------------------------
(* Coroutines and their DAO calls.                                         *)

Active(j) == job[j].pc # "none"
MayBegin == Cardinality({j \in Jobs : job[j].pc \in {"call", "back"}}) < MaxJobs
Step(p, o, page, t) == [pc |-> p, op |-> o, page |-> page, text |-> t]
Go(j, step) == job' = [job EXCEPT ![j] = step]
Write(j) == [by |-> j, op |-> job'[j].op, page |-> job'[j].page]

\* The page a coroutine works on: today's, found or created by todayEntry, or
\* the one the entry flow shows; no coroutine makes a page of a past day.
OnPage(j, d, t) ==
  IF d = today
    THEN Go(j, Step("call", "find", [NoPage EXCEPT !.day = today], t))
    ELSE Go(j, IF entry.id = 0 THEN Ended ELSE Step("call", "read", entry, t))

Behind == ~(PageOf(selected).body \subseteq text)

\* saveNow takes the text and the day on its first step.
SaveNow(j) ==
  /\ OnPage(j, selected, text)
  /\ mishaps' = mishaps \cup (IF ~seen THEN {"unseen"} ELSE {})
                        \cup (IF Behind THEN {"behind"} ELSE {})

-----------------------------------------------------------------------------
(* The user.                                                               *)

\* onBodyChange: the debounce starts anew.  A save it cuts short withdraws the
\* write it waits for, or leaves it in Room's hands, to be executed all the same.
Without(i) == [k \in 1..(Len(writes) - 1) |-> writes[IF k < i THEN k ELSE k + 1]]
Kept(j) == LET mine == {i \in 1..Len(writes) : writes[i].by = j} IN
  IF mine = {} THEN {writes}
  ELSE {Without(i) : i \in mine}
         \cup {[writes EXCEPT ![i].by = "nobody"] : i \in mine \cap {1}}

MayAct == edits + marks + selects < MaxActs

TypeBody ==
  /\ edits < MaxEdits /\ MayAct
  /\ edits' = edits + 1
  /\ text' = text \cup {<<edits', selected>>}
  /\ writes' \in Kept("debounce")
  /\ Go("debounce", [Ended EXCEPT !.pc = "delay"])
  /\ UNCHANGED <<table, today, selected, mirror, marks, selects, history>>

\* selectDay: the save runs up to its first DAO call before the day changes.
\* Picking the day that is selected changes nothing else.
SelectDay(d) ==
  /\ selects < MaxSelects /\ MayAct /\ MayBegin
  /\ selects' = selects + 1
  /\ \E f \in Flushes : ~Active(f) /\ SaveNow(f)
  /\ selected' = d
  /\ IF d = selected THEN UNCHANGED <<dirty, answer, seen>>
     ELSE dirty' = TRUE /\ answer' = <<>> /\ seen' = FALSE
  /\ UNCHANGED <<table, writes, today, text, entry, edits, marks>>

\* setMood and, once the model has answered, summarizeDay.
Mark ==
  /\ marks < MaxMarks /\ MayAct /\ MayBegin
  /\ marks' = marks + 1
  /\ \E m \in Marks : ~Active(m) /\ OnPage(m, selected, {})
  /\ UNCHANGED <<table, writes, today, selected, text, mirror, edits, selects, history>>

\* AssistantViewModel: a dictation ends on the journal screen; its one collector
\* appends one text after another.
Dictated ==
  /\ edits < MaxEdits /\ MayAct /\ ~Active("append") /\ MayBegin
  /\ edits' = edits + 1
  /\ OnPage("append", today, {<<edits', today>>})
  /\ UNCHANGED <<table, writes, today, selected, text, mirror, marks, selects, history>>

Midnight ==
  /\ today < LastDay
  /\ today' = today + 1
  /\ UNCHANGED <<table, writes, selected, text, mirror, job, counts, history>>

-----------------------------------------------------------------------------
(* The database.                                                           *)

\* dao.journalByDay and dao.byId.
Read(j) ==
  /\ job[j].pc = "call" /\ job[j].op \in {"find", "read"}
  /\ LET p == job[j].page IN
       LET found == IF job[j].op = "find" THEN PageOf(p.day) ELSE rows[p.id] IN
       Go(j, Step("back", job[j].op, IF found.id = 0 THEN p ELSE found, job[j].text))
  /\ UNCHANGED <<table, writes, today, selected, text, mirror, counts, history>>

\* Another coroutine is about to write the page w writes, from what it has read
\* of it or with a text it took from the screen before.
Crossed(w) == \E k \in Jobs \ {w.by} :
                /\ job[k].pc \in {"call", "back"} /\ job[k].page.day = w.page.day
                /\ \/ k \in Saves /\ ~(job[k].op = "update" /\ job[k].pc = "back")
                   \/ job[k].op = "update" /\ job[k].pc = "call"
                   \/ job[k].op = "read" /\ job[k].pc = "back"
                   \/ k = "append" /\ job[k].op \in {"find", "insert"} /\ job[k].pc = "back"

NextId(w) == IF w.op = "insert" THEN nextId + 1 ELSE nextId

ExecuteWrite ==
  /\ writes # <<>>
  /\ LET w == Head(writes)
         id == IF w.op = "insert" THEN nextId ELSE w.page.id
         page == [w.page EXCEPT !.id = id,
                                !.rev = IF w.op = "insert" THEN 1 ELSE rows[id].rev + 1]
     IN
     /\ rows' = [i \in DOMAIN rows \cup {id} |-> IF i = id THEN page ELSE rows[i]]
     /\ nextId' = NextId(w)
     /\ mishaps' = mishaps \cup IF w.op = "update" /\ Crossed(w) THEN {"crossed"} ELSE {}
     /\ IF w.by = "nobody" THEN UNCHANGED job
        ELSE Go(w.by, Step("back", w.op, page, job[w.by].text))
  /\ writes' = Tail(writes)
  /\ dirty' = TRUE
  /\ UNCHANGED <<today, selected, text, entry, answer, counts, seen>>

\* The flow of the selected day runs its query, after a write or a new day.
Query ==
  /\ dirty /\ answer = <<>>
  /\ dirty' = FALSE
  /\ answer' = <<PageOf(selected)>>
  /\ UNCHANGED <<table, writes, today, selected, text, entry, job, counts, history>>

-----------------------------------------------------------------------------
(* The main thread going on.                                               *)

Shown ==
  /\ seen' = TRUE
  /\ mishaps' = mishaps \cup IF ~seen /\ entry' = entry THEN {"alike"} ELSE {}

\* Mutant: only another page replaces the text.
MirrorOnce ==
  /\ answer # <<>>
  /\ answer' = <<>>
  /\ entry' = answer[1]
  /\ text' = IF entry'.id = entry.id THEN text ELSE entry'.body
  /\ Shown
  /\ UNCHANGED <<table, writes, today, selected, dirty, job, counts>>

\* The entry flow takes the answer, and if it is another value than before the
\* collector puts its body on screen.
Mirror ==
  /\ answer # <<>>
  /\ answer' = <<>>
  /\ entry' = answer[1]
  /\ text' = IF entry' = entry THEN text ELSE entry'.body
  /\ Shown
  /\ UNCHANGED <<table, writes, today, selected, dirty, job, counts>>

DebounceFires ==
  /\ job["debounce"].pc = "delay" /\ MayBegin
  /\ SaveNow("debounce")
  /\ UNCHANGED <<table, writes, today, selected, text, mirror, counts, seen>>

\* Mutant: the dictation replaces the text.
EditedOver(j, page) == IF j \in Marks THEN page ELSE [page EXCEPT !.body = job[j].text]

\* The columns each coroutine replaces in the page it has read.
Edited(j, page) ==
  CASE j \in Saves    -> [page EXCEPT !.body = job[j].text]
    [] j = "append"   -> [page EXCEPT !.body = @ \cup job[j].text]
    [] j \in Marks    -> page    \* a mood or a summary: only a new revision

Update(j, page) ==
  /\ Go(j, Step("call", "update", Edited(j, page), job[j].text))
  /\ writes' = Append(writes, Write(j))

\* Mutant: the day of a new page is read when it is made, after the query.
FoundLate(j) ==
  /\ job[j].pc = "back" /\ job[j].op \in {"find", "insert"}
  /\ LET page == job[j].page IN
       IF page.id = 0
         THEN /\ Go(j, Step("call", "insert", [page EXCEPT !.day = today], job[j].text))
              /\ writes' = Append(writes, Write(j))
       ELSE IF j = "append" THEN Update(j, page)
       ELSE Go(j, Step("call", "read", page, job[j].text)) /\ UNCHANGED writes
  /\ UNCHANGED <<table, today, selected, text, mirror, counts, history>>

\* todayEntry: without a page it inserts one.  appendToToday updates the page
\* it has got, the other operations read it again.
Found(j) ==
  /\ job[j].pc = "back" /\ job[j].op \in {"find", "insert"}
  /\ LET page == job[j].page IN
       IF page.id = 0
         THEN Go(j, Step("call", "insert", page, job[j].text)) /\ writes' = Append(writes, Write(j))
       ELSE IF j = "append" THEN Update(j, page)
       ELSE Go(j, Step("call", "read", page, job[j].text)) /\ UNCHANGED writes
  /\ UNCHANGED <<table, today, selected, text, mirror, counts, history>>

\* saveJournalText, saveJournalMood and setJournalSummary.
WriteBack(j) ==
  /\ job[j].pc = "back" /\ job[j].op = "read"
  /\ Update(j, job[j].page)
  /\ UNCHANGED <<table, today, selected, text, mirror, counts, history>>

Written(j) ==
  /\ job[j].pc = "back" /\ job[j].op = "update"
  /\ Go(j, Ended)
  /\ UNCHANGED <<table, writes, today, selected, text, mirror, counts, history>>

Resume(j) == Found(j) \/ WriteBack(j) \/ Written(j)

Next ==
  \/ TypeBody \/ Mark \/ Dictated \/ Midnight
  \/ \E d \in Days : d <= today /\ SelectDay(d)
  \/ ExecuteWrite \/ Query \/ Mirror \/ DebounceFires
  \/ \E j \in Jobs : Read(j) \/ Resume(j)

Spec == Init /\ [][Next]_vars

-----------------------------------------------------------------------------
(* Properties.                                                             *)

\* The view model's fields, the coroutines and the queue are of their types.
TypeOK ==
  /\ nextId \in Nat \ {0} /\ DOMAIN rows = 1..(nextId - 1)
  /\ \A i \in DOMAIN rows : rows[i] \in Page /\ rows[i].id = i
  /\ today \in Days /\ selected \in 0..today
  /\ text \in Text /\ entry \in Page /\ dirty \in BOOLEAN
  /\ Len(answer) <= 1 /\ \A i \in DOMAIN answer : answer[i] \in Page
  /\ \A j \in Jobs :
       /\ job[j].pc \in {"none", "delay", "call", "back"}
       /\ job[j].op \in {"none", "find", "read", "insert", "update"}
       /\ job[j].page \in Page /\ job[j].text \in Text
  /\ edits \in 0..MaxEdits /\ marks \in 0..MaxMarks /\ selects \in 0..MaxSelects
  /\ seen \in BOOLEAN /\ mishaps \subseteq Mishaps

\* What is written under a day is stored under that day, whatever midnight, a
\* cancelled save, a dictation or a second day picked comes between the steps of
\* the coroutines, unless a save began before the mirror had shown the day picked
\* last, or a day picked held what was shown before (two days without a page), so
\* that the text of the other stayed on screen.
TextUnderItsDay ==
  mishaps \cap {"unseen", "alike"} = {} =>
    \A i \in DOMAIN rows : \A part \in rows[i].body : part[2] = rows[i].day

\* What is on a page stays on it: the debounced save, the save of a day switch,
\* a mood, a summary and a dictation lose nothing of each other's, unless two of
\* them overlap, a save took a text the page's own had not reached yet, or one
\* took the text of another day.
PageKeepsText ==
  [][mishaps' \cap {"unseen", "alike", "crossed", "behind"} = {} =>
       \A i \in DOMAIN rows : rows[i].body \subseteq rows'[i].body]_vars

\* Whenever nothing is under way, the screen shows the page of the selected day:
\* no order of saves, appends, day switches and answers leaves it showing another
\* text for good.
Quiet == /\ \A j \in Jobs : ~Active(j)
         /\ writes = <<>> /\ ~dirty /\ answer = <<>>
ScreenSettles ==
  Quiet => LET page == PageOf(selected) IN page.id # 0 => text = page.body
=============================================================================
