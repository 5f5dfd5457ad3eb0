------------------------- MODULE JournalPage_proofs -------------------------
(* Proofs about JournalPage for any number of edits, marks, days and day     *)
(* switches, and any number of coroutines under way.                         *)
EXTENDS JournalPage, FiniteSetTheorems, SequenceTheorems, WellFoundedInduction, TLAPS

Record    == [by : Jobs \cup {"nobody"}, op : {"insert", "update"}, page : Page]
Coroutine == [pc : {"none", "delay", "call", "back"},
              op : {"none", "find", "read", "insert", "update"}, page : Page, text : Text]

Types ==
  /\ TypeOK
  /\ rows \in [1..(nextId - 1) -> Page]
  /\ writes \in Seq(Record) /\ answer \in Seq(Page)
  /\ job \in [Jobs -> Coroutine]

(* PageOf, of any table.                                                     *)
FirstOf(pages, d) == LET found == {i \in DOMAIN pages : pages[i].day = d}
                     IN IF found = {} THEN NoPage ELSE pages[Min(found)]

(* Pages are never deleted and keep their day, so that whoever holds one has *)
(* one that is stored; the flow holds the first of its day.                  *)
Stored(page, pages) ==
  page.id # 0 => page.id \in DOMAIN pages /\ pages[page.id].day = page.day

Handed(c) == c.pc \in {"call", "back"}
InHand(j) == Handed(job[j])

Linked(c, pages) ==
  /\ Stored(c.page, pages)
  /\ Handed(c) => /\ c.op # "none"
                  /\ c.op \in {"read", "update"} => c.page.id # 0
                  /\ c.op \in {"find", "insert"} /\ c.pc = "call" => c.page.id = 0
                  /\ c.page.id = 0 => c.page.body = {}

LinkInv == \A j \in Jobs : Linked(job[j], rows)

FlowInv ==
  /\ Stored(entry, rows)
  /\ entry.id # 0 => FirstOf(rows, entry.day).id = entry.id
  /\ answer # <<>> /\ answer[1].id # 0 =>
       /\ Stored(answer[1], rows) /\ answer[1].day = selected
       /\ FirstOf(rows, selected).id = answer[1].id
       /\ answer[1].rev <= rows[answer[1].id].rev
  /\ answer # <<>> /\ answer[1].id = 0 => answer[1].body = {}

(* Once the mirror has shown the day picked, the page shown is of that day.  *)
SeenInv == seen /\ entry.id # 0 => entry.day = selected

(* Room's queue: a write is that of the coroutine that waits for it, each    *)
(* waits for one, and only the write at the head may have lost its own.      *)
Waited(w, i, pages, cs) ==
  /\ Stored(w.page, pages)
  /\ w.op = "update" => w.page.id # 0
  /\ w.op = "insert" => w.page.id = 0 /\ w.page.body = {}
  /\ i > 1 => w.by # "nobody"
  /\ w.by # "nobody" =>
       cs[w.by].pc = "call" /\ cs[w.by].op = w.op /\ cs[w.by].page = w.page

QueueInv ==
  /\ \A i \in 1..Len(writes) : Waited(writes[i], i, rows, job)
  /\ \A i, k \in 1..Len(writes) : writes[i].by = writes[k].by /\ writes[i].by # "nobody" => i = k

(* Unless a save begins before the mirror has shown the day picked, or the   *)
(* mirror takes what it finds for what it has shown already, the text on     *)
(* screen is of the selected day once the day has been seen, and a page      *)
(* holds what was written under its day, wherever a copy of it is.           *)
Dated(body, day) == \A part \in body : part[2] = day
PageDated(page) == Dated(page.body, page.day)

RowsDated   == \A i \in DOMAIN rows : PageDated(rows[i])
FlowDated   == PageDated(entry) /\ (answer # <<>> => PageDated(answer[1]))
JobDated(c) == Handed(c) => PageDated(c.page) /\ Dated(c.text, c.page.day)
JobsDated   == \A j \in Jobs : JobDated(job[j])
WritesDated == \A i \in 1..Len(writes) : PageDated(writes[i].page)

ScreenDated == seen => Dated(text, selected)

TrueDay == mishaps \cap {"unseen", "alike"} = {}
DayInv == TrueDay => RowsDated /\ FlowDated /\ JobsDated /\ WritesDated /\ ScreenDated

(* Until two coroutines overlap, or a save takes a text the page was ahead   *)
(* of, what is about to be written holds all that is on the page.            *)
Orderly == mishaps \cap {"unseen", "alike", "crossed", "behind"} = {}
Target(c, pages) == IF c.page.id = 0 THEN FirstOf(pages, c.page.day) ELSE pages[c.page.id]

\* A save that has yet to write, and one that has read what it will write.
ToWrite(c) == Handed(c) /\ ~(c.op = "update" /\ c.pc = "back")
HasRead(j, c) == /\ c.pc = "back" /\ c.page.id # 0
                 /\ c.op = "read" \/ (j = "append" /\ c.op \in {"find", "insert"})

WritesKeep == \A i \in 1..Len(writes) : writes[i].op = "update" =>
                rows[writes[i].page.id].body \subseteq writes[i].page.body
JobKeeps(j, c, pages) ==
  /\ j \in Saves /\ ToWrite(c) => Target(c, pages).body \subseteq c.text
  /\ HasRead(j, c) => pages[c.page.id].body \subseteq c.page.body
JobsKeep == \A j \in Jobs : JobKeeps(j, job[j], rows)
KeepInv == Orderly => WritesKeep /\ JobsKeep

(* A text that is not that of the page shown is on its way to this page, or  *)
(* the page has been written since and will be shown anew.                   *)
Heading(c, page) ==
  /\ ToWrite(c)
  /\ \/ c.page.id = page.id
     \/ c.op = "find" /\ c.pc = "call" /\ c.page.day = page.day

FreshInv ==
  ~dirty => IF answer = <<>> THEN entry = FirstOf(rows, selected)
                             ELSE answer[1] = FirstOf(rows, selected)

ScreenInv ==
  entry.id # 0 =>
    /\ rows[entry.id].rev >= entry.rev
    /\ \/ rows[entry.id].rev > entry.rev
       \/ \E f \in Flushes : Heading(job[f], entry)
       \/ /\ selected = entry.day
          /\ \/ text = entry.body
             \/ job["debounce"].pc = "delay"
             \/ Heading(job["debounce"], entry)

IInv == Types /\ LinkInv /\ FlowInv /\ QueueInv /\ SeenInv /\ DayInv /\ KeepInv
        /\ FreshInv /\ ScreenInv

-----------------------------------------------------------------------------
(* The first page of a day.                                                  *)

LEMMA MinOf ==
  ASSUME NEW S \in SUBSET Nat, S # {}
  PROVE  Min(S) \in S /\ \A x \in S : Min(S) <= x
<1>1. PICK e \in S : TRUE
  OBVIOUS
<1> DEFINE T == {0..x : x \in {y \in S : y <= e}}
<1>2. IsWellFoundedOn(StrictSubsetOrdering(0..e), SUBSET (0..e))
  <2>1. FiniteSubsetsOf(0..e) = SUBSET (0..e)
    <3>1. IsFiniteSet(0..e)
      BY FS_Interval
    <3> QED BY <3>1, FS_FiniteSubsetsOfFinite
  <2> QED BY <2>1, FS_StrictSubsetOrderingWellFounded
<1>3. T \subseteq SUBSET (0..e) /\ T # {}
  OBVIOUS
<1>4. PICK t \in T : \A u \in T : ~(<<u, t>> \in StrictSubsetOrdering(0..e))
  BY <1>2, <1>3, WFMin
<1>5. PICK x \in S : x <= e /\ t = 0..x
  OBVIOUS
<1>6. ASSUME NEW y \in S, y < x PROVE FALSE
  <2>1. 0..y \in T
    BY <1>5, <1>6
  <2>2. <<0..y, t>> \in (SUBSET (0..e)) \X (SUBSET (0..e)) /\ 0..y \subseteq t
    BY <1>5, <1>6
  <2>3. 0..y # t
    <3>1. x \in t /\ x \notin 0..y
      BY <1>5, <1>6
    <3> QED BY <3>1
  <2> QED BY <1>4, <2>1, <2>2, <2>3 DEF StrictSubsetOrdering
<1>7. \A y \in S : x <= y
  BY <1>6
<1> QED BY <1>7 DEF Min

Numbered(pages, n) == pages \in [1..n -> Page] /\ \A i \in 1..n : pages[i].id = i

LEMMA JobNames ==
  /\ {"debounce", "append"} \subseteq Jobs /\ Saves \subseteq Jobs /\ Marks \subseteq Jobs
  /\ Flushes \subseteq Saves /\ "debounce" \in Saves /\ "debounce" \notin Flushes
  /\ "append" \notin Saves /\ "append" \notin Marks /\ Marks \cap Saves = {}
  /\ "nobody" \notin Jobs
  /\ \A j \in Jobs : j \in Saves \/ j = "append" \/ j \in Marks
BY PageAssumption DEF Jobs, Saves

LEMMA NoPageIsPage == NoPage \in Page /\ Ended \in Coroutine /\ {} \in Text
BY PageAssumption DEF NoPage, Page, Text, Days, Ended, Coroutine

LEMMA FirstFacts ==
  ASSUME NEW n \in Nat, NEW pages, Numbered(pages, n), NEW d,
         NEW first, first = FirstOf(pages, d)
  PROVE  /\ first \in Page
         /\ first.id = 0 => /\ first = NoPage
                            /\ \A i \in 1..n : pages[i].day # d
         /\ first.id # 0 => /\ first.id \in 1..n /\ first = pages[first.id] /\ first.day = d
                            /\ \A i \in 1..n : pages[i].day = d => first.id <= i
<1> DEFINE found == {i \in 1..n : pages[i].day = d}
<1>0. DOMAIN pages = 1..n /\ found \in SUBSET Nat
  BY DEF Numbered
<1>1. CASE found = {}
  BY <1>0, <1>1, NoPageIsPage DEF FirstOf, NoPage
<1>2. CASE found # {}
  <2>1. Min(found) \in found /\ \A x \in found : Min(found) <= x
    BY <1>0, <1>2, MinOf
  <2>2. first = pages[Min(found)]
    BY <1>0, <1>2 DEF FirstOf
  <2>3. first.id = Min(found) /\ first.id # 0 /\ first \in Page
    BY <2>1, <2>2 DEF Numbered
  <2> QED BY <2>1, <2>2, <2>3
<1> QED BY <1>1, <1>2

(* It stays the first, whatever pages are added after it.                    *)
LEMMA FirstKept ==
  ASSUME NEW n \in Nat, NEW pages, Numbered(pages, n),
         NEW m \in Nat, NEW more, Numbered(more, m), n <= m,
         \A i \in 1..n : more[i].day = pages[i].day,
         NEW d, NEW first, first = FirstOf(pages, d), NEW then, then = FirstOf(more, d)
  PROVE  /\ first.id # 0 => then = more[first.id]
         /\ first.id = 0 => then.id \notin 1..n
<1>1. first.id = 0 => \A i \in 1..n : pages[i].day # d
  BY FirstFacts
<1>2. first.id # 0 => /\ first.id \in 1..n /\ pages[first.id].day = d
                      /\ \A i \in 1..n : pages[i].day = d => first.id <= i
  BY FirstFacts
<1>3. then.id = 0 => \A i \in 1..m : more[i].day # d
  BY FirstFacts
<1>4. then.id # 0 => /\ then.id \in 1..m /\ then = more[then.id] /\ then.day = d
                     /\ \A i \in 1..m : more[i].day = d => then.id <= i
  BY FirstFacts
<1>5. CASE first.id = 0
  BY <1>1, <1>4, <1>5
<1>6. CASE first.id # 0
  <2>1. more[first.id].day = d /\ first.id \in 1..m
    BY <1>2, <1>6
  <2>2. then.id # 0 /\ then.id <= first.id
    BY <1>3, <1>4, <2>1
  <2>3. then.id \in 1..n /\ pages[then.id].day = d
    BY <1>2, <1>4, <1>6, <2>2
  <2>4. then.id = first.id
    BY <1>2, <1>6, <2>2, <2>3
  <2> QED BY <1>4, <1>6, <2>2, <2>4
<1> QED BY <1>5, <1>6

-----------------------------------------------------------------------------
(* What the helpers do.                                                      *)

LEMMA GoFacts ==
  ASSUME Types, NEW j \in Jobs, NEW step \in Coroutine, Go(j, step)
  PROVE  /\ job' \in [Jobs -> Coroutine]
         /\ job'[j] = step
         /\ \A k \in Jobs \ {j} : job'[k] = job[k]
BY DEF Types, Go

Blank(d) == [id |-> 0, day |-> d, body |-> {}, rev |-> 0]

LEMMA OnPageFacts ==
  ASSUME Types, NEW j \in Jobs, NEW d \in Days, NEW t \in Text, OnPage(j, d, t)
  PROVE  /\ job' \in [Jobs -> Coroutine]
         /\ \A k \in Jobs \ {j} : job'[k] = job[k]
         /\ d = today => job'[j] = Step("call", "find", Blank(d), t)
         /\ d # today /\ entry.id # 0 => job'[j] = Step("call", "read", entry, t)
         /\ d # today /\ entry.id = 0 => job'[j] = Ended
<1>0. Blank(d) = [NoPage EXCEPT !.day = d]
  BY DEF Blank, NoPage
<1>1. Blank(d) \in Page /\ entry \in Page
  BY NoPageIsPage DEF Blank, NoPage, Page, Types, TypeOK
<1>2. Step("call", "find", Blank(d), t) \in Coroutine /\ Step("call", "read", entry, t) \in Coroutine
  BY <1>1 DEF Step, Coroutine
<1>3. CASE d = today
  <2>1. Go(j, Step("call", "find", Blank(d), t))
    BY <1>0, <1>3 DEF OnPage
  <2> QED BY <1>2, <1>3, <2>1, GoFacts
<1>4. CASE d # today
  <2>1. Go(j, IF entry.id = 0 THEN Ended ELSE Step("call", "read", entry, t))
    BY <1>4 DEF OnPage
  <2> QED BY <1>2, <1>4, <2>1, GoFacts, NoPageIsPage
<1> QED BY <1>3, <1>4

LEMMA EditedFacts ==
  ASSUME Types, NEW j \in Jobs, NEW page \in Page
  PROVE  /\ Edited(j, page) \in Page
         /\ Edited(j, page).id = page.id /\ Edited(j, page).day = page.day
         /\ j \in Saves => Edited(j, page).body = job[j].text
         /\ j = "append" => Edited(j, page).body = page.body \cup job[j].text
         /\ j \in Marks => Edited(j, page) = page
<1> USE DEF Page
<1>0. job[j].text \in Text /\ page.body \cup job[j].text \in Text
  BY DEF Types, Coroutine, Text
<1>1. CASE j \in Saves
  BY <1>0, <1>1, JobNames DEF Edited
<1>2. CASE j = "append"
  BY <1>0, <1>2, JobNames DEF Edited
<1>3. CASE j \in Marks
  BY <1>3, JobNames DEF Edited
<1> QED BY <1>1, <1>2, <1>3, JobNames

(* A coroutine that goes on to a write issues it, after those there are.     *)
LEMMA IssueFacts ==
  ASSUME Types, NEW j \in Jobs, NEW o \in {"insert", "update"}, NEW page \in Page,
         Go(j, Step("call", o, page, job[j].text)), writes' = Append(writes, Write(j))
  PROVE  LET w == [by |-> j, op |-> o, page |-> page] IN
         /\ job' \in [Jobs -> Coroutine]
         /\ job'[j] = Step("call", o, page, job[j].text)
         /\ \A k \in Jobs \ {j} : job'[k] = job[k]
         /\ writes' = Append(writes, w) /\ w \in Record /\ writes' \in Seq(Record)
         /\ Len(writes') = Len(writes) + 1
         /\ writes'[Len(writes) + 1] = w
         /\ \A i \in 1..Len(writes) : writes'[i] = writes[i]
<1> DEFINE c == Step("call", o, page, job[j].text)
           w == [by |-> j, op |-> o, page |-> page]
<1>1. c \in Coroutine /\ c.op = o /\ c.page = page
  BY DEF Step, Coroutine, Types
<1>2. job' \in [Jobs -> Coroutine] /\ job'[j] = c /\ \A k \in Jobs \ {j} : job'[k] = job[k]
  BY <1>1, GoFacts
<1>3. writes' = Append(writes, w)
  BY <1>1, <1>2 DEF Write
<1>4. w \in Record /\ writes \in Seq(Record)
  BY DEF Record, Types
<1> QED BY <1>2, <1>3, <1>4

(* What is left of the queue when the debounce starts anew.                  *)
LEMMA KeptFacts ==
  ASSUME Types, QueueInv, NEW ws \in Kept("debounce")
  PROVE  /\ ws \in Seq(Record)
         /\ \A i \in 1..Len(ws) : \E k \in 1..Len(writes) :
              /\ i <= k /\ ws[i].op = writes[k].op /\ ws[i].page = writes[k].page
              /\ ws[i].by # "debounce"
              /\ ws[i].by # "nobody" => ws[i] = writes[k]
              /\ i > 1 => ws[i] = writes[k]
         /\ \A i, k \in 1..Len(ws) : ws[i].by = ws[k].by /\ ws[i].by # "nobody" => i = k
<1> DEFINE n == Len(writes)
           mine == {i \in 1..n : writes[i].by = "debounce"}
<1>1. n \in Nat /\ writes \in Seq(Record) /\ \A i \in 1..n : writes[i] \in Record
  BY DEF Types
<1>2. \A i, k \in 1..n : writes[i].by = writes[k].by /\ writes[i].by # "nobody" => i = k
  BY DEF QueueInv
<1>3. CASE mine = {}
  <2>1. ws = writes
    BY <1>3 DEF Kept
  <2>2. \A i \in 1..n : writes[i].by # "debounce"
    BY <1>3
  <2> QED BY <1>1, <1>2, <2>1, <2>2
<1>4. ASSUME NEW m \in mine, ws = Without(m)
      PROVE  /\ ws \in Seq(Record) /\ Len(ws) = n - 1
             /\ \A i \in 1..(n - 1) : ws[i] = writes[IF i < m THEN i ELSE i + 1]
  <2>1. \A i \in 1..(n - 1) : writes[IF i < m THEN i ELSE i + 1] \in Record
    BY <1>1
  <2>2. n - 1 \in Nat
    BY <1>1
  <2> QED BY <1>1, <1>4, <2>1, <2>2 DEF Without
<1>5. CASE \E m \in mine : ws = Without(m)
  <2>1. PICK m \in mine : ws = Without(m)
    BY <1>5
  <2>2. m \in 1..n /\ writes[m].by = "debounce"
    OBVIOUS
  <2>3. /\ ws \in Seq(Record) /\ Len(ws) = n - 1
        /\ \A i \in 1..(n - 1) : ws[i] = writes[IF i < m THEN i ELSE i + 1]
    BY <1>4, <2>1
  <2>4. ASSUME NEW i \in 1..(n - 1)
        PROVE  \E k \in 1..n : i <= k /\ k # m /\ ws[i] = writes[k]
    BY <1>1, <2>2, <2>3
  <2>5. \A k \in 1..n : k # m => writes[k].by # "debounce"
    BY <1>2, <2>2
  <2>6. ASSUME NEW i \in 1..(n - 1), NEW k \in 1..(n - 1), ws[i].by = ws[k].by,
               ws[i].by # "nobody"
        PROVE  i = k
    <3> DEFINE a == IF i < m THEN i ELSE i + 1
               b == IF k < m THEN k ELSE k + 1
    <3>1. a \in 1..n /\ b \in 1..n /\ ws[i] = writes[a] /\ ws[k] = writes[b]
      BY <1>1, <2>3
    <3>2. a = b
      BY <1>2, <2>6, <3>1
    <3> QED BY <2>2, <3>2
  <2> QED BY <2>3, <2>4, <2>5, <2>6
<1>6. CASE 1 \in mine /\ ws = [writes EXCEPT ![1].by = "nobody"]
  <2>1. 1 \in 1..n /\ writes[1] \in Record
    BY <1>1, <1>6
  <2>2. [writes[1] EXCEPT !.by = "nobody"] \in Record
    BY <2>1 DEF Record
  <2>3. /\ ws \in Seq(Record) /\ Len(ws) = n
        /\ ws[1] = [writes[1] EXCEPT !.by = "nobody"]
        /\ \A i \in 2..n : ws[i] = writes[i]
    BY <1>1, <1>6, <2>1, <2>2
  <2>4. ws[1].by = "nobody" /\ ws[1].op = writes[1].op /\ ws[1].page = writes[1].page
    BY <2>1, <2>3 DEF Record
  <2>5. \A i \in 2..n : writes[i].by # "debounce"
    BY <1>2, <1>6, <2>1
  <2>6. Len(ws) = n /\ \A i \in 1..n : i # 1 => i \in 2..n /\ ws[i] = writes[i]
    BY <2>3
  <2>7. ASSUME NEW i \in 1..n, NEW k \in 1..n, ws[i].by = ws[k].by, ws[i].by # "nobody"
        PROVE  i = k
    BY <1>2, <2>4, <2>6, <2>7
  <2>8. \A i \in 1..n :
          /\ i <= i /\ ws[i].op = writes[i].op /\ ws[i].page = writes[i].page
          /\ ws[i].by # "debounce"
          /\ ws[i].by # "nobody" => ws[i] = writes[i]
          /\ i > 1 => ws[i] = writes[i]
    BY <2>4, <2>5, <2>6
  <2>9. ws \in Seq(Record)
    BY <2>3
  <2> QED BY <2>6, <2>7, <2>8, <2>9
<1>7. \/ \E m \in mine : ws = Without(m)
      \/ 1 \in mine /\ ws = [writes EXCEPT ![1].by = "nobody"]
      \/ mine = {}
  BY DEF Kept
<1> QED BY <1>3, <1>5, <1>6, <1>7

(* Room executes the write at the head of the queue.                         *)
Place(w) == IF w.op = "insert" THEN nextId ELSE w.page.id

LEMMA ExecuteFacts ==
  ASSUME Types, LinkInv, QueueInv, ExecuteWrite, NEW w, w = writes[1]
  PROVE  /\ w \in Record /\ 1 \in 1..Len(writes)
         /\ writes' \in Seq(Record) /\ Len(writes') = Len(writes) - 1
         /\ \A i \in 1..Len(writes') : i + 1 \in 1..Len(writes) /\ writes'[i] = writes[i + 1]
         /\ nextId' = IF w.op = "insert" THEN nextId + 1 ELSE nextId
         /\ nextId' \in Nat \ {0} /\ nextId <= nextId'
         /\ Numbered(rows', nextId' - 1)
         /\ Place(w) \in 1..(nextId' - 1)
         /\ w.op = "update" => Place(w) \in 1..(nextId - 1)
         /\ rows'[Place(w)].day = w.page.day /\ rows'[Place(w)].body = w.page.body
         /\ w.op = "update" => rows'[Place(w)].rev = rows[Place(w)].rev + 1
         /\ \A i \in 1..(nextId - 1) : /\ rows'[i].day = rows[i].day
                                       /\ rows'[i].rev >= rows[i].rev
                                       /\ i # Place(w) => rows'[i] = rows[i]
         /\ job' \in [Jobs -> Coroutine]
         /\ w.by = "nobody" => job' = job
         /\ w.by # "nobody" =>
              /\ job[w.by].pc = "call" /\ job[w.by].op = w.op /\ job[w.by].page = w.page
              /\ job'[w.by] = Step("back", w.op, rows'[Place(w)], job[w.by].text)
         /\ \A k \in Jobs \ {w.by} : job'[k] = job[k]
<1> DEFINE id == Place(w)
           page == [w.page EXCEPT !.id = id,
                                  !.rev = IF w.op = "insert" THEN 1 ELSE rows[id].rev + 1]
           n == nextId - 1
<1>1. Len(writes) \in Nat /\ writes # <<>> /\ w \in Record /\ Head(writes) = w
      /\ 1 \in 1..Len(writes)
  BY DEF ExecuteWrite, Types
<1>2. /\ writes' \in Seq(Record) /\ Len(writes') = Len(writes) - 1
      /\ \A i \in 1..Len(writes') : i + 1 \in 1..Len(writes) /\ writes'[i] = writes[i + 1]
  BY <1>1 DEF ExecuteWrite, Types
<1>3. n \in Nat /\ nextId \in Nat \ {0} /\ rows \in [1..n -> Page] /\ \A i \in 1..n : rows[i].id = i
  <2>1. nextId \in Nat \ {0} /\ rows \in [1..n -> Page] /\ DOMAIN rows = 1..n
    BY DEF Types, TypeOK
  <2>2. \A i \in DOMAIN rows : rows[i].id = i
    BY DEF Types, TypeOK
  <2> QED BY <2>1, <2>2
<1>4. /\ w.op \in {"insert", "update"} /\ w.page \in Page /\ w.by \in Jobs \cup {"nobody"}
      /\ w.page.id \in Nat /\ w.page.day \in Days /\ w.page.body \in Text
  BY <1>1 DEF Record, Page
<1>5. w.op = "update" => id \in 1..n /\ rows[id].day = w.page.day
  BY <1>1, <1>3 DEF QueueInv, Waited, Stored, Place
<1>6. /\ rows' = [i \in DOMAIN rows \cup {id} |-> IF i = id THEN page ELSE rows[i]]
      /\ nextId' = IF w.op = "insert" THEN nextId + 1 ELSE nextId
      /\ IF w.by = "nobody" THEN UNCHANGED job
         ELSE Go(w.by, Step("back", w.op, page, job[w.by].text))
  BY <1>1 DEF ExecuteWrite, Place, NextId
<1>7. page \in Page /\ page.id = id /\ page.day = w.page.day /\ page.body = w.page.body
      /\ page.rev = IF w.op = "insert" THEN 1 ELSE rows[id].rev + 1
  <2>1. id \in Nat /\ (IF w.op = "insert" THEN 1 ELSE rows[id].rev + 1) \in Nat
    BY <1>3, <1>4, <1>5 DEF Place, Page
  <2> QED BY <1>4, <2>1 DEF Page
<1> HIDE DEF page
<1>8. DOMAIN rows = 1..n /\ DOMAIN rows \cup {id} = 1..(nextId' - 1)
  BY <1>3, <1>4, <1>5, <1>6 DEF Place
<1>9. /\ rows' \in [1..(nextId' - 1) -> Page] /\ rows'[id] = page
      /\ \A i \in 1..n : i # id => rows'[i] = rows[i]
      /\ id \in 1..(nextId' - 1)
  BY <1>3, <1>6, <1>7, <1>8
<1>10. Numbered(rows', nextId' - 1)
  BY <1>3, <1>7, <1>8, <1>9 DEF Numbered
<1>11. \A i \in 1..n : /\ rows'[i].day = rows[i].day
                       /\ rows'[i].rev >= rows[i].rev
                       /\ i # id => rows'[i] = rows[i]
  <2> SUFFICES ASSUME NEW i \in 1..n
               PROVE  /\ rows'[i].day = rows[i].day
                      /\ rows'[i].rev >= rows[i].rev
    BY <1>9
  <2>1. rows[i].rev \in Nat
    BY <1>3 DEF Page
  <2>2. CASE i # id
    BY <1>9, <2>1, <2>2
  <2>3. CASE i = id
    <3>1. w.op # "insert"
      BY <1>3, <2>3 DEF Place
    <3> QED BY <1>4, <1>5, <1>7, <1>9, <2>1, <2>3, <3>1
  <2> QED BY <2>2, <2>3
<1>12. ASSUME w.by # "nobody"
       PROVE  /\ job[w.by].pc = "call" /\ job[w.by].op = w.op /\ job[w.by].page = w.page
              /\ job' \in [Jobs -> Coroutine]
              /\ job'[w.by] = Step("back", w.op, page, job[w.by].text)
              /\ \A k \in Jobs \ {w.by} : job'[k] = job[k]
  <2>1. w.by \in Jobs /\ job[w.by] \in Coroutine
    BY <1>4, <1>12 DEF Types
  <2>2. job[w.by].pc = "call" /\ job[w.by].op = w.op /\ job[w.by].page = w.page
    BY <1>1, <1>12 DEF QueueInv, Waited
  <2>4. Step("back", w.op, page, job[w.by].text) \in Coroutine
    BY <1>4, <1>7, <2>1 DEF Step, Coroutine
  <2>5. Go(w.by, Step("back", w.op, page, job[w.by].text))
    BY <1>6, <1>12
  <2> QED BY <2>1, <2>2, <2>4, <2>5, GoFacts
<1>13. w.by = "nobody" => job' = job /\ job' \in [Jobs -> Coroutine]
  BY <1>6 DEF Types
<1>14. nextId' \in Nat \ {0} /\ nextId <= nextId'
  BY <1>3, <1>6
<1>15. w.op = "update" => rows'[id].rev = rows[id].rev + 1
  BY <1>7, <1>9
<1>16. rows'[id].day = w.page.day /\ rows'[id].body = w.page.body
  BY <1>7, <1>9
<1> HIDE DEF id
<1>17. id = Place(w)
  BY DEF id
<1> QED BY <1>1, <1>2, <1>5, <1>6, <1>9, <1>10, <1>11, <1>12, <1>13, <1>14, <1>15, <1>16, <1>17

-----------------------------------------------------------------------------
(* The types.                                                                *)

LEMMA TypeFacts ==
  ASSUME Types
  PROVE  /\ nextId \in Nat \ {0} /\ nextId - 1 \in Nat /\ DOMAIN rows = 1..(nextId - 1)
         /\ Numbered(rows, nextId - 1)
         /\ today \in Days /\ selected \in Days /\ today \in Nat /\ selected <= today
         /\ text \in Text /\ entry \in Page
         /\ \A d \in Days : PageOf(d) \in Page
         /\ answer # <<>> => 1 \in DOMAIN answer /\ answer[1] \in Page /\ answer = <<answer[1]>>
         /\ \A j \in Jobs : job[j] \in Coroutine /\ job[j].page \in Page /\ job[j].text \in Text
<1>1. nextId \in Nat \ {0} /\ nextId - 1 \in Nat /\ DOMAIN rows = 1..(nextId - 1)
  BY DEF Types, TypeOK
<1>2. Numbered(rows, nextId - 1)
  BY <1>1 DEF Types, TypeOK, Numbered
<1>3. \A d \in Days : PageOf(d) \in Page
  <2> TAKE d \in Days
  <2>1. PageOf(d) = FirstOf(rows, d)
    BY DEF PageOf, FirstOf
  <2> QED BY <1>1, <1>2, <2>1, FirstFacts
<1>4. today \in Days /\ selected \in Days /\ today \in Nat /\ selected <= today
  BY PageAssumption DEF Types, TypeOK, Days
<1>5. text \in Text /\ entry \in Page
  BY DEF Types, TypeOK
<1>6. answer # <<>> => 1 \in DOMAIN answer /\ answer[1] \in Page /\ answer = <<answer[1]>>
  <2>1. answer \in Seq(Page) /\ Len(answer) <= 1
    BY DEF Types, TypeOK
  <2>2. answer # <<>> => Len(answer) = 1
    <3> SUFFICES ASSUME answer # <<>> PROVE Len(answer) = 1
      OBVIOUS
    <3>1. Len(answer) \in Nat \ {0}
      BY <2>1, EmptySeq, Zenon
    <3>2. \A n \in Nat \ {0} : n <= 1 => n = 1
      OBVIOUS
    <3> QED BY <2>1, <3>1, <3>2, Zenon
  <2>3. answer # <<>> => answer[1] \in Page /\ DOMAIN answer = 1..1
    BY <2>1, <2>2
  <2> QED BY <2>1, <2>2, <2>3
<1>7. \A j \in Jobs : job[j] \in Coroutine /\ job[j].page \in Page /\ job[j].text \in Text
  BY DEF Types, Coroutine
<1> QED BY <1>1, <1>2, <1>3, <1>4, <1>5, <1>6, <1>7

(* The part of the types that the coroutines and the queue make up.          *)
JobTypes == job \in [Jobs -> Coroutine] /\ writes \in Seq(Record)

LEMMA JobTypesStep ==
  ASSUME Types, LinkInv, QueueInv, Next
  PROVE  JobTypes'
<1> USE DEF JobTypes
<1>0. JobTypes
  BY DEF Types
<1>1. CASE TypeBody
  <2>1. [Ended EXCEPT !.pc = "delay"] \in Coroutine
    BY NoPageIsPage DEF Ended, Coroutine
  <2>2. job' \in [Jobs -> Coroutine]
    BY <1>1, <2>1, GoFacts DEF TypeBody, Jobs
  <2> QED BY <1>1, <2>2, KeptFacts DEF TypeBody
<1>2. CASE \E d \in Days : d <= today /\ SelectDay(d)
  BY <1>0, <1>2, OnPageFacts, TypeFacts DEF SelectDay, SaveNow, Jobs
<1>3. CASE Mark
  BY <1>0, <1>3, OnPageFacts, TypeFacts, NoPageIsPage DEF Mark, Jobs
<1>4. CASE Dictated
  <2>1. {<<edits', today>>} \in Text
    <3>1. edits' \in 1..MaxEdits
      BY <1>4, PageAssumption DEF Dictated, Types, TypeOK
    <3> QED BY <3>1, TypeFacts DEF Text
  <2> QED BY <1>0, <1>4, <2>1, OnPageFacts, TypeFacts DEF Dictated, Jobs
<1>5. CASE Midnight \/ Query \/ Mirror
  BY <1>0, <1>5 DEF Midnight, Query, Mirror
<1>6. CASE ExecuteWrite
  BY <1>6, ExecuteFacts
<1>7. CASE DebounceFires
  BY <1>0, <1>7, OnPageFacts, TypeFacts DEF DebounceFires, SaveNow, Jobs
<1>8. ASSUME NEW j \in Jobs, Read(j)
      PROVE  JobTypes'
  <2> DEFINE p == job[j].page
             found == IF job[j].op = "find" THEN PageOf(p.day) ELSE rows[p.id]
             c == Step("back", job[j].op, IF found.id = 0 THEN p ELSE found, job[j].text)
  <2>1. p \in Page /\ p.day \in Days /\ job[j] \in Coroutine
    BY TypeFacts DEF Page
  <2>2. job[j].op # "find" => rows[p.id] \in Page
    BY <1>8, TypeFacts DEF Read, LinkInv, Linked, Handed, Stored, Numbered
  <2>3. found \in Page
    BY <2>1, <2>2, TypeFacts
  <2>4. c \in Coroutine
    BY <2>1, <2>3 DEF Step, Coroutine
  <2>5. Go(j, c) /\ writes' = writes
    BY <1>8 DEF Read
  <2> QED BY <1>0, <2>4, <2>5, GoFacts
<1>9. ASSUME NEW j \in Jobs, NEW page \in Page, Update(j, page)
      PROVE  JobTypes'
  BY <1>9, IssueFacts, EditedFacts DEF Update
<1>10. ASSUME NEW j \in Jobs, Found(j)
       PROVE  JobTypes'
  <2>1. job[j].page \in Page /\ job[j] \in Coroutine
    BY TypeFacts
  <2>2. CASE job[j].page.id = 0
    BY <1>10, <2>1, <2>2, IssueFacts DEF Found
  <2>3. CASE job[j].page.id # 0 /\ j = "append"
    BY <1>10, <2>1, <2>3, <1>9 DEF Found
  <2>4. CASE job[j].page.id # 0 /\ j # "append"
    <3>1. Step("call", "read", job[j].page, job[j].text) \in Coroutine
      BY <2>1 DEF Step, Coroutine
    <3> QED BY <1>0, <1>10, <2>4, <3>1, GoFacts DEF Found
  <2> QED BY <2>2, <2>3, <2>4
<1>11. ASSUME NEW j \in Jobs, WriteBack(j)
       PROVE  JobTypes'
  BY <1>9, <1>11, TypeFacts DEF WriteBack
<1>12. ASSUME NEW j \in Jobs, Written(j)
       PROVE  JobTypes'
  BY <1>0, <1>12, GoFacts, NoPageIsPage DEF Written
<1> QED BY <1>1, <1>2, <1>3, <1>4, <1>5, <1>6, <1>7, <1>8, <1>10, <1>11, <1>12
        DEF Next, Resume

(* The part that the table makes up, and the rest.                           *)
LEMMA TableTypesStep ==
  ASSUME Types, LinkInv, QueueInv, Next
  PROVE  /\ nextId' \in Nat \ {0} /\ Numbered(rows', nextId' - 1)
         /\ mishaps' \subseteq Mishaps
<1>1. nextId \in Nat \ {0} /\ Numbered(rows, nextId - 1) /\ mishaps \subseteq Mishaps
  BY TypeFacts DEF Types, TypeOK
<1>2. CASE TypeBody \/ Mark \/ Dictated \/ Midnight \/ Query \/ Mirror
  BY <1>1, <1>2 DEF TypeBody, Mark, Dictated, Midnight, Query, Mirror, Shown, table, counts,
                    history, Mishaps
<1>3. CASE \/ DebounceFires
           \/ \E d \in Days : d <= today /\ SelectDay(d)
  BY <1>1, <1>3 DEF DebounceFires, SelectDay, SaveNow, table, Mishaps
<1>4. CASE ExecuteWrite
  <2>1. mishaps' \subseteq Mishaps
    <3>1. \E h \in SUBSET {"crossed"} : mishaps' = mishaps \cup h
      BY <1>4 DEF ExecuteWrite
    <3> QED BY <1>1, <3>1 DEF Mishaps
  <2> QED BY <1>4, <2>1, ExecuteFacts
<1>5. CASE \E j \in Jobs : Read(j) \/ Resume(j)
  BY <1>1, <1>5 DEF Read, Resume, Found, WriteBack, Written, table, history
<1> QED BY <1>2, <1>3, <1>4, <1>5 DEF Next

LEMMA RestTypesStep ==
  ASSUME Types, Next
  PROVE  /\ today' \in Days /\ selected' \in 0..today'
         /\ edits' \in 0..MaxEdits /\ marks' \in 0..MaxMarks /\ selects' \in 0..MaxSelects
<1>1. /\ today \in Days /\ selected \in 0..today
      /\ edits \in 0..MaxEdits /\ marks \in 0..MaxMarks /\ selects \in 0..MaxSelects
  BY DEF Types, TypeOK
<1>2. CASE TypeBody \/ Mark \/ Dictated
  BY <1>1, <1>2, PageAssumption DEF TypeBody, Mark, Dictated, mirror
<1>3. CASE \E d \in Days : d <= today /\ SelectDay(d)
  BY <1>1, <1>3, PageAssumption DEF SelectDay, Days
<1>4. CASE Midnight
  BY <1>1, <1>4, PageAssumption DEF Midnight, Days, mirror, counts
<1>5. CASE ExecuteWrite \/ Query \/ Mirror \/ DebounceFires
  BY <1>1, <1>5 DEF ExecuteWrite, Query, Mirror, DebounceFires, mirror, counts
<1>6. CASE \E j \in Jobs : Read(j) \/ Resume(j)
  BY <1>1, <1>6 DEF Read, Resume, Found, WriteBack, Written, mirror, counts
<1> QED BY <1>2, <1>3, <1>4, <1>5, <1>6 DEF Next

LEMMA FlagTypesStep ==
  ASSUME Types, Next
  PROVE  dirty' \in BOOLEAN /\ seen' \in BOOLEAN
<1>1. dirty \in BOOLEAN /\ seen \in BOOLEAN
  BY DEF Types, TypeOK
<1>2. CASE \E d \in Days : d <= today /\ SelectDay(d)
  BY <1>1, <1>2 DEF SelectDay
<1>3. CASE ExecuteWrite \/ Query \/ Mirror
  BY <1>1, <1>3 DEF ExecuteWrite, Query, Mirror, Shown, history
<1>4. CASE UNCHANGED <<dirty, seen>>
  BY <1>1, <1>4
<1> QED BY <1>2, <1>3, <1>4
        DEF Next, TypeBody, Mark, Dictated, Midnight, DebounceFires, Read, Resume, Found,
            WriteBack, Written, mirror, history

LEMMA ScreenTypesStep ==
  ASSUME Types, Next
  PROVE  text' \in Text /\ entry' \in Page /\ answer' \in Seq(Page) /\ Len(answer') <= 1
<1>1. text \in Text /\ entry \in Page /\ answer \in Seq(Page) /\ Len(answer) <= 1
  BY DEF Types, TypeOK
<1>2. <<>> \in Seq(Page) /\ Len(<<>>) = 0
  OBVIOUS
<1>3. CASE TypeBody
  <2>1. edits' \in 1..MaxEdits
    BY <1>3, PageAssumption DEF TypeBody, Types, TypeOK
  <2>2. text' \in Text
    BY <1>1, <1>3, <2>1, TypeFacts DEF TypeBody, Text
  <2> QED BY <1>1, <1>3, <2>2 DEF TypeBody, mirror
<1>4. CASE \E d \in Days : d <= today /\ SelectDay(d)
  <2>1. UNCHANGED <<text, entry>> /\ (answer' = <<>> \/ answer' = answer)
    BY <1>4 DEF SelectDay
  <2>2. CASE answer' = <<>>
    BY <1>1, <1>2, <2>1, <2>2
  <2>3. CASE answer' = answer
    BY <1>1, <2>1, <2>3, Zenon
  <2> QED BY <2>1, <2>2, <2>3
<1>5. CASE Query
  <2>1. PageOf(selected) \in Page
    BY TypeFacts
  <2>2. answer' = <<PageOf(selected)>>
    BY <1>5 DEF Query
  <2>3. answer' \in Seq(Page) /\ Len(answer') = 1
    BY <2>1, <2>2
  <2> QED BY <1>1, <1>5, <2>3 DEF Query
<1>6. CASE Mirror
  <2>1. entry' \in Page /\ (text' = text \/ text' = entry'.body) /\ answer' = <<>>
    BY <1>6, TypeFacts DEF Mirror
  <2> QED BY <1>1, <1>2, <2>1 DEF Page
<1>7. CASE Mark \/ Dictated \/ Midnight \/ ExecuteWrite \/ DebounceFires
  BY <1>1, <1>7 DEF Mark, Dictated, Midnight, ExecuteWrite, DebounceFires, mirror
<1>8. CASE \E j \in Jobs : Read(j) \/ Resume(j)
  BY <1>1, <1>8 DEF Read, Resume, Found, WriteBack, Written, mirror
<1> QED BY <1>3, <1>4, <1>5, <1>6, <1>7, <1>8 DEF Next

LEMMA TypesStep ==
  ASSUME Types, LinkInv, QueueInv, [Next]_vars
  PROVE  Types'
<1>1. CASE Next
  <2>1. rows' \in [1..(nextId' - 1) -> Page] /\ \A i \in DOMAIN rows' : rows'[i].id = i
    BY <1>1, TableTypesStep DEF Numbered
  <2>2. /\ nextId' \in Nat \ {0} /\ DOMAIN rows' = 1..(nextId' - 1)
        /\ \A i \in DOMAIN rows' : rows'[i] \in Page /\ rows'[i].id = i
    BY <1>1, <2>1, TableTypesStep
  <2>3. \A j \in Jobs :
          /\ job'[j].pc \in {"none", "delay", "call", "back"}
          /\ job'[j].op \in {"none", "find", "read", "insert", "update"}
          /\ job'[j].page \in Page /\ job'[j].text \in Text
    BY <1>1, JobTypesStep DEF JobTypes, Coroutine
  <2>4. \A i \in DOMAIN answer' : answer'[i] \in Page
    BY <1>1, ScreenTypesStep
  <2>5. mishaps' \subseteq Mishaps
    BY <1>1, TableTypesStep
  <2>6. TypeOK'
    BY <1>1, <2>2, <2>3, <2>4, <2>5, RestTypesStep, FlagTypesStep, ScreenTypesStep DEF TypeOK
  <2> QED BY <1>1, <2>1, <2>6, JobTypesStep, ScreenTypesStep DEF Types, JobTypes
<1>2. CASE UNCHANGED vars
  BY <1>2 DEF vars, table, mirror, counts, history, Types, TypeOK
<1> QED BY <1>1, <1>2

-----------------------------------------------------------------------------
(* The table only grows, and whoever holds a page goes on holding it.        *)

Grown ==
  /\ nextId' \in Nat \ {0} /\ nextId <= nextId' /\ Numbered(rows', nextId' - 1)
  /\ \A i \in 1..(nextId - 1) : rows'[i].day = rows[i].day /\ rows'[i].rev >= rows[i].rev

LEMMA TableStep ==
  ASSUME Types, LinkInv, QueueInv, Next
  PROVE  Grown /\ (rows' # rows => ExecuteWrite)
<1>1. CASE ExecuteWrite
  BY <1>1, ExecuteFacts DEF Grown
<1>2. CASE UNCHANGED table
  <2>1. \A i \in 1..(nextId - 1) : rows[i].rev \in Nat
    BY TypeFacts DEF Numbered, Page
  <2> QED BY <1>2, <2>1, TypeFacts DEF Grown, table
<1>3. ExecuteWrite \/ UNCHANGED table
  BY DEF Next, TypeBody, SelectDay, Mark, Dictated, Midnight, Query, Mirror, DebounceFires,
         Read, Resume, Found, WriteBack, Written
<1> QED BY <1>1, <1>2, <1>3 DEF table

LEMMA StoredKept ==
  ASSUME Types, Grown, NEW page, Stored(page, rows)
  PROVE  Stored(page, rows')
BY TypeFacts DEF Grown, Stored, Numbered

LEMMA PageOfIs ==
  ASSUME NEW d
  PROVE  PageOf(d) = FirstOf(rows, d)
BY DEF PageOf, FirstOf

LEMMA PageOfFacts ==
  ASSUME Types, NEW d, NEW page, page = FirstOf(rows, d)
  PROVE  /\ Stored(page, rows)
         /\ page.id = 0 => page = NoPage /\ \A i \in DOMAIN rows : rows[i].day # d
         /\ page.id # 0 => /\ page.id \in DOMAIN rows /\ page = rows[page.id] /\ page.day = d
BY TypeFacts, FirstFacts DEF Stored

LEMMA PageOfStep ==
  ASSUME Types, Grown, NEW d, NEW page, page = FirstOf(rows, d),
         NEW then, then = FirstOf(rows', d)
  PROVE  /\ page.id # 0 => then = rows'[page.id] /\ then.id = page.id
         /\ page.id = 0 => then.id \notin DOMAIN rows
<1>2. page.id # 0 => page.id \in 1..(nextId - 1)
  BY TypeFacts, FirstFacts
<1>3. /\ nextId - 1 \in Nat /\ nextId' - 1 \in Nat /\ nextId - 1 <= nextId' - 1
      /\ Numbered(rows, nextId - 1) /\ Numbered(rows', nextId' - 1)
      /\ \A i \in 1..(nextId - 1) : rows'[i].day = rows[i].day
  BY TypeFacts DEF Grown, Types, TypeOK
<1>4. /\ page.id # 0 => then = rows'[page.id]
      /\ page.id = 0 => then.id \notin 1..(nextId - 1)
  BY <1>3, FirstKept
<1>5. page.id # 0 => rows'[page.id].id = page.id
  BY <1>2, <1>3 DEF Numbered
<1> QED BY <1>4, <1>5, TypeFacts

LEMMA LinkedKept ==
  ASSUME Types, Grown, NEW c, Linked(c, rows)
  PROVE  Linked(c, rows')
BY StoredKept DEF Linked

(* What a coroutine that goes on does, and what it knows then.               *)
Issued(w) ==
  /\ w \in Record /\ Len(writes') = Len(writes) + 1
  /\ writes'[Len(writes) + 1] = w
  /\ \A i \in 1..Len(writes) : writes'[i] = writes[i]

LEMMA ReadFacts ==
  ASSUME Types, LinkInv, NEW j \in Jobs, Read(j), NEW p, p = job[j].page
  PROVE  /\ \A k \in Jobs \ {j} : job'[k] = job[k]
         /\ job[j].pc = "call" /\ job[j].op \in {"find", "read"} /\ p.day \in Days
         /\ job[j].op = "find" =>
              /\ p.id = 0 /\ p.body = {}
              /\ job'[j] = Step("back", "find",
                                IF FirstOf(rows, p.day).id = 0 THEN p
                                ELSE FirstOf(rows, p.day), job[j].text)
         /\ job[j].op = "read" =>
              /\ p.id # 0 /\ p.id \in DOMAIN rows /\ rows[p.id].day = p.day
              /\ rows[p.id].id = p.id
              /\ job'[j] = Step("back", "read", rows[p.id], job[j].text)
<1> DEFINE found == IF job[j].op = "find" THEN FirstOf(rows, p.day) ELSE rows[p.id]
           c == Step("back", job[j].op, IF found.id = 0 THEN p ELSE found, job[j].text)
<1>1. /\ p \in Page /\ p.day \in Days /\ job[j] \in Coroutine
      /\ Stored(p, rows) /\ Linked(job[j], rows)
  BY TypeFacts DEF Page, LinkInv, Linked
<1>2. job[j].op \in {"find", "read"} /\ job[j].pc = "call" /\ Go(j, c)
  BY PageOfIs DEF Read
<1>3. job[j].op = "find" => /\ found = FirstOf(rows, p.day) /\ found \in Page
                            /\ p.id = 0 /\ p.body = {}
  BY <1>1, <1>2, TypeFacts, FirstFacts DEF Linked, Handed
<1>4. job[j].op = "read" =>
        /\ p.id # 0 /\ p.id \in DOMAIN rows /\ rows[p.id].day = p.day
        /\ found = rows[p.id] /\ rows[p.id].id = p.id /\ rows[p.id] \in Page
  BY <1>1, <1>2, TypeFacts DEF Linked, Handed, Stored, Numbered
<1>5. found \in Page
  BY <1>2, <1>3, <1>4
<1>6. c \in Coroutine
  BY <1>1, <1>5 DEF Step, Coroutine
<1>7. job'[j] = c /\ \A k \in Jobs \ {j} : job'[k] = job[k]
  BY <1>2, <1>6, GoFacts
<1> QED BY <1>1, <1>2, <1>3, <1>4, <1>7

LEMMA UpdateFacts ==
  ASSUME Types, NEW j \in Jobs, NEW page \in Page, Update(j, page),
         NEW e, e = Edited(j, page)
  PROVE  /\ \A k \in Jobs \ {j} : job'[k] = job[k]
         /\ job'[j] = Step("call", "update", e, job[j].text)
         /\ Issued([by |-> j, op |-> "update", page |-> e])
BY EditedFacts, IssueFacts DEF Update, Issued

LEMMA FoundFacts ==
  ASSUME Types, LinkInv, NEW j \in Jobs, Found(j), NEW p, p = job[j].page
  PROVE  /\ p \in Page /\ Stored(p, rows)
         /\ job[j].pc = "back" /\ job[j].op \in {"find", "insert"}
         /\ p.id # 0 /\ j = "append" => Update(j, p)
         /\ ~(p.id # 0 /\ j = "append") =>
              /\ \A k \in Jobs \ {j} : job'[k] = job[k]
              /\ job'[j] = Step("call", IF p.id = 0 THEN "insert" ELSE "read", p, job[j].text)
         /\ p.id = 0 => p.body = {} /\ Issued([by |-> j, op |-> "insert", page |-> p])
         /\ p.id # 0 /\ j # "append" => writes' = writes
<1>1. p \in Page /\ job[j] \in Coroutine /\ Stored(p, rows) /\ Linked(job[j], rows)
  BY TypeFacts DEF LinkInv, Linked
<1>2. job[j].pc = "back" /\ job[j].op \in {"find", "insert"}
  BY DEF Found
<1>3. CASE p.id = 0
  <2>1. /\ Go(j, Step("call", "insert", p, job[j].text))
        /\ writes' = Append(writes, Write(j))
    BY <1>3 DEF Found
  <2>2. p.body = {}
    BY <1>1, <1>2, <1>3 DEF Linked, Handed
  <2> QED BY <1>1, <1>2, <1>3, <2>1, <2>2, IssueFacts DEF Issued
<1>4. CASE p.id # 0 /\ j = "append"
  BY <1>1, <1>2, <1>4 DEF Found
<1>5. CASE p.id # 0 /\ j # "append"
  <2>1. Go(j, Step("call", "read", p, job[j].text)) /\ writes' = writes
    BY <1>5 DEF Found
  <2>2. Step("call", "read", p, job[j].text) \in Coroutine
    BY <1>1 DEF Step, Coroutine
  <2> QED BY <1>1, <1>2, <1>5, <2>1, <2>2, GoFacts
<1> QED BY <1>3, <1>4, <1>5

LEMMA WriteBackFacts ==
  ASSUME Types, LinkInv, NEW j \in Jobs, WriteBack(j), NEW p, p = job[j].page
  PROVE  /\ p \in Page /\ Stored(p, rows) /\ p.id # 0
         /\ job[j].pc = "back" /\ job[j].op = "read" /\ Update(j, p)
BY TypeFacts DEF WriteBack, LinkInv, Linked, Handed

LEMMA LinkedStep ==
  ASSUME Types, LinkInv, QueueInv, FlowInv, Next
  PROVE  LinkInv'
<1>1. Grown
  BY TableStep
<1>2. ASSUME NEW j \in Jobs, \A k \in Jobs \ {j} : job'[k] = job[k], Linked(job'[j], rows')
      PROVE  LinkInv'
  BY <1>1, <1>2, LinkedKept DEF LinkInv
<1>3. CASE UNCHANGED job
  BY <1>1, <1>3, LinkedKept DEF LinkInv
<1>4. ASSUME NEW c, c = Ended \/ c = [Ended EXCEPT !.pc = "delay"]
      PROVE  Linked(c, rows')
  BY <1>4 DEF Ended, NoPage, Linked, Stored, Handed
<1>5. ASSUME NEW j \in Jobs, NEW d \in Days, NEW t \in Text, OnPage(j, d, t)
      PROVE  LinkInv'
  <2>1. d = today => Linked(job'[j], rows')
    <3>1. d = today => job'[j] = Step("call", "find", Blank(d), t)
      BY <1>5, OnPageFacts
    <3> QED BY <3>1 DEF Linked, Stored, Step, Handed, Blank
  <2>2. d # today /\ entry.id # 0 => Linked(job'[j], rows')
    <3>1. Stored(entry, rows')
      BY <1>1, StoredKept DEF FlowInv
    <3>2. d # today /\ entry.id # 0 => job'[j] = Step("call", "read", entry, t)
      BY <1>5, OnPageFacts
    <3> QED BY <3>1, <3>2 DEF Linked, Step, Handed
  <2> QED BY <1>2, <1>4, <1>5, <2>1, <2>2, OnPageFacts
<1>6. CASE TypeBody
  <2>1. [Ended EXCEPT !.pc = "delay"] \in Coroutine
    BY NoPageIsPage DEF Ended, Coroutine
  <2> QED BY <1>2, <1>4, <1>6, <2>1, GoFacts DEF TypeBody, Jobs
<1>7. CASE \E d \in Days : d <= today /\ SelectDay(d)
  BY <1>5, <1>7, TypeFacts DEF SelectDay, SaveNow, Jobs
<1>8. CASE Mark \/ DebounceFires
  BY <1>5, <1>8, TypeFacts, NoPageIsPage DEF Mark, DebounceFires, SaveNow, Jobs
<1>9. CASE Dictated
  <2>1. {<<edits', today>>} \in Text
    <3>1. edits' \in 1..MaxEdits
      BY <1>9, PageAssumption DEF Dictated, Types, TypeOK
    <3> QED BY <3>1, TypeFacts DEF Text
  <2> QED BY <1>5, <1>9, <2>1, TypeFacts DEF Dictated, Jobs
<1>10. CASE Midnight \/ Query \/ Mirror
  BY <1>3, <1>10 DEF Midnight, Query, Mirror
<1>11. CASE ExecuteWrite
  <2> DEFINE w == writes[1]
             i == Place(w)
  <2>1. i \in 1..(nextId' - 1) /\ Numbered(rows', nextId' - 1)
    BY <1>11, ExecuteFacts
  <2>2. rows'[i] \in Page /\ rows'[i].id = i /\ i # 0 /\ i \in DOMAIN rows'
    BY <2>1 DEF Numbered
  <2>3. CASE w.by = "nobody"
    BY <1>3, <1>11, <2>3, ExecuteFacts
  <2>4. CASE w.by # "nobody"
    <3>1. /\ w \in Record /\ job'[w.by] = Step("back", w.op, rows'[i], job[w.by].text)
          /\ \A k \in Jobs \ {w.by} : job'[k] = job[k]
      BY <1>11, <2>4, ExecuteFacts
    <3>2. w.by \in Jobs /\ w.op \in {"insert", "update"}
      BY <2>4, <3>1 DEF Record
    <3>3. Linked(job'[w.by], rows')
      BY <2>2, <3>1, <3>2 DEF Linked, Stored, Handed, Step
    <3> QED BY <1>2, <3>1, <3>2, <3>3
  <2> QED BY <2>3, <2>4
<1>12. ASSUME NEW j \in Jobs, Read(j)
       PROVE  LinkInv'
  <2> DEFINE p == job[j].page
             found == FirstOf(rows, p.day)
  <2>1. Linked(job[j], rows) /\ Stored(p, rows) /\ Stored(found, rows)
    BY PageOfFacts DEF LinkInv, Linked
  <2>2. CASE job[j].op = "find"
    <3>1. job'[j] = Step("back", "find", IF found.id = 0 THEN p ELSE found, job[j].text)
          /\ p.body = {} /\ \A k \in Jobs \ {j} : job'[k] = job[k]
      BY <1>12, <2>2, ReadFacts
    <3>2. Linked(job'[j], rows)
      BY <2>1, <3>1 DEF Linked, Step, Handed
    <3> QED BY <1>1, <1>2, <3>1, <3>2, LinkedKept
  <2>3. CASE job[j].op = "read"
    <3>1. /\ p.id # 0 /\ p.id \in DOMAIN rows /\ rows[p.id].id = p.id
          /\ job'[j] = Step("back", "read", rows[p.id], job[j].text)
          /\ \A k \in Jobs \ {j} : job'[k] = job[k]
      BY <1>12, <2>3, ReadFacts
    <3>2. Linked(job'[j], rows)
      BY <3>1 DEF Linked, Step, Handed, Stored
    <3> QED BY <1>1, <1>2, <3>1, <3>2, LinkedKept
  <2> QED BY <1>12, <2>2, <2>3, ReadFacts
<1>13. ASSUME NEW j \in Jobs, NEW page \in Page, page.id # 0, Stored(page, rows), Update(j, page)
       PROVE  LinkInv'
  <2> DEFINE e == Edited(j, page)
  <2>1. /\ e.id = page.id /\ e.day = page.day
        /\ job'[j] = Step("call", "update", e, job[j].text)
        /\ \A k \in Jobs \ {j} : job'[k] = job[k]
    BY <1>13, UpdateFacts, EditedFacts
  <2>2. Linked(job'[j], rows)
    BY <1>13, <2>1 DEF Linked, Stored, Handed, Step
  <2> QED BY <1>1, <1>2, <2>1, <2>2, LinkedKept
<1>14. ASSUME NEW j \in Jobs, Found(j)
       PROVE  LinkInv'
  <2> DEFINE p == job[j].page
  <2>1. p \in Page /\ Stored(p, rows) /\ (p.id = 0 => p.body = {})
    BY <1>14, TypeFacts, FoundFacts DEF LinkInv, Linked
  <2>2. CASE p.id # 0 /\ j = "append"
    BY <1>13, <1>14, <2>1, <2>2, FoundFacts
  <2>3. CASE ~(p.id # 0 /\ j = "append")
    <3>1. /\ \A k \in Jobs \ {j} : job'[k] = job[k]
          /\ job'[j] = Step("call", IF p.id = 0 THEN "insert" ELSE "read", p, job[j].text)
      BY <1>14, <2>3, FoundFacts
    <3>2. Linked(job'[j], rows)
      BY <2>1, <3>1 DEF Linked, Handed, Step
    <3> QED BY <1>1, <1>2, <3>1, <3>2, LinkedKept
  <2> QED BY <2>2, <2>3
<1>15. ASSUME NEW j \in Jobs, WriteBack(j)
       PROVE  LinkInv'
  BY <1>13, <1>15, WriteBackFacts
<1>16. ASSUME NEW j \in Jobs, Written(j)
       PROVE  LinkInv'
  BY <1>2, <1>4, <1>16, GoFacts, NoPageIsPage DEF Written
<1> QED BY <1>6, <1>7, <1>8, <1>9, <1>10, <1>11, <1>12, <1>14, <1>15, <1>16 DEF Next, Resume

-----------------------------------------------------------------------------
(* The flow.                                                                 *)

LEMMA FlowStep ==
  ASSUME Types, LinkInv, QueueInv, FlowInv, Next
  PROVE  FlowInv'
<1> DEFINE EntryOK == Stored(entry, rows) /\ (entry.id # 0 => FirstOf(rows, entry.day).id = entry.id)
           AnswerOK ==
             answer # <<>> /\ answer[1].id # 0 =>
               /\ Stored(answer[1], rows) /\ answer[1].day = selected
               /\ FirstOf(rows, selected).id = answer[1].id
               /\ answer[1].rev <= rows[answer[1].id].rev
           BlankOK == answer # <<>> /\ answer[1].id = 0 => answer[1].body = {}
<1>0. Grown /\ EntryOK /\ AnswerOK /\ BlankOK
  BY TableStep DEF FlowInv
<1>1. UNCHANGED entry => EntryOK'
  <2> SUFFICES ASSUME UNCHANGED entry, entry.id # 0 PROVE EntryOK'
    BY DEF Stored
  <2>1. Stored(entry, rows')
    BY <1>0, StoredKept
  <2>2. FirstOf(rows', entry.day).id = entry.id
    BY <1>0, PageOfStep
  <2> QED BY <2>1, <2>2
<1>2. UNCHANGED <<answer, selected>> => AnswerOK'
  <2> SUFFICES ASSUME UNCHANGED <<answer, selected>>, answer # <<>>, answer[1].id # 0
               PROVE  AnswerOK'
    OBVIOUS
  <2> DEFINE a == answer[1]
  <2>1. Stored(a, rows')
    BY <1>0, StoredKept
  <2>2. FirstOf(rows', selected).id = a.id
    BY <1>0, PageOfStep
  <2>3. a.id \in 1..(nextId - 1) /\ a.rev <= rows[a.id].rev /\ a.rev \in Nat
    BY <1>0, TypeFacts DEF Stored, Page
  <2>4. rows[a.id].rev \in Nat /\ rows'[a.id].rev \in Nat /\ rows'[a.id].rev >= rows[a.id].rev
    BY <1>0, <2>3, TypeFacts DEF Grown, Numbered, Page
  <2> QED BY <1>0, <2>1, <2>2, <2>3, <2>4
<1>3. CASE Query
  <2> DEFINE a == FirstOf(rows, selected)
  <2>1. answer' = <<a>> /\ UNCHANGED <<rows, selected, entry>>
    BY <1>3, PageOfIs DEF Query, table
  <2>2. a.id # 0 => Stored(a, rows) /\ a.day = selected /\ a = rows[a.id] /\ a.id \in DOMAIN rows
    BY PageOfFacts
  <2>3. a.id # 0 => a.rev <= rows[a.id].rev
    BY <2>2, TypeFacts DEF Numbered, Page
  <2>4. AnswerOK'
    BY <2>1, <2>2, <2>3
  <2>5. BlankOK'
    BY <2>1, PageOfFacts DEF NoPage
  <2> QED BY <1>1, <2>1, <2>4, <2>5 DEF FlowInv
<1>4. CASE Mirror
  <2>1. entry' = answer[1] /\ answer' = <<>> /\ answer # <<>> /\ UNCHANGED rows
    BY <1>4 DEF Mirror, table
  <2>2. EntryOK'
    BY <1>0, <2>1 DEF Stored
  <2> QED BY <2>1, <2>2 DEF FlowInv
<1>5. CASE \E d \in Days : d <= today /\ SelectDay(d)
  <2>1. UNCHANGED entry /\ (answer' = <<>> \/ UNCHANGED <<answer, selected>>)
    BY <1>5 DEF SelectDay
  <2> QED BY <1>0, <1>1, <1>2, <2>1 DEF FlowInv
<1>6. CASE UNCHANGED <<entry, answer, selected>>
  BY <1>0, <1>1, <1>2, <1>6 DEF FlowInv
<1>7. \/ Query \/ Mirror \/ (\E d \in Days : d <= today /\ SelectDay(d))
      \/ UNCHANGED <<entry, answer, selected>>
  BY DEF Next, TypeBody, Mark, Dictated, Midnight, ExecuteWrite, DebounceFires,
         Read, Resume, Found, WriteBack, Written, mirror
<1> QED BY <1>3, <1>4, <1>5, <1>6, <1>7

LEMMA SeenStep ==
  ASSUME FlowInv, SeenInv, Next
  PROVE  SeenInv'
<1>1. CASE \E d \in Days : d <= today /\ SelectDay(d)
  BY <1>1 DEF SelectDay, SeenInv
<1>2. CASE Mirror
  BY <1>2 DEF Mirror, FlowInv, SeenInv
<1>3. CASE UNCHANGED <<seen, entry, selected>>
  BY <1>3 DEF SeenInv
<1> QED BY <1>1, <1>2, <1>3
        DEF Next, TypeBody, Mark, Dictated, Midnight, ExecuteWrite, Query, DebounceFires,
            Read, Resume, Found, WriteBack, Written, mirror, history

-----------------------------------------------------------------------------
(* The queue.                                                                *)

\* Which action begins which coroutine.
Begins(j, d, t) == OnPage(j, d, t) /\ ~InHand(j) /\ UNCHANGED <<rows, writes>>

LEMMA BeginFacts ==
  ASSUME Types
  PROVE  /\ \A d \in Days : SelectDay(d) => \E f \in Flushes : Begins(f, selected, text)
         /\ DebounceFires => Begins("debounce", selected, text)
         /\ Mark => \E m \in Marks : Begins(m, selected, {})
         /\ Dictated => /\ {<<edits', today>>} \in Text
                        /\ Begins("append", today, {<<edits', today>>})
<1>1. Dictated => {<<edits', today>>} \in Text
  <2> SUFFICES ASSUME Dictated PROVE {<<edits', today>>} \in Text
    OBVIOUS
  <2>1. edits' \in 1..MaxEdits
    BY PageAssumption DEF Dictated, Types, TypeOK
  <2> QED BY <2>1, TypeFacts DEF Text
<1> QED BY <1>1 DEF SelectDay, DebounceFires, Mark, Dictated, SaveNow, Begins, InHand,
                    Handed, Active, table

LEMMA QueueStep ==
  ASSUME Types, LinkInv, QueueInv, Next
  PROVE  QueueInv'
<1> DEFINE n == Len(writes)
<1>1. n \in Nat /\ (\A i \in 1..n : writes[i] \in Record) /\ Grown
  BY TableStep DEF Types
<1>2. ASSUME NEW j \in Jobs, job[j].pc # "call" \/ job[j].op \notin {"insert", "update"}
      PROVE  \A i \in 1..n : writes[i].by # j
  BY <1>1, <1>2, JobNames DEF QueueInv, Waited, Record
<1>3. ASSUME NEW w \in Record, NEW i, Waited(w, i, rows, job), w.by # "nobody" => job'[w.by] = job[w.by]
      PROVE  Waited(w, i, rows', job')
  <2>1. Stored(w.page, rows')
    BY <1>1, <1>3, StoredKept DEF Waited
  <2> QED BY <1>3, <2>1 DEF Waited
<1>4. ASSUME UNCHANGED writes,
             \A i \in 1..n : writes[i].by # "nobody" => job'[writes[i].by] = job[writes[i].by]
      PROVE  QueueInv'
  <2>1. \A i \in 1..n : Waited(writes[i], i, rows', job')
    BY <1>1, <1>3, <1>4 DEF QueueInv
  <2>2. \A i \in 1..Len(writes') : Waited(writes[i], i, rows', job')
    BY <1>4, <2>1
  <2> QED BY <1>4, <2>2 DEF QueueInv
<1>5. ASSUME NEW j \in Jobs, job[j].pc # "call" \/ job[j].op \notin {"insert", "update"},
             \A k \in Jobs \ {j} : job'[k] = job[k], UNCHANGED writes
      PROVE  QueueInv'
  BY <1>1, <1>2, <1>4, <1>5 DEF Record
<1>6. ASSUME NEW j \in Jobs, job[j].pc = "back", NEW o \in {"insert", "update"},
             NEW page \in Page, Stored(page, rows),
             o = "update" => page.id # 0,
             o = "insert" => page.id = 0 /\ page.body = {},
             Issued([by |-> j, op |-> o, page |-> page]),
             \A k \in Jobs \ {j} : job'[k] = job[k],
             job'[j] = Step("call", o, page, job[j].text)
      PROVE  QueueInv'
  <2> DEFINE w == [by |-> j, op |-> o, page |-> page]
  <2>1. /\ Len(writes') = n + 1 /\ writes'[n + 1] = w
        /\ \A i \in 1..n : writes'[i] = writes[i]
    BY <1>6 DEF Issued
  <2>2. \A i \in 1..n : writes[i].by # j
    BY <1>2, <1>6
  <2>3. \A i \in 1..n : Waited(writes[i], i, rows', job')
    BY <1>1, <1>3, <1>6, <2>2 DEF QueueInv, Record
  <2>4. Waited(w, n + 1, rows', job')
    <3>1. Stored(page, rows')
      BY <1>1, <1>6, StoredKept
    <3>2. job'[j].pc = "call" /\ job'[j].op = o /\ job'[j].page = page
      BY <1>6 DEF Step
    <3> QED BY <1>6, <3>1, <3>2, JobNames DEF Waited
  <2>5. \A i \in 1..Len(writes') : Waited(writes'[i], i, rows', job')
    <3> SUFFICES ASSUME NEW i \in 1..(n + 1) PROVE Waited(writes'[i], i, rows', job')
      BY <2>1
    <3>1. CASE i \in 1..n
      BY <2>1, <2>3, <3>1 DEF Waited
    <3>2. CASE i = n + 1
      BY <2>1, <2>4, <3>2 DEF Waited
    <3> QED BY <1>1, <3>1, <3>2
  <2>6. \A i, k \in 1..Len(writes') :
          writes'[i].by = writes'[k].by /\ writes'[i].by # "nobody" => i = k
    <3> SUFFICES ASSUME NEW i \in 1..(n + 1), NEW k \in 1..(n + 1),
                        writes'[i].by = writes'[k].by, writes'[i].by # "nobody"
                 PROVE  i = k
      BY <2>1
    <3>1. (i \in 1..n \/ i = n + 1) /\ (k \in 1..n \/ k = n + 1)
      BY <1>1
    <3>2. w.by = j
      OBVIOUS
    <3> QED BY <2>1, <2>2, <3>1, <3>2 DEF QueueInv
  <2> QED BY <2>5, <2>6 DEF QueueInv
<1>7. ASSUME NEW j \in Jobs, NEW d, NEW t, Begins(j, d, t)
      PROVE  QueueInv'
  BY <1>5, <1>7, GoFacts DEF Begins, OnPage, InHand, Handed, Go, Types
<1>8. CASE \/ Mark \/ Dictated \/ DebounceFires
           \/ \E d \in Days : d <= today /\ SelectDay(d)
  BY <1>7, <1>8, BeginFacts DEF Jobs
<1>9. CASE Midnight \/ Query \/ Mirror
  BY <1>4, <1>9 DEF Midnight, Query, Mirror
<1>10. CASE TypeBody
  <2>1. writes' \in Kept("debounce") /\ Go("debounce", [Ended EXCEPT !.pc = "delay"])
    BY <1>10 DEF TypeBody
  <2>2. \A k \in Jobs \ {"debounce"} : job'[k] = job[k]
    BY <2>1 DEF Go, Types
  <2>3. ASSUME NEW i \in 1..Len(writes')
        PROVE  Waited(writes'[i], i, rows', job')
    <3>1. PICK k \in 1..n : /\ i <= k /\ writes'[i].op = writes[k].op
                            /\ writes'[i].page = writes[k].page
                            /\ writes'[i].by # "debounce"
                            /\ writes'[i].by # "nobody" => writes'[i] = writes[k]
                            /\ i > 1 => writes'[i] = writes[k]
      BY <2>1, KeptFacts
    <3>2. Waited(writes[k], k, rows, job) /\ writes[k] \in Record
      BY <1>1 DEF QueueInv
    <3>3. writes[k].by # "nobody" /\ writes[k].by # "debounce" => job'[writes[k].by] = job[writes[k].by]
      BY <2>2, <3>2 DEF Record
    <3>4. Stored(writes[k].page, rows')
      BY <1>1, <3>2, StoredKept DEF Waited
    <3>5. i > 1 => writes'[i].by # "nobody"
      BY <1>1, <3>1, <3>2 DEF Waited
    <3>6. writes'[i].by # "nobody" =>
            LET j == writes'[i].by IN
            job'[j].pc = "call" /\ job'[j].op = writes'[i].op /\ job'[j].page = writes'[i].page
      BY <3>1, <3>2, <3>3 DEF Waited
    <3> QED BY <3>1, <3>2, <3>4, <3>5, <3>6 DEF Waited
  <2>4. \A i, k \in 1..Len(writes') :
          writes'[i].by = writes'[k].by /\ writes'[i].by # "nobody" => i = k
    BY <2>1, KeptFacts
  <2> QED BY <2>3, <2>4 DEF QueueInv
<1>11. CASE ExecuteWrite
  <2> DEFINE w == writes[1]
  <2>1. /\ Len(writes') = n - 1 /\ 1 \in 1..n
        /\ \A i \in 1..(n - 1) : i + 1 \in 1..n /\ writes'[i] = writes[i + 1]
        /\ \A k \in Jobs \ {w.by} : job'[k] = job[k]
    BY <1>11, ExecuteFacts
  <2>2. ASSUME NEW i \in 1..(n - 1)
        PROVE  Waited(writes'[i], i, rows', job')
    <3> DEFINE v == writes[i + 1]
    <3>1. i + 1 \in 1..n /\ i + 1 > 1 /\ i + 1 # 1 /\ v \in Record /\ writes'[i] = v
      BY <1>1, <2>1
    <3>2. Waited(v, i + 1, rows, job)
      BY <3>1 DEF QueueInv
    <3>3. v.by # "nobody" /\ v.by # w.by
      BY <2>1, <3>1, <3>2 DEF QueueInv, Waited
    <3>4. job'[v.by] = job[v.by]
      BY <2>1, <3>1, <3>3 DEF Record
    <3>5. Stored(v.page, rows')
      BY <1>1, <3>2, StoredKept DEF Waited
    <3> QED BY <3>1, <3>2, <3>3, <3>4, <3>5 DEF Waited
  <2>3. ASSUME NEW i \in 1..(n - 1), NEW k \in 1..(n - 1),
               writes'[i].by = writes'[k].by, writes'[i].by # "nobody"
        PROVE  i = k
    <3>1. i + 1 = k + 1
      BY <2>1, <2>3 DEF QueueInv
    <3> QED BY <1>1, <3>1
  <2> QED BY <2>1, <2>2, <2>3 DEF QueueInv
<1>12. ASSUME NEW j \in Jobs, Read(j)
       PROVE  QueueInv'
  BY <1>5, <1>12, ReadFacts DEF Read
<1>13. ASSUME NEW j \in Jobs, NEW page \in Page, page.id # 0, Stored(page, rows),
              job[j].pc = "back", Update(j, page)
       PROVE  QueueInv'
  <2> DEFINE e == Edited(j, page)
  <2>1. e \in Page /\ e.id = page.id /\ e.day = page.day
    BY EditedFacts
  <2>2. Stored(e, rows) /\ e.id # 0
    BY <1>13, <2>1 DEF Stored
  <2>3. /\ \A k \in Jobs \ {j} : job'[k] = job[k]
        /\ job'[j] = Step("call", "update", e, job[j].text)
        /\ Issued([by |-> j, op |-> "update", page |-> e])
    BY <1>13, UpdateFacts
  <2> HIDE DEF e
  <2> QED BY <1>6, <1>13, <2>1, <2>2, <2>3
<1>14. ASSUME NEW j \in Jobs, Found(j)
       PROVE  QueueInv'
  <2> DEFINE p == job[j].page
  <2>1. p \in Page /\ Stored(p, rows) /\ job[j].pc = "back" /\ j \in Jobs
    BY <1>14, FoundFacts
  <2>2. CASE p.id = 0
    <3>1. /\ \A k \in Jobs \ {j} : job'[k] = job[k]
          /\ job'[j] = Step("call", "insert", p, job[j].text)
          /\ p.body = {} /\ Issued([by |-> j, op |-> "insert", page |-> p])
      BY <1>14, <2>2, FoundFacts
    <3> QED BY <1>6, <2>1, <2>2, <3>1
  <2>3. CASE p.id # 0 /\ j = "append"
    BY <1>13, <1>14, <2>1, <2>3, FoundFacts
  <2>4. CASE p.id # 0 /\ j # "append"
    BY <1>5, <1>14, <2>1, <2>4, FoundFacts
  <2> QED BY <2>2, <2>3, <2>4
<1>15. ASSUME NEW j \in Jobs, WriteBack(j)
       PROVE  QueueInv'
  BY <1>13, <1>15, WriteBackFacts
<1>16. ASSUME NEW j \in Jobs, Written(j)
       PROVE  QueueInv'
  BY <1>5, <1>16, GoFacts, NoPageIsPage DEF Written
<1> QED BY <1>8, <1>9, <1>10, <1>11, <1>12, <1>14, <1>15, <1>16 DEF Next, Resume

-----------------------------------------------------------------------------
(* Texts and their days.                                                     *)

LEMMA MishapsGrow ==
  ASSUME Next
  PROVE  mishaps \subseteq mishaps'
BY DEF Next, TypeBody, SelectDay, Mark, Dictated, Midnight, ExecuteWrite, Query, Mirror,
       Shown, DebounceFires, SaveNow, Read, Resume, Found, WriteBack, Written, history

LEMMA FirstDated ==
  ASSUME Types, RowsDated, NEW d, NEW page, page = FirstOf(rows, d)
  PROVE  PageDated(page)
BY PageOfFacts DEF RowsDated, PageDated, Dated, NoPage

LEMMA RowsDatedStep ==
  ASSUME Types, LinkInv, QueueInv, RowsDated, WritesDated, Next
  PROVE  RowsDated'
<1>1. CASE ExecuteWrite
  <2> DEFINE w == writes[1]
             p == Place(w)
  <2>1. /\ 1 \in 1..Len(writes) /\ nextId' \in Nat \ {0} /\ nextId <= nextId'
        /\ nextId' = IF w.op = "insert" THEN nextId + 1 ELSE nextId
        /\ Numbered(rows', nextId' - 1)
        /\ rows'[p].body = w.page.body /\ rows'[p].day = w.page.day
        /\ \A i \in 1..(nextId - 1) : i # p => rows'[i] = rows[i]
    BY <1>1, ExecuteFacts
  <2>2. PageDated(rows'[p])
    BY <2>1 DEF WritesDated, PageDated
  <2>3. ASSUME NEW i \in 1..(nextId' - 1), i # p
        PROVE  PageDated(rows'[i])
    <3>1. i \in 1..(nextId - 1)
      BY <2>1, <2>3, TypeFacts DEF Place
    <3> QED BY <2>1, <2>3, <3>1, TypeFacts DEF RowsDated
  <2>4. DOMAIN rows' = 1..(nextId' - 1)
    BY <2>1 DEF Numbered
  <2> QED BY <2>2, <2>3, <2>4 DEF RowsDated
<1>2. CASE rows' = rows
  BY <1>2 DEF RowsDated
<1> QED BY <1>1, <1>2, TableStep

LEMMA FlowDatedStep ==
  ASSUME Types, RowsDated, FlowDated, Next
  PROVE  FlowDated'
<1>1. CASE Query
  <2>1. answer' = <<FirstOf(rows, selected)>> /\ UNCHANGED entry
    BY <1>1, PageOfIs DEF Query
  <2>2. PageDated(answer'[1])
    BY <2>1, FirstDated
  <2> QED BY <2>1, <2>2 DEF FlowDated
<1>2. CASE Mirror
  BY <1>2 DEF Mirror, FlowDated
<1>3. CASE \E d \in Days : d <= today /\ SelectDay(d)
  BY <1>3 DEF SelectDay, FlowDated
<1>4. CASE UNCHANGED <<entry, answer>>
  BY <1>4 DEF FlowDated
<1> QED BY <1>1, <1>2, <1>3, <1>4
        DEF Next, TypeBody, Mark, Dictated, Midnight, ExecuteWrite, DebounceFires,
            Read, Resume, Found, WriteBack, Written, mirror

\* An edited page is dated if the coroutine that edits it is.
LEMMA EditedDated ==
  ASSUME Types, NEW j \in Jobs, NEW page \in Page, PageDated(page),
         Dated(job[j].text, page.day), NEW e, e = Edited(j, page)
  PROVE  PageDated(e) /\ Dated(job[j].text, e.day)
<1>1. /\ e.day = page.day
      /\ j \in Saves => e.body = job[j].text
      /\ j = "append" => e.body = page.body \cup job[j].text
      /\ j \in Marks => e = page
  BY EditedFacts
<1>2. j \in Saves \/ j = "append" \/ j \in Marks
  BY JobNames
<1> QED BY <1>1, <1>2 DEF PageDated, Dated

LEMMA JobsDatedStep ==
  ASSUME Types, LinkInv, QueueInv, SeenInv, RowsDated, FlowDated, JobsDated, WritesDated,
         ScreenDated, Next, TrueDay'
  PROVE  JobsDated'
<1>1. ASSUME NEW j \in Jobs, \A k \in Jobs \ {j} : job'[k] = job[k], JobDated(job'[j])
      PROVE  JobsDated'
  BY <1>1 DEF JobsDated
<1>2. ASSUME NEW j \in Jobs, NEW d \in Days, NEW t \in Text, Begins(j, d, t), Dated(t, d),
             d # today /\ entry.id # 0 => Dated(t, entry.day)
      PROVE  JobsDated'
  <2>1. OnPage(j, d, t)
    BY <1>2 DEF Begins
  <2>2. CASE d = today
    <3>1. job'[j] = Step("call", "find", Blank(d), t)
      BY <2>1, <2>2, OnPageFacts
    <3>2. PageDated(Blank(d)) /\ Blank(d).day = d
      BY DEF PageDated, Dated, Blank
    <3>3. JobDated(job'[j])
      BY <1>2, <3>1, <3>2 DEF JobDated, Step
    <3> QED BY <1>1, <2>1, <3>3, OnPageFacts
  <2>3. CASE d # today /\ entry.id # 0
    <3>1. job'[j] = Step("call", "read", entry, t)
      BY <2>1, <2>3, OnPageFacts
    <3>2. JobDated(job'[j])
      BY <1>2, <2>3, <3>1 DEF JobDated, FlowDated, Step
    <3> QED BY <1>1, <2>1, <3>2, OnPageFacts
  <2>4. CASE d # today /\ entry.id = 0
    <3>1. job'[j] = Ended
      BY <2>1, <2>4, OnPageFacts
    <3> QED BY <1>1, <2>1, <3>1, OnPageFacts DEF JobDated, Handed, Ended
  <2> QED BY <2>2, <2>3, <2>4
<1>3. CASE DebounceFires \/ \E d \in Days : d <= today /\ SelectDay(d)
  <2>1. seen
    <3>1. \E h : mishaps' = mishaps \cup (IF ~seen THEN {"unseen"} ELSE {}) \cup h
      BY <1>3 DEF DebounceFires, SelectDay, SaveNow
    <3> QED BY <3>1 DEF TrueDay
  <2>2. Dated(text, selected) /\ (selected # today /\ entry.id # 0 => Dated(text, entry.day))
    BY <2>1 DEF SeenInv, ScreenDated
  <2> QED BY <1>2, <1>3, <2>2, BeginFacts, TypeFacts DEF Jobs
<1>4. CASE Mark
  <2>1. \A day : Dated({}, day)
    BY DEF Dated
  <2> QED BY <1>2, <1>4, <2>1, BeginFacts, TypeFacts, NoPageIsPage DEF Jobs
<1>5. CASE Dictated
  <2>1. Dated({<<edits', today>>}, today)
    BY DEF Dated
  <2> QED BY <1>2, <1>5, <2>1, BeginFacts, TypeFacts DEF Jobs
<1>6. CASE Midnight \/ Query \/ Mirror
  BY <1>6 DEF Midnight, Query, Mirror, JobsDated
<1>7. CASE TypeBody
  <2>1. [Ended EXCEPT !.pc = "delay"] \in Coroutine
    BY NoPageIsPage DEF Ended, Coroutine
  <2>2. /\ job'["debounce"] = [Ended EXCEPT !.pc = "delay"]
        /\ \A k \in Jobs \ {"debounce"} : job'[k] = job[k]
    BY <1>7, <2>1, GoFacts DEF TypeBody, Jobs
  <2> QED BY <1>1, <2>2 DEF JobDated, Handed, Ended, Jobs
<1>8. CASE ExecuteWrite
  <2> DEFINE w == writes[1]
             page == rows'[Place(w)]
  <2>1. /\ w \in Record /\ 1 \in 1..Len(writes)
        /\ page.day = w.page.day /\ page.body = w.page.body
        /\ w.by = "nobody" => job' = job
        /\ w.by # "nobody" =>
             /\ job[w.by].pc = "call" /\ job[w.by].page = w.page
             /\ job'[w.by] = Step("back", w.op, page, job[w.by].text)
        /\ \A k \in Jobs \ {w.by} : job'[k] = job[k]
    BY <1>8, ExecuteFacts
  <2>2. CASE w.by = "nobody"
    BY <2>1, <2>2 DEF JobsDated
  <2>3. CASE w.by # "nobody"
    <3>1. w.by \in Jobs
      BY <2>1, <2>3 DEF Record
    <3>2. PageDated(w.page) /\ JobDated(job[w.by])
      BY <2>1, <3>1 DEF WritesDated, JobsDated
    <3>3. PageDated(page) /\ Dated(job[w.by].text, page.day)
      BY <2>1, <2>3, <3>2 DEF PageDated, JobDated, Handed
    <3>4. JobDated(job'[w.by])
      BY <2>1, <2>3, <3>3 DEF JobDated, Step
    <3> QED BY <1>1, <2>1, <3>1, <3>4
  <2> QED BY <2>2, <2>3
<1>9. ASSUME NEW j \in Jobs, Read(j)
      PROVE  JobsDated'
  <2> DEFINE p == job[j].page
             found == FirstOf(rows, p.day)
  <2>1. /\ \A k \in Jobs \ {j} : job'[k] = job[k]
        /\ job[j].pc = "call" /\ job[j].op \in {"find", "read"}
        /\ job[j].op = "find" =>
             job'[j] = Step("back", "find", IF found.id = 0 THEN p ELSE found, job[j].text)
        /\ job[j].op = "read" => /\ p.id \in DOMAIN rows /\ rows[p.id].day = p.day
                                 /\ job'[j] = Step("back", "read", rows[p.id], job[j].text)
    BY <1>9, ReadFacts
  <2>2. PageDated(p) /\ Dated(job[j].text, p.day)
    BY <2>1 DEF JobsDated, JobDated, Handed
  <2>3. PageDated(found) /\ (found.id # 0 => found.day = p.day)
    BY FirstDated, PageOfFacts
  <2>4. CASE job[j].op = "find"
    BY <1>1, <2>1, <2>2, <2>3, <2>4 DEF JobDated, Step
  <2>5. CASE job[j].op = "read"
    <3>1. PageDated(rows[p.id])
      BY <2>1, <2>5 DEF RowsDated
    <3> QED BY <1>1, <2>1, <2>2, <2>5, <3>1 DEF JobDated, Step
  <2> QED BY <2>1, <2>4, <2>5
<1>10. ASSUME NEW j \in Jobs, NEW page \in Page, Update(j, page), PageDated(page),
              Dated(job[j].text, page.day)
       PROVE  JobsDated'
  <2> DEFINE e == Edited(j, page)
  <2>1. PageDated(e) /\ Dated(job[j].text, e.day)
    BY <1>10, EditedDated
  <2>2. /\ \A k \in Jobs \ {j} : job'[k] = job[k]
        /\ job'[j] = Step("call", "update", e, job[j].text)
    BY <1>10, UpdateFacts
  <2> HIDE DEF e
  <2> QED BY <1>1, <2>1, <2>2 DEF JobDated, Step
<1>11. ASSUME NEW j \in Jobs, Found(j)
       PROVE  JobsDated'
  <2> DEFINE p == job[j].page
  <2>1. p \in Page /\ job[j].pc = "back"
    BY <1>11, FoundFacts
  <2>2. PageDated(p) /\ Dated(job[j].text, p.day)
    BY <2>1 DEF JobsDated, JobDated, Handed
  <2>3. CASE p.id # 0 /\ j = "append"
    BY <1>10, <1>11, <2>1, <2>2, <2>3, FoundFacts
  <2>4. CASE ~(p.id # 0 /\ j = "append")
    <3>1. /\ \A k \in Jobs \ {j} : job'[k] = job[k]
          /\ job'[j] = Step("call", IF p.id = 0 THEN "insert" ELSE "read", p, job[j].text)
      BY <1>11, <2>4, FoundFacts
    <3> QED BY <1>1, <2>2, <3>1 DEF JobDated, Step
  <2> QED BY <2>3, <2>4
<1>12. ASSUME NEW j \in Jobs, WriteBack(j)
       PROVE  JobsDated'
  <2>1. /\ job[j].page \in Page /\ job[j].pc = "back" /\ Update(j, job[j].page)
    BY <1>12, WriteBackFacts
  <2>2. PageDated(job[j].page) /\ Dated(job[j].text, job[j].page.day)
    BY <2>1 DEF JobsDated, JobDated, Handed
  <2> QED BY <1>10, <2>1, <2>2
<1>13. ASSUME NEW j \in Jobs, Written(j)
       PROVE  JobsDated'
  <2>1. job'[j] = Ended /\ \A k \in Jobs \ {j} : job'[k] = job[k]
    BY <1>13, GoFacts, NoPageIsPage DEF Written
  <2> QED BY <1>1, <2>1 DEF JobDated, Handed, Ended
<1> QED BY <1>3, <1>4, <1>5, <1>6, <1>7, <1>8, <1>9, <1>11, <1>12, <1>13 DEF Next, Resume

LEMMA WritesDatedStep ==
  ASSUME Types, LinkInv, QueueInv, JobsDated, WritesDated, Next
  PROVE  WritesDated'
<1> DEFINE n == Len(writes)
<1>1. n \in Nat
  BY DEF Types
<1>2. CASE UNCHANGED writes
  BY <1>2 DEF WritesDated
<1>3. ASSUME NEW w, Issued(w), PageDated(w.page)
      PROVE  WritesDated'
  <2> SUFFICES ASSUME NEW i \in 1..(n + 1) PROVE PageDated(writes'[i].page)
    BY <1>3 DEF WritesDated, Issued
  <2>1. CASE i \in 1..n
    BY <1>3, <2>1 DEF Issued, WritesDated
  <2>2. CASE i = n + 1
    BY <1>3, <2>2 DEF Issued
  <2> QED BY <1>1, <2>1, <2>2
<1>4. CASE TypeBody
  <2>1. writes' \in Kept("debounce")
    BY <1>4 DEF TypeBody
  <2>2. \A i \in 1..Len(writes') : \E k \in 1..n : writes'[i].page = writes[k].page
    BY <2>1, KeptFacts
  <2> QED BY <2>2 DEF WritesDated
<1>5. CASE ExecuteWrite
  <2>1. \A i \in 1..Len(writes') : i + 1 \in 1..n /\ writes'[i] = writes[i + 1]
    BY <1>5, ExecuteFacts
  <2> QED BY <2>1 DEF WritesDated
<1>6. ASSUME NEW j \in Jobs, job[j].pc = "back", Update(j, job[j].page)
      PROVE  WritesDated'
  <2> DEFINE p == job[j].page
             e == Edited(j, p)
  <2>1. p \in Page /\ PageDated(p) /\ Dated(job[j].text, p.day)
    BY <1>6, TypeFacts DEF JobsDated, JobDated, Handed
  <2>2. PageDated(e)
    BY <2>1, EditedDated
  <2>3. Issued([by |-> j, op |-> "update", page |-> e])
    BY <1>6, <2>1, UpdateFacts
  <2> HIDE DEF e
  <2> QED BY <1>3, <2>2, <2>3
<1>7. ASSUME NEW j \in Jobs, Found(j)
      PROVE  WritesDated'
  <2> DEFINE p == job[j].page
  <2>1. job[j].pc = "back"
    BY <1>7, FoundFacts
  <2>2. CASE p.id = 0
    <3>1. p.body = {} /\ Issued([by |-> j, op |-> "insert", page |-> p])
      BY <1>7, <2>2, FoundFacts
    <3>2. PageDated(p)
      BY <3>1 DEF PageDated, Dated
    <3> QED BY <1>3, <3>1, <3>2
  <2>3. CASE p.id # 0 /\ j = "append"
    <3>1. Update(j, p)
      BY <1>7, <2>3, FoundFacts
    <3> QED BY <1>6, <2>1, <3>1
  <2>4. CASE p.id # 0 /\ j # "append"
    <3>1. writes' = writes
      BY <1>7, <2>4 DEF Found
    <3> QED BY <1>2, <3>1
  <2> QED BY <2>2, <2>3, <2>4
<1>8. ASSUME NEW j \in Jobs, WriteBack(j)
      PROVE  WritesDated'
  BY <1>6, <1>8, WriteBackFacts
<1> QED BY <1>2, <1>4, <1>5, <1>7, <1>8
        DEF Next, SelectDay, Mark, Dictated, Midnight, Query, Mirror, DebounceFires,
            Read, Resume, Written

LEMMA ScreenDatedStep ==
  ASSUME FlowInv, FlowDated, ScreenDated, Next, TrueDay'
  PROVE  ScreenDated'
<1>1. CASE TypeBody
  <2>1. text' = text \cup {<<edits', selected>>} /\ UNCHANGED <<selected, seen>>
    BY <1>1 DEF TypeBody, history
  <2> QED BY <2>1 DEF ScreenDated, Dated
<1>2. CASE \E d \in Days : d <= today /\ SelectDay(d)
  BY <1>2 DEF SelectDay, ScreenDated
<1>3. CASE Mirror
  <2>1. /\ answer # <<>> /\ entry' = answer[1] /\ selected' = selected
        /\ text' = IF entry' = entry THEN text ELSE entry'.body
        /\ mishaps' = mishaps \cup IF ~seen /\ entry' = entry THEN {"alike"} ELSE {}
    BY <1>3 DEF Mirror, Shown
  <2>2. CASE entry' = entry
    <3>1. seen
      BY <2>1, <2>2 DEF TrueDay
    <3> QED BY <2>1, <2>2, <3>1 DEF ScreenDated
  <2>3. CASE entry' # entry
    <3>1. Dated(answer[1].body, answer[1].day)
      BY <2>1 DEF FlowDated, PageDated
    <3>2. answer[1].id # 0 => answer[1].day = selected
      BY <2>1 DEF FlowInv
    <3>3. answer[1].id = 0 => answer[1].body = {}
      BY <2>1 DEF FlowInv
    <3>4. Dated(answer[1].body, selected)
      BY <3>1, <3>2, <3>3 DEF Dated
    <3>5. text' = answer[1].body
      BY <2>1, <2>3
    <3> QED BY <2>1, <3>4, <3>5 DEF ScreenDated
  <2> QED BY <2>2, <2>3
<1>4. CASE UNCHANGED <<text, selected, seen>>
  BY <1>4 DEF ScreenDated
<1> QED BY <1>1, <1>2, <1>3, <1>4
        DEF Next, Mark, Dictated, Midnight, ExecuteWrite, Query, DebounceFires,
            Read, Resume, Found, WriteBack, Written, history

LEMMA DayStep ==
  ASSUME Types, LinkInv, QueueInv, FlowInv, SeenInv, DayInv, Next
  PROVE  DayInv'
<1> SUFFICES ASSUME TrueDay'
             PROVE  (RowsDated /\ FlowDated /\ JobsDated /\ WritesDated /\ ScreenDated)'
  BY DEF DayInv
<1>1. RowsDated /\ FlowDated /\ JobsDated /\ WritesDated /\ ScreenDated
  BY MishapsGrow DEF DayInv, TrueDay
<1> QED BY <1>1, RowsDatedStep, FlowDatedStep, JobsDatedStep, WritesDatedStep, ScreenDatedStep

-----------------------------------------------------------------------------
(* What is about to be written holds what is on the page.                    *)

\* Another page than that of the write Room executes.
Elsewhere(day) == writes[1].op = "update" => day # writes[1].page.day

LEMMA ElsewhereFacts ==
  ASSUME Types, LinkInv, QueueInv, ExecuteWrite, NEW i \in DOMAIN rows, Elsewhere(rows[i].day)
  PROVE  rows'[i] = rows[i] /\ i \in DOMAIN rows'
<1> DEFINE w == writes[1]
           n == nextId - 1
<1>1. /\ w \in Record /\ 1 \in 1..Len(writes)
      /\ \A k \in 1..n : k # Place(w) => rows'[k] = rows[k]
      /\ Numbered(rows', nextId' - 1) /\ nextId <= nextId' /\ nextId' \in Nat
  BY ExecuteFacts
<1>2. i \in 1..n /\ DOMAIN rows' = 1..(nextId' - 1) /\ i \in DOMAIN rows'
  BY <1>1, TypeFacts DEF Numbered
<1>3. Place(w) # i
  <2>1. CASE w.op = "insert"
    BY <1>2, <2>1, TypeFacts DEF Place
  <2>2. CASE w.op = "update"
    <3>1. Place(w) = w.page.id /\ Stored(w.page, rows) /\ w.page.id # 0
      BY <1>1, <2>2 DEF QueueInv, Waited, Place
    <3> QED BY <2>2, <3>1 DEF Stored, Elsewhere
  <2> QED BY <1>1, <2>1, <2>2 DEF Record
<1> QED BY <1>1, <1>2, <1>3

LEMMA TargetKept ==
  ASSUME Types, LinkInv, QueueInv, ExecuteWrite, NEW c, Stored(c.page, rows),
         Elsewhere(c.page.day)
  PROVE  Target(c, rows').body \subseteq Target(c, rows).body
<1> DEFINE d == c.page.day
           w == writes[1]
           first == FirstOf(rows, d)
           then == FirstOf(rows', d)
<1>1. Grown
  BY ExecuteFacts DEF Grown
<1>2. CASE c.page.id # 0
  BY <1>2, ElsewhereFacts DEF Target, Stored
<1>3. CASE c.page.id = 0
  <2>1. Target(c, rows) = first /\ Target(c, rows') = then
    BY <1>3 DEF Target
  <2>2. CASE first.id # 0
    <3>1. first.id \in DOMAIN rows /\ first = rows[first.id] /\ first.day = d
      BY <2>2, PageOfFacts
    <3>2. then = rows'[first.id]
      BY <1>1, <2>2, PageOfStep
    <3> QED BY <2>1, <3>1, <3>2, ElsewhereFacts
  <2>3. CASE first.id = 0
    <3>1. then.id \notin DOMAIN rows
      BY <1>1, <2>3, PageOfStep
    <3>2. /\ w \in Record /\ 1 \in 1..Len(writes)
          /\ nextId' = IF w.op = "insert" THEN nextId + 1 ELSE nextId
          /\ nextId' \in Nat \ {0} /\ Numbered(rows', nextId' - 1)
          /\ rows'[Place(w)].body = w.page.body
      BY ExecuteFacts
    <3>3. /\ then.id = 0 => then = NoPage
          /\ then.id # 0 => then.id \in 1..(nextId' - 1) /\ then = rows'[then.id]
      BY <3>2, FirstFacts
    <3>4. then.id # 0 => w.op = "insert" /\ then.id = Place(w)
      BY <3>1, <3>2, <3>3, TypeFacts DEF Place
    <3>5. w.op = "insert" => w.page.body = {}
      BY <3>2 DEF QueueInv, Waited
    <3>6. then.body = {}
      BY <3>2, <3>3, <3>4, <3>5 DEF NoPage
    <3> QED BY <2>1, <3>6
  <2> QED BY <2>2, <2>3
<1> QED BY <1>2, <1>3

\* Until writes cross, Room executes none that another coroutine is about to undo.
LEMMA NotCrossed ==
  ASSUME Types, LinkInv, QueueInv, ExecuteWrite, Orderly', NEW k \in Jobs \ {writes[1].by}
  PROVE  /\ k \in Saves /\ ToWrite(job[k]) => Elsewhere(job[k].page.day)
         /\ HasRead(k, job[k]) => Elsewhere(job[k].page.day)
         /\ job[k].pc = "call" /\ job[k].op = "update" => Elsewhere(job[k].page.day)
<1> DEFINE w == writes[1]
<1>1. w.op = "update" => ~Crossed(w)
  <2>1. mishaps' = mishaps \cup IF w.op = "update" /\ Crossed(w) THEN {"crossed"} ELSE {}
    <3>1. w = Head(writes)
      <4>1. writes \in Seq(Record) /\ writes # <<>>
        BY DEF ExecuteWrite, Types
      <4> QED BY <4>1
    <3>2. LET h == Head(writes) IN
          mishaps' = mishaps \cup IF h.op = "update" /\ Crossed(h) THEN {"crossed"} ELSE {}
      BY DEF ExecuteWrite
    <3> QED BY <3>1, <3>2
  <2> QED BY <2>1 DEF Orderly
<1>2. w.op = "update" /\ job[k].pc \in {"call", "back"} /\ job[k].page.day = w.page.day =>
        /\ ~(k \in Saves /\ ~(job[k].op = "update" /\ job[k].pc = "back"))
        /\ ~(job[k].op = "update" /\ job[k].pc = "call")
        /\ ~(job[k].op = "read" /\ job[k].pc = "back")
        /\ ~(k = "append" /\ job[k].op \in {"find", "insert"} /\ job[k].pc = "back")
  BY <1>1 DEF Crossed
<1> QED BY <1>2 DEF Elsewhere, ToWrite, HasRead, Handed

LEMMA WritesKeepStep ==
  ASSUME Types, LinkInv, QueueInv, Orderly', WritesKeep, JobsKeep, Next
  PROVE  WritesKeep'
<1> DEFINE n == Len(writes)
<1>1. n \in Nat
  BY DEF Types
<1>2. CASE UNCHANGED <<rows, writes>>
  BY <1>2 DEF WritesKeep
<1>3. ASSUME NEW w, Issued(w), UNCHANGED rows,
             w.op = "update" => rows[w.page.id].body \subseteq w.page.body
      PROVE  WritesKeep'
  <2> SUFFICES ASSUME NEW i \in 1..(n + 1), writes'[i].op = "update"
               PROVE  rows[writes'[i].page.id].body \subseteq writes'[i].page.body
    BY <1>3 DEF WritesKeep, Issued
  <2>1. CASE i \in 1..n
    BY <1>3, <2>1 DEF Issued, WritesKeep
  <2>2. CASE i = n + 1
    BY <1>3, <2>2 DEF Issued
  <2> QED BY <1>1, <2>1, <2>2
<1>4. CASE TypeBody
  <2>1. writes' \in Kept("debounce") /\ rows' = rows
    BY <1>4 DEF TypeBody, table
  <2>2. \A i \in 1..Len(writes') : \E k \in 1..n :
          writes'[i].op = writes[k].op /\ writes'[i].page = writes[k].page
    BY <2>1, KeptFacts
  <2> QED BY <2>1, <2>2 DEF WritesKeep
<1>5. CASE ExecuteWrite
  <2> DEFINE w == writes[1]
  <2>1. /\ Len(writes') = n - 1 /\ 1 \in 1..n
        /\ \A i \in 1..(n - 1) : i + 1 \in 1..n /\ writes'[i] = writes[i + 1]
    BY <1>5, ExecuteFacts
  <2> SUFFICES ASSUME NEW i \in 1..(n - 1), writes'[i].op = "update"
               PROVE  rows'[writes'[i].page.id].body \subseteq writes'[i].page.body
    BY <2>1 DEF WritesKeep
  <2> DEFINE v == writes[i + 1]
             p == v.page
  <2>2. /\ i + 1 \in 1..n /\ i + 1 > 1 /\ i + 1 # 1 /\ writes'[i] = v /\ v.op = "update"
        /\ v \in Record
    BY <1>1, <2>1 DEF Types
  <2>3. Waited(v, i + 1, rows, job)
    BY <2>2 DEF QueueInv
  <2>4. v.by # "nobody" /\ v.by # w.by
    BY <2>1, <2>2, <2>3 DEF QueueInv, Waited
  <2>5. v.by \in Jobs \ {w.by} /\ job[v.by].pc = "call" /\ job[v.by].op = "update"
        /\ job[v.by].page = p
    BY <2>2, <2>3, <2>4 DEF Record, Waited
  <2>6. Elsewhere(p.day)
    BY <1>5, <2>5, NotCrossed
  <2>7. p.id \in DOMAIN rows /\ rows[p.id].day = p.day
    BY <2>2, <2>3 DEF Waited, Stored
  <2>8. rows'[p.id] = rows[p.id]
    BY <1>5, <2>6, <2>7, ElsewhereFacts
  <2>9. rows[p.id].body \subseteq p.body
    BY <2>2 DEF WritesKeep
  <2> QED BY <2>2, <2>8, <2>9
<1>6. ASSUME NEW j \in Jobs, job[j].page.id # 0, Update(j, job[j].page), UNCHANGED rows,
             job[j].pc = "back",
             \/ j \in Saves /\ job[j].op = "read"
             \/ HasRead(j, job[j])
      PROVE  WritesKeep'
  <2> DEFINE p == job[j].page
             e == Edited(j, p)
  <2>1. p \in Page /\ e.id = p.id /\ Issued([by |-> j, op |-> "update", page |-> e])
    BY <1>6, TypeFacts, UpdateFacts, EditedFacts
  <2>2. /\ j \in Saves => e.body = job[j].text
        /\ j = "append" => e.body = p.body \cup job[j].text
        /\ j \in Marks => e = p
    BY <2>1, EditedFacts
  <2>3. CASE j \in Saves /\ job[j].op = "read"
    <3>1. Target(job[j], rows) = rows[p.id]
      BY <1>6 DEF Target
    <3>2. rows[p.id].body \subseteq job[j].text
      BY <1>6, <2>3, <3>1 DEF JobsKeep, JobKeeps, ToWrite, Handed
    <3>3. rows[e.id].body \subseteq e.body
      BY <2>1, <2>2, <2>3, <3>2
    <3> HIDE DEF e
    <3> QED BY <1>3, <1>6, <2>1, <3>3
  <2>4. CASE j \notin Saves /\ HasRead(j, job[j])
    <3>1. rows[p.id].body \subseteq p.body
      BY <2>4 DEF JobsKeep, JobKeeps
    <3>2. j = "append" \/ j \in Marks
      BY <2>4, JobNames
    <3>3. rows[e.id].body \subseteq e.body
      BY <2>1, <2>2, <3>1, <3>2
    <3> HIDE DEF e
    <3> QED BY <1>3, <1>6, <2>1, <3>3
  <2> QED BY <1>6, <2>3, <2>4, JobNames DEF HasRead
<1>7. ASSUME NEW j \in Jobs, Found(j)
      PROVE  WritesKeep'
  <2> DEFINE p == job[j].page
  <2>1. job[j].pc = "back" /\ job[j].op \in {"find", "insert"} /\ UNCHANGED rows
    BY <1>7 DEF Found, table
  <2>2. CASE p.id = 0
    <3>1. Issued([by |-> j, op |-> "insert", page |-> p])
      BY <1>7, <2>2, FoundFacts
    <3> QED BY <1>3, <2>1, <3>1
  <2>3. CASE p.id # 0 /\ j = "append"
    <3>1. Update(j, p) /\ HasRead(j, job[j])
      BY <1>7, <2>1, <2>3 DEF Found, HasRead
    <3> QED BY <1>6, <2>1, <2>3, <3>1
  <2>4. CASE p.id # 0 /\ j # "append"
    <3>1. writes' = writes
      BY <1>7, <2>4 DEF Found
    <3> QED BY <1>2, <2>1, <3>1
  <2> QED BY <2>2, <2>3, <2>4
<1>8. ASSUME NEW j \in Jobs, WriteBack(j)
      PROVE  WritesKeep'
  <2>1. /\ job[j].page.id # 0 /\ job[j].pc = "back" /\ job[j].op = "read"
        /\ Update(j, job[j].page) /\ UNCHANGED rows
    BY <1>8, WriteBackFacts DEF WriteBack, table
  <2> QED BY <1>6, <2>1 DEF HasRead
<1> QED BY <1>2, <1>4, <1>5, <1>7, <1>8
        DEF Next, SelectDay, Mark, Dictated, Midnight, Query, Mirror, DebounceFires,
            Read, Resume, Written, table

LEMMA JobsKeepStep ==
  ASSUME Types, LinkInv, QueueInv, FlowInv, SeenInv, Orderly', JobsKeep, Next
  PROVE  JobsKeep'
<1>1. ASSUME NEW j \in Jobs, \A k \in Jobs \ {j} : job'[k] = job[k], UNCHANGED rows,
             JobKeeps(j, job'[j], rows)
      PROVE  JobsKeep'
  BY <1>1 DEF JobsKeep
<1>2. CASE UNCHANGED <<rows, job>>
  BY <1>2 DEF JobsKeep
<1>3. ASSUME NEW j, NEW c, c = Ended \/ c = [Ended EXCEPT !.pc = "delay"]
      PROVE  JobKeeps(j, c, rows)
  BY <1>3 DEF JobKeeps, ToWrite, HasRead, Handed, Ended
<1>4. ASSUME NEW j \in Jobs, NEW d \in Days, NEW t \in Text, Begins(j, d, t),
             j \in Saves => /\ FirstOf(rows, d).body \subseteq t
                            /\ d # today /\ entry.id # 0 => entry.day = d
      PROVE  JobsKeep'
  <2>1. OnPage(j, d, t) /\ UNCHANGED rows
    BY <1>4 DEF Begins
  <2>2. CASE d = today
    <3>1. job'[j] = Step("call", "find", Blank(d), t)
      BY <2>1, <2>2, OnPageFacts
    <3>2. Target(job'[j], rows) = FirstOf(rows, d)
      BY <3>1 DEF Target, Step, Blank
    <3>3. JobKeeps(j, job'[j], rows)
      BY <1>4, <3>1, <3>2 DEF JobKeeps, HasRead, Step
    <3> QED BY <1>1, <2>1, <3>3, OnPageFacts
  <2>3. CASE d # today /\ entry.id # 0
    <3>1. job'[j] = Step("call", "read", entry, t)
      BY <2>1, <2>3, OnPageFacts
    <3>2. Target(job'[j], rows) = rows[entry.id]
      BY <2>3, <3>1 DEF Target, Step
    <3>3. j \in Saves => FirstOf(rows, d) = rows[entry.id]
      BY <1>4, <2>3, PageOfFacts DEF FlowInv
    <3>4. JobKeeps(j, job'[j], rows)
      BY <1>4, <3>1, <3>2, <3>3 DEF JobKeeps, HasRead, Step
    <3> QED BY <1>1, <2>1, <3>4, OnPageFacts
  <2>4. CASE d # today /\ entry.id = 0
    <3>1. job'[j] = Ended
      BY <2>1, <2>4, OnPageFacts
    <3> QED BY <1>1, <1>3, <2>1, <3>1, OnPageFacts
  <2> QED BY <2>2, <2>3, <2>4
<1>5. CASE DebounceFires \/ \E d \in Days : d <= today /\ SelectDay(d)
  <2>1. seen /\ ~Behind
    <3>1. mishaps' = mishaps \cup (IF ~seen THEN {"unseen"} ELSE {})
                             \cup (IF Behind THEN {"behind"} ELSE {})
      BY <1>5 DEF DebounceFires, SelectDay, SaveNow
    <3> QED BY <3>1 DEF Orderly
  <2>2. /\ FirstOf(rows, selected).body \subseteq text
        /\ selected # today /\ entry.id # 0 => entry.day = selected
    BY <2>1, PageOfIs DEF SeenInv, Behind
  <2> QED BY <1>4, <1>5, <2>2, BeginFacts, TypeFacts DEF Jobs
<1>6. CASE Mark \/ Dictated
  BY <1>4, <1>6, BeginFacts, TypeFacts, NoPageIsPage, JobNames
<1>7. CASE Midnight \/ Query \/ Mirror
  BY <1>2, <1>7 DEF Midnight, Query, Mirror, table
<1>8. CASE TypeBody
  <2>1. [Ended EXCEPT !.pc = "delay"] \in Coroutine
    BY NoPageIsPage DEF Ended, Coroutine
  <2>2. /\ job'["debounce"] = [Ended EXCEPT !.pc = "delay"] /\ UNCHANGED rows
        /\ \A k \in Jobs \ {"debounce"} : job'[k] = job[k]
    BY <1>8, <2>1, GoFacts DEF TypeBody, Jobs, table
  <2> QED BY <1>1, <1>3, <2>2 DEF Jobs
<1>9. CASE ExecuteWrite
  <2> DEFINE w == writes[1]
  <2>1. /\ w \in Record /\ 1 \in 1..Len(writes)
        /\ rows'[Place(w)].body = w.page.body
        /\ w.by # "nobody" => job'[w.by] = Step("back", w.op, rows'[Place(w)], job[w.by].text)
        /\ \A k \in Jobs \ {w.by} : job'[k] = job[k]
        /\ Numbered(rows', nextId' - 1) /\ Place(w) \in 1..(nextId' - 1)
    BY <1>9, ExecuteFacts
  <2>2. ASSUME NEW k \in Jobs \ {w.by}
        PROVE  JobKeeps(k, job'[k], rows')
    <3> DEFINE c == job[k]
    <3>1. job'[k] = c /\ Stored(c.page, rows) /\ JobKeeps(k, c, rows)
      BY <2>1 DEF LinkInv, Linked, JobsKeep
    <3>2. k \in Saves /\ ToWrite(c) => Target(c, rows').body \subseteq Target(c, rows).body
      BY <1>9, <3>1, NotCrossed, TargetKept
    <3>3. HasRead(k, c) => rows'[c.page.id] = rows[c.page.id]
      BY <1>9, <3>1, NotCrossed, ElsewhereFacts DEF HasRead, Stored
    <3> QED BY <3>1, <3>2, <3>3 DEF JobKeeps
  <2>3. ASSUME w.by # "nobody"
        PROVE  JobKeeps(w.by, job'[w.by], rows')
    <3> DEFINE page == rows'[Place(w)]
               c == Step("back", w.op, page, job[w.by].text)
    <3>1. job'[w.by] = c /\ page.id = Place(w) /\ page.id # 0
      BY <2>1, <2>3 DEF Numbered
    <3>2. rows'[page.id] = page
      BY <3>1
    <3>3. w.op = "insert" => page.body = {}
      BY <2>1 DEF QueueInv, Waited
    <3>4. Target(c, rows') = page
      BY <3>1, <3>2 DEF Target, Step
    <3>5. ToWrite(c) => w.op = "insert"
      BY <2>1 DEF ToWrite, Step, Record
    <3> HIDE DEF page
    <3> QED BY <3>1, <3>2, <3>3, <3>4, <3>5 DEF JobKeeps, Step
  <2> QED BY <2>1, <2>2, <2>3, JobNames DEF JobsKeep, Record
<1>10. ASSUME NEW j \in Jobs, Read(j)
       PROVE  JobsKeep'
  <2> DEFINE p == job[j].page
             found == FirstOf(rows, p.day)
  <2>1. /\ \A k \in Jobs \ {j} : job'[k] = job[k]
        /\ job[j].pc = "call" /\ job[j].op \in {"find", "read"} /\ UNCHANGED rows
        /\ job[j].op = "find" =>
             /\ p.id = 0
             /\ job'[j] = Step("back", "find", IF found.id = 0 THEN p ELSE found, job[j].text)
        /\ job[j].op = "read" => /\ p.id # 0 /\ rows[p.id].id = p.id
                                 /\ job'[j] = Step("back", "read", rows[p.id], job[j].text)
    BY <1>10, ReadFacts DEF Read, table
  <2>2. ToWrite(job[j]) /\ JobKeeps(j, job[j], rows)
    BY <2>1 DEF ToWrite, Handed, JobsKeep
  <2>3. found.id # 0 => found = rows[found.id] /\ found.day = p.day
    BY PageOfFacts
  <2>4. CASE job[j].op = "find"
    <3>1. Target(job'[j], rows) = Target(job[j], rows)
      BY <2>1, <2>3, <2>4 DEF Target, Step
    <3>2. job'[j].page.id # 0 => rows[job'[j].page.id] = job'[j].page
      BY <2>1, <2>3, <2>4 DEF Step
    <3>3. job'[j].text = job[j].text
      BY <2>1, <2>4 DEF Step
    <3>4. JobKeeps(j, job'[j], rows)
      BY <2>2, <3>1, <3>2, <3>3 DEF JobKeeps, HasRead
    <3> QED BY <1>1, <2>1, <3>4
  <2>5. CASE job[j].op = "read"
    <3>1. Target(job'[j], rows) = Target(job[j], rows)
      BY <2>1, <2>5 DEF Target, Step
    <3>2. rows[job'[j].page.id] = job'[j].page /\ job'[j].text = job[j].text
      BY <2>1, <2>5 DEF Step
    <3>3. JobKeeps(j, job'[j], rows)
      BY <2>2, <3>1, <3>2 DEF JobKeeps
    <3> QED BY <1>1, <2>1, <3>3
  <2> QED BY <2>1, <2>4, <2>5
<1>11. ASSUME NEW j \in Jobs, Update(j, job[j].page), UNCHANGED rows, job[j].page.id # 0,
              job[j].pc = "back", job[j].op # "update"
       PROVE  JobsKeep'
  <2> DEFINE p == job[j].page
             e == Edited(j, p)
  <2>1. /\ e.id = p.id
        /\ \A k \in Jobs \ {j} : job'[k] = job[k]
        /\ job'[j] = Step("call", "update", e, job[j].text)
    <3>1. p \in Page
      BY TypeFacts
    <3>2. e.id = p.id
      BY <3>1, EditedFacts
    <3> QED BY <1>11, <3>1, <3>2, UpdateFacts
  <2> HIDE DEF e
  <2>2. Target(job'[j], rows) = Target(job[j], rows) /\ job'[j].text = job[j].text
    BY <1>11, <2>1 DEF Target, Step
  <2>3. ~HasRead(j, job'[j]) /\ ToWrite(job[j]) /\ JobKeeps(j, job[j], rows)
    BY <1>11, <2>1 DEF HasRead, Step, ToWrite, Handed, JobsKeep
  <2>4. JobKeeps(j, job'[j], rows)
    BY <2>2, <2>3 DEF JobKeeps
  <2> QED BY <1>1, <1>11, <2>1, <2>4
<1>12. ASSUME NEW j \in Jobs, Found(j)
       PROVE  JobsKeep'
  <2> DEFINE p == job[j].page
  <2>1. job[j].pc = "back" /\ job[j].op \in {"find", "insert"} /\ UNCHANGED rows
    BY <1>12 DEF Found, table
  <2>2. CASE p.id # 0 /\ j = "append"
    <3>1. Update(j, p)
      BY <1>12, <2>2 DEF Found
    <3> QED BY <1>11, <2>1, <2>2, <3>1
  <2>3. CASE ~(p.id # 0 /\ j = "append")
    <3>1. /\ \A k \in Jobs \ {j} : job'[k] = job[k]
          /\ job'[j] = Step("call", IF p.id = 0 THEN "insert" ELSE "read", p, job[j].text)
      BY <1>12, <2>3, FoundFacts
    <3>2. Target(job'[j], rows) = Target(job[j], rows) /\ job'[j].text = job[j].text
      BY <3>1 DEF Target, Step
    <3>3. ~HasRead(j, job'[j]) /\ ToWrite(job[j]) /\ JobKeeps(j, job[j], rows)
      BY <2>1, <3>1 DEF HasRead, Step, ToWrite, Handed, JobsKeep
    <3>4. JobKeeps(j, job'[j], rows)
      BY <3>2, <3>3 DEF JobKeeps
    <3> QED BY <1>1, <2>1, <3>1, <3>4
  <2> QED BY <2>2, <2>3
<1>13. ASSUME NEW j \in Jobs, WriteBack(j)
       PROVE  JobsKeep'
  <2>1. /\ job[j].page.id # 0 /\ job[j].pc = "back" /\ job[j].op = "read"
        /\ Update(j, job[j].page) /\ UNCHANGED rows
    BY <1>13, WriteBackFacts DEF WriteBack, table
  <2> QED BY <1>11, <2>1
<1>14. ASSUME NEW j \in Jobs, Written(j)
       PROVE  JobsKeep'
  <2>1. job'[j] = Ended /\ (\A k \in Jobs \ {j} : job'[k] = job[k]) /\ UNCHANGED rows
    BY <1>14, GoFacts, NoPageIsPage DEF Written, table
  <2> QED BY <1>1, <1>3, <2>1
<1> QED BY <1>5, <1>6, <1>7, <1>8, <1>9, <1>10, <1>12, <1>13, <1>14 DEF Next, Resume

LEMMA KeepStep ==
  ASSUME Types, LinkInv, QueueInv, FlowInv, SeenInv, KeepInv, Next
  PROVE  KeepInv'
<1> SUFFICES ASSUME Orderly' PROVE WritesKeep' /\ JobsKeep'
  BY DEF KeepInv
<1>1. WritesKeep /\ JobsKeep
  BY MishapsGrow DEF KeepInv, Orderly
<1> QED BY <1>1, WritesKeepStep, JobsKeepStep

-----------------------------------------------------------------------------
(* The screen.                                                               *)

LEMMA FreshStep ==
  ASSUME Types, FreshInv, Next
  PROVE  FreshInv'
<1>1. CASE Query
  <2>1. answer' = <<FirstOf(rows, selected)>> /\ UNCHANGED <<rows, selected>>
    BY <1>1, PageOfIs DEF Query, table
  <2>2. answer' # <<>> /\ answer'[1] = FirstOf(rows', selected')
    BY <2>1
  <2> QED BY <2>2 DEF FreshInv
<1>2. CASE Mirror
  BY <1>2 DEF Mirror, FreshInv, table
<1>3. CASE ExecuteWrite \/ \E d \in Days : d <= today /\ SelectDay(d)
  BY <1>3 DEF ExecuteWrite, SelectDay, FreshInv, table
<1>4. CASE UNCHANGED <<rows, selected, entry, dirty, answer>>
  BY <1>4 DEF FreshInv
<1> QED BY <1>1, <1>2, <1>3, <1>4
        DEF Next, TypeBody, Mark, Dictated, Midnight, DebounceFires,
            Read, Resume, Found, WriteBack, Written, mirror, table

LEMMA ScreenStep ==
  ASSUME Types, LinkInv, QueueInv, FlowInv, ScreenInv, Next
  PROVE  ScreenInv'
<1>0. "debounce" \in Jobs /\ Flushes \subseteq Jobs /\ "debounce" \notin Flushes
  BY JobNames
<1>1. entry.id # 0 => /\ entry.id \in DOMAIN rows /\ rows[entry.id].day = entry.day
                      /\ FirstOf(rows, entry.day).id = entry.id
  BY DEF FlowInv, Stored
\* The entry, the text and the table stay, and a save goes on.
<1>2. ASSUME UNCHANGED <<rows, entry, selected, text>>,
             \A j \in Saves : /\ Heading(job[j], entry) => Heading(job'[j], entry)
                              /\ j = "debounce" /\ job[j].pc = "delay" /\ selected = entry.day
                                   /\ entry.id # 0
                                 => job'[j].pc = "delay" \/ Heading(job'[j], entry)
      PROVE  ScreenInv'
  BY <1>2 DEF ScreenInv, Saves
<1>3. CASE Mark \/ Dictated
  <2>1. \A j \in Saves : job'[j] = job[j]
    BY <1>3, JobNames DEF Mark, Dictated, OnPage, Go, Types
  <2> QED BY <1>2, <1>3, <2>1 DEF Mark, Dictated, table, mirror
<1>4. CASE Midnight \/ Query
  BY <1>2, <1>4 DEF Midnight, Query, table, mirror
<1>5. CASE DebounceFires
  <2>1. /\ OnPage("debounce", selected, text) /\ UNCHANGED <<rows, entry, selected, text>>
        /\ job["debounce"].pc = "delay"
    BY <1>5 DEF DebounceFires, SaveNow, table, mirror
  <2>2. \A f \in Flushes : job'[f] = job[f]
    BY <1>0, <2>1, TypeFacts, OnPageFacts
  <2>3. ~Heading(job["debounce"], entry)
    BY <2>1 DEF Heading, ToWrite, Handed
  <2>4. ASSUME selected = entry.day, entry.id # 0
        PROVE  Heading(job'["debounce"], entry)
    <3>1. \/ selected = today /\ job'["debounce"] = Step("call", "find", Blank(selected), text)
          \/ job'["debounce"] = Step("call", "read", entry, text)
      BY <1>0, <2>1, <2>4, TypeFacts, OnPageFacts
    <3> QED BY <2>4, <3>1 DEF Heading, ToWrite, Handed, Step, Blank
  <2> QED BY <1>2, <2>1, <2>2, <2>3, <2>4 DEF Saves
<1>6. CASE \E d \in Days : d <= today /\ SelectDay(d)
  <2>1. PICK f \in Flushes : ~Active(f) /\ SaveNow(f)
    BY <1>6 DEF SelectDay
  <2>2. /\ OnPage(f, selected, text) /\ UNCHANGED <<rows, entry, text>>
        /\ job[f].pc = "none" /\ f \in Jobs
    BY <1>0, <1>6, <2>1 DEF SelectDay, SaveNow, table, Active
  <2>3. ~Heading(job[f], entry)
    BY <2>2 DEF Heading, ToWrite, Handed
  <2>4. ASSUME selected = entry.day, entry.id # 0
        PROVE  Heading(job'[f], entry)
    <3>1. \/ selected = today /\ job'[f] = Step("call", "find", Blank(selected), text)
          \/ job'[f] = Step("call", "read", entry, text)
      BY <2>2, <2>4, TypeFacts, OnPageFacts
    <3> QED BY <2>4, <3>1 DEF Heading, ToWrite, Handed, Step, Blank
  <2>5. \A g \in Flushes \ {f} : job'[g] = job[g]
    BY <1>0, <2>2, TypeFacts, OnPageFacts
  <2>6. (\E g \in Flushes : Heading(job[g], entry)) => \E g \in Flushes : Heading(job'[g], entry)
    BY <2>3, <2>5
  <2> QED BY <2>1, <2>2, <2>4, <2>6 DEF ScreenInv
<1>7. CASE TypeBody
  <2>1. [Ended EXCEPT !.pc = "delay"] \in Coroutine /\ [Ended EXCEPT !.pc = "delay"].pc = "delay"
    BY NoPageIsPage DEF Ended, Coroutine
  <2>2. /\ job'["debounce"].pc = "delay" /\ \A f \in Flushes : job'[f] = job[f]
        /\ UNCHANGED <<rows, entry, selected>>
    BY <1>0, <1>7, <2>1, GoFacts DEF TypeBody, table, mirror
  <2> QED BY <2>2 DEF ScreenInv
<1>8. CASE Mirror
  <2>1. /\ entry' = answer[1] /\ UNCHANGED <<rows, selected, job>> /\ answer # <<>>
        /\ text' = IF entry' = entry THEN text ELSE entry'.body
    BY <1>8 DEF Mirror, table
  <2>2. CASE entry' = entry
    BY <2>1, <2>2 DEF ScreenInv
  <2>3. CASE entry' # entry
    <3>1. text' = entry'.body
      BY <2>1, <2>3
    <3>2. entry'.id # 0 => /\ entry'.day = selected /\ entry'.rev <= rows[entry'.id].rev
                           /\ entry'.id \in DOMAIN rows
      BY <2>1 DEF FlowInv, Stored
    <3>3. entry'.id # 0 => entry'.rev \in Nat /\ rows[entry'.id].rev \in Nat
      BY <2>1, <3>2, TypeFacts DEF Numbered, Page
    <3> QED BY <2>1, <3>1, <3>2, <3>3 DEF ScreenInv
  <2> QED BY <2>2, <2>3
<1>9. CASE ExecuteWrite
  <2> SUFFICES ASSUME entry.id # 0 PROVE ScreenInv'
    BY <1>9 DEF ExecuteWrite, ScreenInv
  <2> DEFINE w == writes[1]
             id == entry.id
  <2>1. /\ w \in Record /\ 1 \in 1..Len(writes)
        /\ w.op = "update" => rows'[Place(w)].rev = rows[Place(w)].rev + 1
        /\ \A i \in 1..(nextId - 1) : i # Place(w) => rows'[i] = rows[i]
        /\ w.by # "nobody" => /\ job[w.by].pc = "call" /\ job[w.by].op = w.op
                              /\ job[w.by].page = w.page
        /\ \A k \in Jobs \ {w.by} : job'[k] = job[k]
    BY <1>9, ExecuteFacts
  <2>2. UNCHANGED <<entry, text, selected>>
    BY <1>9 DEF ExecuteWrite
  <2>3. id \in 1..(nextId - 1) /\ rows[id].rev \in Nat /\ entry.rev \in Nat /\ rows[id].rev >= entry.rev
    BY <1>1, TypeFacts DEF Numbered, Page, ScreenInv
  <2>4. CASE Place(w) = id
    <3>1. w.op = "update"
      BY <2>1, <2>3, <2>4, TypeFacts DEF Place, Record
    <3>2. rows'[entry.id].rev > entry.rev /\ rows'[entry.id].rev >= entry.rev
      BY <2>1, <2>3, <2>4, <3>1
    <3>3. entry' = entry
      BY <2>2
    <3> QED BY <3>2, <3>3 DEF ScreenInv
  <2>5. CASE Place(w) # id
    <3>1. rows'[id] = rows[id]
      BY <2>1, <2>3, <2>5
    <3>2. w.by # "nobody" => ~Heading(job[w.by], entry) /\ job[w.by].pc # "delay"
      <4>1. w.op = "insert" => w.page.id = 0
        BY <2>1 DEF QueueInv, Waited
      <4>2. w.page.id # id
        BY <2>1, <2>5, <4>1 DEF Place, Record
      <4> QED BY <2>1, <4>2 DEF Heading, Record
    <3>3. \A j \in Saves : /\ Heading(job[j], entry) => job'[j] = job[j]
                           /\ job[j].pc = "delay" => job'[j] = job[j]
      BY <2>1, <3>2, JobNames
    <3> QED BY <2>2, <3>1, <3>3 DEF ScreenInv, Saves
  <2> QED BY <2>4, <2>5
<1>10. ASSUME NEW j \in Jobs, \A k \in Jobs \ {j} : job'[k] = job[k],
              UNCHANGED <<rows, entry, selected, text>>, job[j].pc # "delay",
              entry.id # 0 /\ Heading(job[j], entry) => Heading(job'[j], entry)
       PROVE  ScreenInv'
  <2>1. CASE entry.id = 0
    BY <1>10, <2>1 DEF ScreenInv
  <2>2. CASE entry.id # 0
    BY <1>2, <1>10, <2>2, JobNames
  <2> QED BY <2>1, <2>2
<1>11. ASSUME NEW j \in Jobs, Read(j)
       PROVE  ScreenInv'
  <2> DEFINE p == job[j].page
             found == FirstOf(rows, p.day)
  <2>1. /\ \A k \in Jobs \ {j} : job'[k] = job[k]
        /\ job[j].pc = "call" /\ job[j].op \in {"find", "read"}
        /\ job[j].op = "find" =>
             /\ p.id = 0
             /\ job'[j] = Step("back", "find", IF found.id = 0 THEN p ELSE found, job[j].text)
        /\ job[j].op = "read" => /\ p.id # 0 /\ rows[p.id].id = p.id
                                 /\ job'[j] = Step("back", "read", rows[p.id], job[j].text)
    BY <1>11, ReadFacts
  <2>2. entry.id # 0 /\ Heading(job[j], entry) => Heading(job'[j], entry)
    BY <1>1, <2>1 DEF Heading, ToWrite, Handed, Step
  <2> QED BY <1>10, <1>11, <2>1, <2>2 DEF Read, table, mirror
<1>12. ASSUME NEW j \in Jobs, Update(j, job[j].page), job[j].pc = "back",
              UNCHANGED <<rows, entry, selected, text>>
       PROVE  ScreenInv'
  <2> DEFINE p == job[j].page
             e == Edited(j, p)
  <2>1. p \in Page
    BY TypeFacts
  <2>2. e.id = p.id
    BY <2>1, EditedFacts
  <2>3. /\ \A k \in Jobs \ {j} : job'[k] = job[k]
        /\ job'[j] = Step("call", "update", e, job[j].text)
    BY <1>12, <2>1, UpdateFacts
  <2> HIDE DEF e
  <2>4. entry.id # 0 /\ Heading(job[j], entry) => Heading(job'[j], entry)
    BY <1>12, <2>2, <2>3 DEF Heading, ToWrite, Handed, Step
  <2> QED BY <1>10, <1>12, <2>3, <2>4
<1>13. ASSUME NEW j \in Jobs, Found(j)
       PROVE  ScreenInv'
  <2> DEFINE p == job[j].page
  <2>1. job[j].pc = "back" /\ UNCHANGED <<rows, entry, selected, text>>
    BY <1>13 DEF Found, table, mirror
  <2>2. CASE p.id # 0 /\ j = "append"
    <3>1. Update(j, p)
      BY <1>13, <2>2 DEF Found
    <3> QED BY <1>12, <2>1, <3>1
  <2>3. CASE ~(p.id # 0 /\ j = "append")
    <3>1. /\ \A k \in Jobs \ {j} : job'[k] = job[k]
          /\ job'[j] = Step("call", IF p.id = 0 THEN "insert" ELSE "read", p, job[j].text)
      BY <1>13, <2>3, FoundFacts
    <3>2. entry.id # 0 /\ Heading(job[j], entry) => Heading(job'[j], entry)
      BY <2>1, <3>1 DEF Heading, ToWrite, Handed, Step
    <3> QED BY <1>10, <2>1, <3>1, <3>2
  <2> QED BY <2>2, <2>3
<1>14. ASSUME NEW j \in Jobs, WriteBack(j)
       PROVE  ScreenInv'
  <2>1. job[j].pc = "back" /\ Update(j, job[j].page) /\ UNCHANGED <<rows, entry, selected, text>>
    BY <1>14 DEF WriteBack, table, mirror
  <2> QED BY <1>12, <2>1
<1>15. ASSUME NEW j \in Jobs, Written(j)
       PROVE  ScreenInv'
  <2>1. /\ \A k \in Jobs \ {j} : job'[k] = job[k]
        /\ job[j].pc = "back" /\ job[j].op = "update"
        /\ UNCHANGED <<rows, entry, selected, text>>
    BY <1>15, GoFacts, NoPageIsPage DEF Written, table, mirror
  <2>2. ~Heading(job[j], entry)
    BY <2>1 DEF Heading, ToWrite
  <2> QED BY <1>10, <2>1, <2>2
<1> QED BY <1>3, <1>4, <1>5, <1>6, <1>7, <1>8, <1>9, <1>11, <1>13, <1>14, <1>15 DEF Next, Resume

-----------------------------------------------------------------------------
(* The theorems.                                                             *)

LEMMA Start == Init => IInv
<1> SUFFICES ASSUME Init PROVE IInv
  OBVIOUS
<1>1. /\ NoPage \in Page /\ Ended \in Coroutine /\ {} \in Text
      /\ 0 \in Days /\ today \in Days /\ selected \in 0..today
  BY NoPageIsPage, PageAssumption DEF Init, Days
<1>2. rows = <<>> \/ rows = <<[NoPage EXCEPT !.id = 1]>>
  BY DEF Init
<1>3. [NoPage EXCEPT !.id = 1] \in Page /\ [NoPage EXCEPT !.id = 1].id = 1
      /\ [NoPage EXCEPT !.id = 1].body = {}
  BY <1>1 DEF NoPage, Page
<1>4. /\ nextId \in Nat \ {0} /\ DOMAIN rows = 1..(nextId - 1)
      /\ \A i \in DOMAIN rows : rows[i] \in Page /\ rows[i].id = i /\ rows[i].body = {}
      /\ rows \in [1..(nextId - 1) -> Page]
  <2>1. CASE rows = <<>>
    BY <2>1 DEF Init
  <2>2. CASE rows = <<[NoPage EXCEPT !.id = 1]>>
    <3> DEFINE p == [NoPage EXCEPT !.id = 1]
    <3>1. p \in Page /\ p.id = 1 /\ p.body = {} /\ rows = <<p>> /\ nextId = Len(rows) + 1
      BY <1>3, <2>2 DEF Init
    <3> HIDE DEF p
    <3>2. nextId = 2 /\ DOMAIN rows = 1..1 /\ rows[1] = p /\ rows \in [1..1 -> Page]
      BY <3>1
    <3> QED BY <3>1, <3>2
  <2> QED BY <1>2, <2>1, <2>2
<1>5. /\ job = [j \in Jobs |-> Ended] /\ job \in [Jobs -> Coroutine]
      /\ \A j \in Jobs : job[j] = Ended
      /\ writes = <<>> /\ answer = <<>> /\ entry = NoPage /\ dirty = TRUE /\ text = {}
      /\ seen = TRUE /\ mishaps = {}
  BY <1>1 DEF Init
<1>6. writes \in Seq(Record) /\ answer \in Seq(Page) /\ Len(answer) = 0 /\ Len(writes) = 0
      /\ DOMAIN answer = {} /\ 1..Len(writes) = {}
  BY <1>5
<1>7. Types
  <2>1. \A j \in Jobs :
          /\ job[j].pc \in {"none", "delay", "call", "back"}
          /\ job[j].op \in {"none", "find", "read", "insert", "update"}
          /\ job[j].page \in Page /\ job[j].text \in Text
    BY <1>5 DEF Coroutine
  <2>2. edits \in 0..MaxEdits /\ marks \in 0..MaxMarks /\ selects \in 0..MaxSelects
    BY PageAssumption DEF Init
  <2>3. TypeOK
    BY <1>1, <1>4, <1>5, <1>6, <2>1, <2>2 DEF TypeOK
  <2> QED BY <1>4, <1>5, <1>6, <2>3 DEF Types
<1>8. Ended.pc = "none" /\ Ended.page = NoPage /\ NoPage.id = 0 /\ NoPage.body = {}
  BY DEF Ended, NoPage
<1>9. LinkInv /\ FlowInv /\ QueueInv /\ SeenInv
  BY <1>5, <1>6, <1>8 DEF LinkInv, Linked, FlowInv, QueueInv, SeenInv, Stored, Handed
<1>10. DayInv
  BY <1>4, <1>5, <1>6, <1>8
     DEF DayInv, RowsDated, FlowDated, JobsDated, WritesDated, ScreenDated, PageDated, Dated,
         JobDated, Handed
<1>11. KeepInv
  BY <1>5, <1>6, <1>8 DEF KeepInv, WritesKeep, JobsKeep, JobKeeps, HasRead, ToWrite, Handed
<1>12. FreshInv /\ ScreenInv
  BY <1>5, <1>8 DEF FreshInv, ScreenInv
<1> QED BY <1>7, <1>9, <1>10, <1>11, <1>12 DEF IInv

LEMMA Stutter ==
  ASSUME IInv, UNCHANGED vars
  PROVE  IInv'
<1> USE DEF vars, table, mirror, counts, history
<1>1. Types'
  BY TypesStep DEF IInv
<1>2. LinkInv' /\ FlowInv' /\ QueueInv' /\ SeenInv'
  BY DEF IInv, LinkInv, FlowInv, QueueInv, SeenInv
<1>3. DayInv' /\ KeepInv'
  BY DEF IInv, DayInv, TrueDay, RowsDated, FlowDated, JobsDated, WritesDated, ScreenDated,
         KeepInv, Orderly, WritesKeep, JobsKeep
<1>4. FreshInv' /\ ScreenInv'
  BY DEF IInv, FreshInv, ScreenInv
<1> QED BY <1>1, <1>2, <1>3, <1>4 DEF IInv

LEMMA Inductive == Spec => []IInv
<1>1. Init => IInv
  BY Start
<1>2. IInv /\ [Next]_vars => IInv'
  <2> SUFFICES ASSUME IInv, [Next]_vars PROVE IInv'
    OBVIOUS
  <2>1. CASE Next
    <3>1. Types' /\ LinkInv' /\ FlowInv' /\ QueueInv' /\ SeenInv'
      BY <2>1, TypesStep, LinkedStep, FlowStep, QueueStep, SeenStep DEF IInv
    <3>2. DayInv' /\ KeepInv' /\ FreshInv' /\ ScreenInv'
      BY <2>1, DayStep, KeepStep, FreshStep, ScreenStep DEF IInv
    <3> QED BY <3>1, <3>2 DEF IInv
  <2>2. CASE UNCHANGED vars
    BY <2>2, Stutter
  <2> QED BY <2>1, <2>2
<1> QED BY <1>1, <1>2, PTL DEF Spec

(* The view model's fields, the coroutines and Room's queue keep their       *)
(* types.                                                                    *)
THEOREM TypeCorrect == Spec => []TypeOK
<1>1. IInv => TypeOK
  BY DEF IInv, Types
<1> QED BY <1>1, Inductive, PTL

(* What is written under a day is stored under that day, unless a save began *)
(* between picking a day and seeing its page, or the page picked was what    *)
(* the screen showed before: once the mirror has shown the page, the text on *)
(* screen is of the selected day, a save takes the day with the text, and    *)
(* every copy of a page carries its own day, in the screen, in the           *)
(* coroutines and in Room's queue.                                           *)
THEOREM TextStaysUnderItsDay == Spec => []TextUnderItsDay
<1>1. IInv => TextUnderItsDay
  BY DEF IInv, DayInv, TrueDay, RowsDated, PageDated, Dated, TextUnderItsDay
<1> QED BY <1>1, Inductive, PTL

(* Nothing is lost from a page by a save, a mood, a summary or a dictation,  *)
(* unless two of them overlap, a save took a text the page was ahead of, or  *)
(* one took the text of another day.                                         *)
THEOREM PageKeepsTextHolds == Spec => PageKeepsText
<1> DEFINE Keeps == mishaps' \cap {"unseen", "alike", "crossed", "behind"} = {} =>
                      \A i \in DOMAIN rows : rows[i].body \subseteq rows'[i].body
<1>1. IInv /\ [Next]_vars => [Keeps]_vars
  <2> SUFFICES ASSUME IInv, Next, Orderly', NEW i \in DOMAIN rows
               PROVE  rows[i].body \subseteq rows'[i].body
    BY DEF Orderly
  <2>1. CASE rows' = rows
    BY <2>1
  <2>2. CASE ExecuteWrite
    <3> DEFINE w == writes[1]
    <3>1. /\ w \in Record /\ 1 \in 1..Len(writes)
          /\ w.op = "update" => Place(w) \in 1..(nextId - 1)
          /\ rows'[Place(w)].body = w.page.body
          /\ \A k \in 1..(nextId - 1) : k # Place(w) => rows'[k] = rows[k]
      BY <2>2, ExecuteFacts DEF IInv
    <3>2. i \in 1..(nextId - 1)
      BY TypeFacts DEF IInv
    <3>3. CASE i # Place(w)
      BY <3>1, <3>2, <3>3
    <3>4. CASE i = Place(w)
      <4>1. w.op = "update" /\ Place(w) = w.page.id
        BY <3>1, <3>2, <3>4, TypeFacts DEF IInv, Place, Record
      <4>2. Orderly
        BY MishapsGrow DEF Orderly
      <4>3. rows[w.page.id].body \subseteq w.page.body
        BY <3>1, <4>1, <4>2 DEF IInv, KeepInv, WritesKeep
      <4> QED BY <3>1, <3>4, <4>1, <4>3
    <3> QED BY <3>3, <3>4
  <2> QED BY <2>1, <2>2, TableStep DEF IInv
<1> QED BY <1>1, Inductive, PTL DEF Spec, PageKeepsText

(* Whenever nothing is under way, the screen shows the page of the selected  *)
(* day: the flow holds the page as it is in the table, so it has not been    *)
(* written since, and no coroutine is left to carry another text to it.      *)
THEOREM ScreenSettlesHolds == Spec => []ScreenSettles
<1>1. IInv => ScreenSettles
  <2> SUFFICES ASSUME IInv, Quiet, PageOf(selected).id # 0
               PROVE  text = PageOf(selected).body
    BY DEF ScreenSettles
  <2>1. entry = FirstOf(rows, selected) /\ entry = PageOf(selected)
    BY PageOfIs DEF IInv, FreshInv, Quiet
  <2>2. entry.id # 0 /\ rows[entry.id] = entry
    BY <2>1, PageOfFacts DEF IInv
  <2>3. \A j \in Saves : job[j].pc = "none"
    BY DEF Quiet, Active, Saves, Jobs
  <2>4. (\A j \in Saves : ~Heading(job[j], entry)) /\ job["debounce"].pc # "delay"
    BY <2>3 DEF Heading, ToWrite, Handed, Saves
  <2>5. entry.rev \in Nat
    BY TypeFacts DEF IInv, Page
  <2>6. text = entry.body
    BY <2>2, <2>4, <2>5, JobNames DEF IInv, ScreenInv
  <2> QED BY <2>1, <2>6
<1> QED BY <1>1, Inductive, PTL
=============================================================================
