-------------------------- MODULE NoteEditor_proofs --------------------------
(* Proofs about NoteEditor for any number of edits and visits.               *)
EXTENDS NoteEditor, FiniteSetTheorems, TLAPS

Ops       == Reads \cup {"none", "summarize", "suggestTags", "insert", "update",
                         "setPinned", "delete"}
Writes    == {"insert", "update", "setPinned", "delete"}
Record    == [by : Jobs \cup {"nobody", "left"}, op : Writes, id : Nat, row : Row]
Coroutine == [pc : {"none", "delay", "thinking", "call", "back"}, op : Ops,
              id : Nat, row : Row]

Types ==
  /\ TypeOK
  /\ rows \in [DOMAIN rows -> Row]
  /\ writes \in Seq(Record)
  /\ job \in [Jobs -> Coroutine]

(* Which coroutine does what; outside the editor there are none.             *)
Does(j) == CASE j = "load"     -> {"load"}
             [] j = "autosave" -> {"insert", "reread", "existing", "update"}
             [] j = "ai"       -> {"insert", "reread", "existing", "summarized", "update"}
             [] j \in Pins     -> {"setPinned"}
             [] j \in Deletes  -> {"delete"}

InCall(c, ops) == c.pc \in {"call", "back"} /\ c.op \in ops

Duty(j, c) == /\ c.pc \in {"call", "back"} => c.op \in Does(j)
              /\ c.pc = "delay" => j = "autosave"
              /\ c.pc = "thinking" => j = "ai"

DutyInv ==
  /\ \A j \in Jobs : Duty(j, job[j])
  /\ ~open => noteId = 0 /\ note = 0 /\ \A j \in Jobs : job[j] = Ended
  /\ screen.summary = 0

(* Room's queue: a write is that of the coroutine that waits for it, and     *)
(* only the one at the head may have lost its own during the visit.          *)
Queued == {writes[i] : i \in 1..Len(writes)}

Waited(w) ==
  /\ w.id < nextId /\ (w.op = "insert" <=> w.id = 0)
  /\ w.by \in Jobs => /\ job[w.by].pc = "call" /\ job[w.by].op = w.op
                      /\ job[w.by].id = w.id /\ job[w.by].row = w.row
  /\ w.by = "nobody" /\ open => w.op \in {"insert", "update"}
  /\ w.by = "left" => w.id \notin inserted

WaitInv == \A w \in Queued : Waited(w)

InTurn(ws) ==
  /\ \A i \in 1..Len(ws) : ws[i].by = "nobody" => i = 1
  /\ \A i, k \in 1..Len(ws) : ws[i].by = ws[k].by /\ ws[i].by \in Jobs => i = k

QueueInv == WaitInv /\ InTurn(writes)

(* While no insert is cut short or doubled, one coroutine at most makes the  *)
(* note of the visit, and all others work on the note it has made.           *)
Whole == "insert" \notin mishaps

Making(j) == InCall(job[j], {"insert"})
Loading   == InCall(job["load"], {"load"})

MakerInv ==
  /\ \A j \in Jobs : Making(j) =>
       /\ noteId = 0 /\ ~Loading
       /\ inserted = IF job[j].pc = "call" THEN {} ELSE {job[j].id}
       /\ \A k \in Jobs : Making(k) => k = j
  /\ Loading => noteId = 0 /\ opened # 0
  /\ noteId = 0 /\ (\A j \in Jobs : ~Making(j)) /\ open => inserted = {}
  /\ noteId # 0 => inserted \subseteq {noteId}
  /\ \A i, k \in inserted : i = k
  /\ \A w \in Queued : w.by = "nobody" => w.op # "insert"

(* The opened note: it is being loaded, or it is the note, or it is gone.    *)
LoadInv ==
  /\ open /\ opened \in DOMAIN rows =>
       IF noteId = 0 THEN Loading /\ job["load"].id = opened ELSE noteId = opened
  /\ Loading => job["load"].id \in {0, opened}
  /\ noteId # 0 => noteId \in inserted \cup {opened}

(* A call is about the note, unless it has found the note gone.              *)
About(c) ==
  noteId # 0 /\ \/ c.id = noteId
                \/ c.id = 0 /\ c.pc = "back" /\ noteId \notin DOMAIN rows

CallInv ==
  /\ \A j \in Jobs : InCall(job[j], {"existing", "reread", "summarized", "update",
                                     "setPinned", "delete"}) => About(job[j])
  /\ \A d \in Deletes : job[d].pc = "back" => noteId \notin DOMAIN rows
  /\ note \in {0, noteId}
  /\ \A w \in Queued : open /\ w.by = "nobody" => w.id = noteId

(* Nothing but the writes that an earlier visit left behind touches the      *)
(* opened note before it is loaded.                                          *)
Undisturbed == {"insert", "late"} \cap mishaps = {}
OpenedInv == opened # 0 =>
  /\ inserted = {}
  /\ open => noteId = opened \/ Loading
  /\ Loading => /\ job["load"].id = opened /\ opened \in DOMAIN rows
                /\ job["load"].pc = "back" => job["load"].row = rows[opened]

(* Delete finds the note that there is, or nobody is left to make one.       *)
Clean == mishaps \cap {"insert", "reread", "unread"} = {}
Rereading == \E j \in Jobs : InCall(job[j], {"reread"})
NoteInv == open /\ noteId \in DOMAIN rows => note = noteId \/ Rereading
GoneInv == deleting => (inserted \cup {opened}) \cap DOMAIN rows = {}
DoneInv == deleting => noteId # 0 \/ \A j \in Jobs : job[j].pc = "none"

(* What is on screen is stored, or on its way.                               *)
Orderly == mishaps \cap {"insert", "crossed", "late"} = {}

Match(r, s) == r.text = s.text /\ r.tags = s.tags
Pending == job["autosave"].pc = "delay"
Saving(c) == InCall(c, {"existing"}) \/ (c.op = "update" /\ c.pc = "call")
HasRead(c) == InCall(c, {"existing", "summarized"}) /\ c.pc = "back"

FirstInv == \A j \in Jobs : Making(j) =>
  /\ Match(job[j].row, screen) \/ Pending
  /\ job[j].row.pinned = screen.pinned
  /\ job[j].pc = "back" => job[j].id \in DOMAIN rows /\ rows[job[j].id] = job[j].row

CopyInv ==
  /\ \A j \in Jobs : /\ HasRead(job[j]) \/ (job[j].op = "update" /\ job[j].pc = "call") =>
                          job[j].row.pinned = rows[noteId].pinned
                     /\ HasRead(job[j]) /\ job[j].op = "summarized" =>
                          Match(job[j].row, rows[noteId])
  /\ \A w \in Queued : w.by = "nobody" => w.row.pinned = rows[noteId].pinned

HasPin(ws) == \E i \in 1..Len(ws) : ws[i].by \in Pins
LastPin(ws, i) == ws[i].by \in Pins /\ \A k \in 1..Len(ws) : ws[k].by \in Pins => k <= i

Held == \/ Pending
        \/ \E j \in Jobs : Saving(job[j]) /\ Match(job[j].row, screen)
        \/ /\ Match(rows[noteId], screen)
           /\ \A j \in Jobs : ~Saving(job[j])
           /\ \A w \in Queued : w.by # "nobody"
PinHeld == /\ \A i \in 1..Len(writes) :
                LastPin(writes, i) => writes[i].row.pinned = screen.pinned
           /\ ~HasPin(writes) => rows[noteId].pinned = screen.pinned
ScreenInv == Held /\ PinHeld

WholeInv == Whole => MakerInv /\ LoadInv /\ CallInv
VisitInv == Undisturbed => OpenedInv
DeleteInv == Clean => NoteInv /\ GoneInv /\ DoneInv
ShownInv == open /\ Orderly =>
              FirstInv /\ (noteId \in DOMAIN rows => CopyInv /\ ScreenInv)

IInv == Types /\ DutyInv /\ QueueInv /\ WholeInv /\ VisitInv /\ DeleteInv /\ ShownInv

-----------------------------------------------------------------------------
(* Coroutines and the queue.                                                 *)

\* Coroutine j goes on with c, and all the others stay.
Sets(j, c) == job'[j] = c /\ \A k \in Jobs \ {j} : job'[k] = job[k]

LEMMA TypeFacts ==
  ASSUME Types
  PROVE  /\ nextId \in Nat \ {0} /\ DOMAIN rows \subseteq 1..(nextId - 1)
         /\ rows \in [DOMAIN rows -> Row] /\ \A i \in DOMAIN rows : rows[i] \in Row
         /\ 0 \notin DOMAIN rows /\ nextId \notin DOMAIN rows
         /\ noteId \in Nat /\ note \in Nat /\ opened \in Nat /\ inserted \subseteq Nat
         /\ noteId < nextId /\ note < nextId /\ opened < nextId
         /\ nextId \notin inserted /\ 0 \notin inserted
         /\ screen \in Row
         /\ \A j \in Jobs : job[j] \in Coroutine /\ job[j].id < nextId /\ job[j].row \in Row
         /\ Len(writes) \in Nat /\ \A i \in 1..Len(writes) : writes[i] \in Record
         /\ \A w \in Queued : w \in Record /\ w.row \in Row /\ w.id \in Nat
<1>1. nextId \in Nat \ {0} /\ DOMAIN rows \subseteq 1..(nextId - 1) /\ rows \in [DOMAIN rows -> Row]
      /\ noteId \in 0..(nextId - 1) /\ note \in 0..(nextId - 1) /\ opened \in 0..(nextId - 1)
      /\ inserted \subseteq 1..(nextId - 1) /\ screen \in Row
  BY DEF Types, TypeOK
<1>2. \A j \in Jobs : job[j] \in Coroutine /\ job[j].id \in 0..(nextId - 1) /\ job[j].row \in Row
  BY DEF Types, TypeOK, Coroutine
<1>3. Len(writes) \in Nat /\ \A i \in 1..Len(writes) : writes[i] \in Record
  BY DEF Types
<1>4. \A w \in Queued : w \in Record /\ w.row \in Row /\ w.id \in Nat
  BY <1>3 DEF Queued, Record
<1> QED BY <1>1, <1>2, <1>3, <1>4

LEMMA BlankIsRow == Blank \in Row /\ Ended \in Coroutine /\ Ended.pc = "none"
BY EditorAssumption DEF Blank, Row, Ended, Coroutine, Ops

LEMMA GoFacts ==
  ASSUME Types, NEW j \in Jobs, NEW c \in Coroutine, Go(j, c)
  PROVE  job' \in [Jobs -> Coroutine] /\ Sets(j, c)
BY DEF Types, Go, Sets

\* A coroutine that goes on to a write issues it, after those there are.
Issued(w) ==
  /\ w \in Record /\ writes' \in Seq(Record) /\ Len(writes') = Len(writes) + 1
  /\ writes'[Len(writes) + 1] = w
  /\ \A i \in 1..Len(writes) : writes'[i] = writes[i]
  /\ Queued' = Queued \cup {w}

LEMMA IssueFacts ==
  ASSUME Types, NEW j \in Jobs, NEW o \in Writes, NEW id \in Nat, NEW row \in Row,
         Go(j, Call(o, id, row)), writes' = Append(writes, Write(j))
  PROVE  /\ job' \in [Jobs -> Coroutine] /\ Sets(j, Call(o, id, row))
         /\ Issued([by |-> j, op |-> o, id |-> id, row |-> row])
<1> DEFINE w == [by |-> j, op |-> o, id |-> id, row |-> row]
<1>1. Call(o, id, row) \in Coroutine
  BY DEF Call, Coroutine, Writes, Ops
<1>2. job' \in [Jobs -> Coroutine] /\ Sets(j, Call(o, id, row))
  BY <1>1, GoFacts
<1>3. writes' = Append(writes, w)
  BY <1>2 DEF Write, Call, Sets
<1>4. w \in Record /\ writes \in Seq(Record)
  BY DEF Record, Types
<1> HIDE DEF w
<1>5. /\ writes' \in Seq(Record) /\ Len(writes') = Len(writes) + 1 /\ Len(writes) \in Nat
      /\ writes'[Len(writes) + 1] = w /\ \A i \in 1..Len(writes) : writes'[i] = writes[i]
  BY <1>3, <1>4
<1>6. Queued' = Queued \cup {w}
  BY <1>5 DEF Queued
<1> QED BY <1>2, <1>4, <1>5, <1>6 DEF Issued, w

\* What is left of the queue when the coroutines of J are cancelled.
Orphan(w, v) == /\ v.by = "nobody" /\ v.op = w.op /\ v.id = w.id /\ v.row = w.row
SamePins(ws) ==
  /\ \A i \in 1..Len(ws) :
       LastPin(ws, i) => \E k \in 1..Len(writes) : LastPin(writes, k) /\ ws[i] = writes[k]
  /\ HasPin(writes) => HasPin(ws)
Cut(J, ws) ==
  /\ ws \in Seq(Record) /\ InTurn(ws)
  /\ J \cap Pins = {} => SamePins(ws)
  /\ \A i \in 1..Len(ws) : \E w \in Queued :
       \/ ws[i] = w /\ w.by \notin J
       \/ w.by \in J /\ Orphan(w, ws[i])

LEMMA KeptFacts ==
  ASSUME Types, InTurn(writes), NEW J \in SUBSET Jobs, NEW ws \in Kept(J)
  PROVE  Cut(J, ws)
<1> DEFINE n == Len(writes)
           others == {i \in DOMAIN writes : writes[i].by \notin J}
<1>1. n \in Nat /\ writes \in Seq(Record) /\ DOMAIN writes = 1..n
      /\ \A i \in 1..n : writes[i] \in Record
  BY DEF Types
<1>2. Cardinality(others) \in Nat
  <2>1. IsFiniteSet(1..n)
    BY <1>1, FS_Interval
  <2> QED BY <1>1, <2>1, FS_Subset, FS_CardinalityType
<1>3. ASSUME NEW f \in InOrder(others), NEW r, r = [k \in DOMAIN f |-> writes[f[k]]]
      PROVE  /\ r \in Seq(Record) /\ Len(r) \in Nat
             /\ \A i \in 1..Len(r) : f[i] \in others /\ r[i] = writes[f[i]]
             /\ \A i, k \in 1..Len(r) : f[i] = f[k] => i = k
             /\ \A i \in 1..Len(r) : f[i] = 1 => i = 1
             /\ \A i, k \in 1..Len(r) : i < k => f[i] < f[k]
             /\ \A a \in others : \E i \in 1..Len(r) : f[i] = a
  <2> DEFINE m == Cardinality(others)
  <2>1. f \in [1..m -> others] /\ \A a, b \in 1..m : a < b => f[a] < f[b]
    BY <1>3 DEF InOrder
  <2> HIDE DEF m
  <2>2. m \in Nat
    BY <1>2 DEF m
  <2>3. r \in [1..m -> Record]
    BY <1>1, <1>3, <2>1
  <2>4. r \in Seq(Record) /\ Len(r) = m
    BY <2>2, <2>3
  <2>5. \A i \in 1..m : f[i] \in others /\ f[i] \in Nat \ {0} /\ r[i] = writes[f[i]]
    BY <1>1, <1>3, <2>1
  <2>6. ASSUME NEW i \in 1..m, NEW k \in 1..m, f[i] = f[k]
        PROVE  i = k
    BY <2>1, <2>2, <2>5, <2>6
  <2>7. ASSUME NEW i \in 1..m, f[i] = 1
        PROVE  i = 1
    <3>1. 1 \in 1..m
      BY <2>2
    <3>2. ~(1 < i)
      BY <2>1, <2>5, <2>7, <3>1
    <3> QED BY <2>2, <3>2
  <2>8. \A a \in others : \E i \in 1..m : f[i] = a
    <3>1. f \in Injection(1..m, others)
      BY <2>1, <2>6 DEF Injection, IsInjective
    <3>2. IsFiniteSet(others) /\ IsFiniteSet(1..m) /\ Cardinality(1..m) = m
      <4>1. IsFiniteSet(1..n)
        BY <1>1, FS_Interval
      <4>2. IsFiniteSet(others)
        BY <1>1, <4>1, FS_Subset
      <4> QED BY <2>2, <4>2, FS_Interval
    <3>3. f \in Surjection(1..m, others)
      BY <3>1, <3>2, FS_Injection DEF m
    <3> QED BY <3>3 DEF Surjection
  <2> QED BY <2>1, <2>2, <2>4, <2>5, <2>6, <2>7, <2>8
<1>4. CASE \E f \in InOrder(others) : ws = [k \in DOMAIN f |-> writes[f[k]]]
  <2>1. PICK f \in InOrder(others) : ws = [k \in DOMAIN f |-> writes[f[k]]]
    BY <1>4
  <2>2. /\ ws \in Seq(Record) /\ Len(ws) \in Nat
        /\ \A i \in 1..Len(ws) : f[i] \in others /\ ws[i] = writes[f[i]]
        /\ \A i, k \in 1..Len(ws) : f[i] = f[k] => i = k
        /\ \A i \in 1..Len(ws) : f[i] = 1 => i = 1
        /\ \A i, k \in 1..Len(ws) : i < k => f[i] < f[k]
        /\ \A a \in others : \E i \in 1..Len(ws) : f[i] = a
    BY <1>3, <2>1
  <2>3. InTurn(ws)
    <3>1. \A i \in 1..Len(ws) : f[i] \in 1..n /\ ws[i] = writes[f[i]]
      BY <1>1, <2>2
    <3>2. ASSUME NEW i \in 1..Len(ws), ws[i].by = "nobody"
          PROVE  i = 1
      <4>1. f[i] = 1
        BY <3>1, <3>2 DEF InTurn
      <4> QED BY <2>2, <4>1
    <3>3. ASSUME NEW i \in 1..Len(ws), NEW k \in 1..Len(ws), ws[i].by = ws[k].by, ws[i].by \in Jobs
          PROVE  i = k
      <4>1. f[i] = f[k]
        BY <3>1, <3>3 DEF InTurn
      <4> QED BY <2>2, <4>1
    <3> QED BY <3>2, <3>3 DEF InTurn
  <2>4. \A i \in 1..Len(ws) : ws[i] \in Queued /\ ws[i].by \notin J
    BY <1>1, <2>2 DEF Queued
  <2>5. ASSUME J \cap Pins = {} PROVE SamePins(ws)
    <3>1. ASSUME NEW a \in 1..n, writes[a].by \in Pins
          PROVE  \E k \in 1..Len(ws) : f[k] = a /\ ws[k].by \in Pins
      <4>1. a \in others
        BY <1>1, <2>5, <3>1
      <4>2. PICK k \in 1..Len(ws) : f[k] = a
        BY <2>2, <4>1
      <4> QED BY <2>2, <3>1, <4>2
    <3>2. ASSUME NEW i \in 1..Len(ws), LastPin(ws, i)
          PROVE  f[i] \in 1..n /\ LastPin(writes, f[i]) /\ ws[i] = writes[f[i]]
      <4>1. f[i] \in 1..n /\ ws[i] = writes[f[i]]
        BY <1>1, <2>2
      <4>2. ASSUME NEW a \in 1..n, writes[a].by \in Pins
            PROVE  a <= f[i]
        <5>1. PICK k \in 1..Len(ws) : f[k] = a /\ ws[k].by \in Pins
          BY <3>1, <4>2
        <5>2. k <= i
          BY <3>2, <5>1 DEF LastPin
        <5>3. k = i \/ a < f[i]
          BY <2>2, <5>1, <5>2
        <5> QED BY <4>1, <4>2, <5>1, <5>3
      <4> QED BY <3>2, <4>1, <4>2 DEF LastPin
    <3>3. HasPin(writes) => HasPin(ws)
      BY <3>1 DEF HasPin
    <3> QED BY <3>2, <3>3 DEF SamePins
  <2> QED BY <2>2, <2>3, <2>4, <2>5 DEF Cut
<1>5. CASE /\ writes # <<>> /\ Head(writes).by \in J
           /\ \E f \in InOrder(others) :
                ws = <<[Head(writes) EXCEPT !.by = "nobody"]>> \o [k \in DOMAIN f |-> writes[f[k]]]
  <2>1. PICK f \in InOrder(others) :
          ws = <<[Head(writes) EXCEPT !.by = "nobody"]>> \o [k \in DOMAIN f |-> writes[f[k]]]
    BY <1>5
  <2> DEFINE r == [k \in DOMAIN f |-> writes[f[k]]]
             v == [Head(writes) EXCEPT !.by = "nobody"]
  <2>2. /\ r \in Seq(Record) /\ Len(r) \in Nat
        /\ \A i \in 1..Len(r) : f[i] \in others /\ r[i] = writes[f[i]]
        /\ \A i, k \in 1..Len(r) : f[i] = f[k] => i = k
        /\ \A i, k \in 1..Len(r) : i < k => f[i] < f[k]
        /\ \A a \in others : \E i \in 1..Len(r) : f[i] = a
    BY <1>3
  <2>3. Head(writes) = writes[1] /\ 1 \in 1..n /\ writes[1] \in Record /\ writes[1].by \in J
    BY <1>1, <1>5
  <2>4. v \in Record /\ Orphan(writes[1], v)
    BY <2>3 DEF Record, Orphan
  <2> HIDE DEF r, v
  <2>5. /\ ws \in Seq(Record) /\ Len(ws) = Len(r) + 1 /\ ws[1] = v
        /\ \A i \in 1..Len(r) : ws[i + 1] = r[i]
    <3>1. ws = <<v>> \o r
      BY <2>1 DEF r, v
    <3> QED BY <2>2, <2>4, <3>1
  <2>6. \A i \in 1..Len(ws) : i # 1 => i - 1 \in 1..Len(r) /\ ws[i] = r[i - 1]
    BY <2>2, <2>5
  <2>7. \A i \in 1..Len(r) : f[i] # 1
    BY <2>2, <2>3
  <2>8. \A i \in 1..Len(ws) : i # 1 => ws[i] \in Queued /\ ws[i].by \notin J /\ ws[i].by # "nobody"
    BY <1>1, <2>2, <2>6, <2>7 DEF Queued, InTurn
  <2>9. ASSUME NEW i \in 1..Len(ws), NEW k \in 1..Len(ws), ws[i].by = ws[k].by, ws[i].by \in Jobs
        PROVE  i = k
    <3>1. ws[1].by = "nobody" /\ "nobody" \notin Jobs
      BY <2>4, <2>5 DEF Orphan, Jobs, Pins, Deletes
    <3>2. i # 1 /\ k # 1
      BY <2>9, <3>1
    <3> DEFINE a == f[i - 1]
               b == f[k - 1]
    <3>3. /\ i - 1 \in 1..Len(r) /\ k - 1 \in 1..Len(r) /\ a \in 1..n /\ b \in 1..n
          /\ ws[i] = writes[a] /\ ws[k] = writes[b]
      BY <1>1, <2>2, <2>6, <3>2
    <3>4. a = b
      BY <2>9, <3>3 DEF InTurn
    <3> QED BY <2>2, <2>5, <3>2, <3>3, <3>4
  <2>10. InTurn(ws)
    BY <2>8, <2>9 DEF InTurn
  <2>11. writes[1] \in Queued
    BY <2>3 DEF Queued
  <2>12. ASSUME J \cap Pins = {} PROVE SamePins(ws)
    <3>1. ASSUME NEW a \in 1..n, writes[a].by \in Pins
          PROVE  \E k \in 1..Len(r) : f[k] = a /\ ws[k + 1].by \in Pins
      <4>1. a \in others
        BY <1>1, <2>12, <3>1
      <4>2. PICK k \in 1..Len(r) : f[k] = a
        BY <2>2, <4>1
      <4> QED BY <2>2, <2>5, <3>1, <4>2
    <3>2. ASSUME NEW i \in 1..Len(ws), LastPin(ws, i)
          PROVE  f[i - 1] \in 1..n /\ LastPin(writes, f[i - 1]) /\ ws[i] = writes[f[i - 1]]
      <4>1. i # 1
        BY <2>4, <2>5, <3>2 DEF Orphan, LastPin, Pins
      <4>2. i - 1 \in 1..Len(r) /\ f[i - 1] \in 1..n /\ ws[i] = writes[f[i - 1]]
        BY <1>1, <2>2, <2>6, <4>1
      <4>3. ASSUME NEW a \in 1..n, writes[a].by \in Pins
            PROVE  a <= f[i - 1]
        <5>1. PICK k \in 1..Len(r) : f[k] = a /\ ws[k + 1].by \in Pins
          BY <3>1, <4>3
        <5>2. k + 1 \in 1..Len(ws) /\ k + 1 <= i
          BY <2>2, <2>5, <3>2, <5>1 DEF LastPin
        <5>3. k = i - 1 \/ k < i - 1
          BY <5>2, <4>2
        <5>4. k = i - 1 \/ a < f[i - 1]
          BY <2>2, <4>2, <5>1, <5>3
        <5> QED BY <4>2, <4>3, <5>1, <5>4
      <4> QED BY <3>2, <4>2, <4>3 DEF LastPin
    <3>3. HasPin(writes) => HasPin(ws)
      <4>1. \A k \in 1..Len(r) : k + 1 \in 1..Len(ws)
        BY <2>2, <2>5
      <4> QED BY <3>1, <4>1 DEF HasPin
    <3> QED BY <3>2, <3>3 DEF SamePins
  <2> QED BY <2>3, <2>4, <2>5, <2>8, <2>10, <2>11, <2>12 DEF Cut
<1> QED BY <1>4, <1>5 DEF Kept

LEMMA CallingIs ==
  ASSUME NEW j, NEW ops
  PROVE  Calling(j, ops) <=> InCall(job[j], ops)
BY DEF Calling, Active, InCall

\* An autosave or the language model saves; what it was doing is cut short.
LEMMA SaveFacts ==
  ASSUME Types, QueueInv, NEW j \in {"autosave", "ai"}, NEW J, NEW scr \in Row, Save(j, J, scr),
         J = {j} \/ (J = {} /\ job[j].pc # "call")
  PROVE  LET w == [by |-> j, op |-> "insert", id |-> 0, row |-> scr] IN
         /\ job' \in [Jobs -> Coroutine]
         /\ Sets(j, IF noteId = 0 THEN Call("insert", 0, scr) ELSE Call("existing", noteId, scr))
         /\ writes' \in Seq(Record) /\ InTurn(writes')
         /\ \A v \in Queued' :
              \/ v \in Queued /\ v.by # j
              \/ J = {j} /\ \E u \in Queued : u.by = j /\ Orphan(u, v)
              \/ noteId = 0 /\ v = w
         /\ mishaps \subseteq mishaps' /\ mishaps' \subseteq mishaps \cup Mishaps
         /\ "insert" \notin mishaps' =>
              /\ J = {j} => ~Making(j)
              /\ noteId = 0 => \A k \in Jobs \ {j} : ~InCall(job[k], {"insert", "load"})
         /\ "reread" \notin mishaps' => (J = {j} => ~InCall(job[j], {"reread"}))
         /\ SamePins(writes') /\ UNCHANGED inserted
<1> DEFINE w == [by |-> j, op |-> "insert", id |-> 0, row |-> scr]
           c == IF noteId = 0 THEN Call("insert", 0, scr) ELSE Call("existing", noteId, scr)
<1>0. j \in Jobs /\ J \in SUBSET Jobs /\ J \subseteq {j} /\ noteId \in Nat
  BY TypeFacts DEF Jobs
<1>1. PICK ws \in Kept(J) :
        /\ job' = [k \in Jobs |-> IF k = j THEN c ELSE IF k \in J THEN Ended ELSE job[k]]
        /\ writes' = IF noteId = 0 THEN Append(ws, Write(j)) ELSE ws
        /\ mishaps' = mishaps \cup CutShort(J)
                        \cup (IF noteId = 0 THEN DoubleInsert(J \cup {j}) ELSE {})
  BY DEF Save
<1>2. Call("insert", 0, scr) \in Coroutine /\ Call("existing", noteId, scr) \in Coroutine
  BY <1>0 DEF Call, Coroutine, Ops, Reads
<1>3. job' \in [Jobs -> Coroutine] /\ Sets(j, c)
  BY <1>0, <1>1, <1>2 DEF Types, Sets
<1>4. Cut(J, ws)
  BY <1>0, KeptFacts DEF QueueInv
<1>5. \A u \in Queued : u.by = j => J = {j}
  BY <1>0 DEF QueueInv, WaitInv, Waited
<1>6. \A i \in 1..Len(ws) :
        /\ ws[i].by # j
        /\ \/ ws[i] \in Queued
           \/ J = {j} /\ \E u \in Queued : u.by = j /\ Orphan(u, ws[i])
  <2> TAKE i \in 1..Len(ws)
  <2>1. PICK u \in Queued : (ws[i] = u /\ u.by \notin J) \/ (u.by \in J /\ Orphan(u, ws[i]))
    BY <1>4 DEF Cut
  <2>2. CASE ws[i] = u /\ u.by \notin J
    BY <1>5, <2>2
  <2>3. CASE u.by \in J /\ Orphan(u, ws[i])
    BY <1>0, <2>3 DEF Orphan
  <2> QED BY <2>1, <2>2, <2>3
<1>7. ws \in Seq(Record) /\ Len(ws) \in Nat /\ InTurn(ws)
  BY <1>4 DEF Cut
<1>8. /\ writes' \in Seq(Record) /\ InTurn(writes')
      /\ \A v \in Queued' : (\E i \in 1..Len(ws) : v = ws[i]) \/ (noteId = 0 /\ v = w)
  <2>1. CASE noteId # 0
    BY <1>1, <1>7, <2>1 DEF Queued
  <2>2. CASE noteId = 0
    <3>1. writes' = Append(ws, w)
      BY <1>0, <1>1, <1>3, <2>2 DEF Write, Call, Sets
    <3>2. w \in Record /\ w.by = j
      BY <1>0 DEF Record, Writes
    <3> HIDE DEF w
    <3>3. /\ writes' \in Seq(Record) /\ Len(writes') = Len(ws) + 1
          /\ writes'[Len(ws) + 1] = w /\ \A i \in 1..Len(ws) : writes'[i] = ws[i]
      BY <1>7, <3>1, <3>2
    <3>4. \A i \in 1..Len(writes') : i = Len(ws) + 1 \/ i \in 1..Len(ws)
      BY <1>7, <3>3
    <3>5. InTurn(writes')
      BY <1>0, <1>6, <1>7, <3>2, <3>3, <3>4 DEF InTurn, Jobs
    <3>6. \A v \in Queued' : (\E i \in 1..Len(ws) : v = ws[i]) \/ v = w
      BY <3>3, <3>4 DEF Queued
    <3> QED BY <2>2, <3>3, <3>5, <3>6
  <2> QED BY <2>1, <2>2
<1>9. \A v \in Queued' :
        \/ v \in Queued /\ v.by # j
        \/ J = {j} /\ \E u \in Queued : u.by = j /\ Orphan(u, v)
        \/ noteId = 0 /\ v = w
  BY <1>6, <1>8
<1>10. mishaps \subseteq mishaps' /\ mishaps' \subseteq mishaps \cup Mishaps
  BY <1>1 DEF CutShort, DoubleInsert, Mishaps
<1>11. "insert" \notin mishaps' =>
              /\ J = {j} => ~Making(j)
              /\ noteId = 0 => \A k \in Jobs \ {j} : ~InCall(job[k], {"insert", "load"})
  <2> SUFFICES ASSUME "insert" \notin mishaps'
               PROVE  /\ J = {j} => ~Making(j)
                      /\ noteId = 0 => \A k \in Jobs \ {j} : ~InCall(job[k], {"insert", "load"})
    OBVIOUS
  <2>1. "insert" \notin CutShort(J) /\ (noteId = 0 => "insert" \notin DoubleInsert(J \cup {j}))
    BY <1>1
  <2>2. \A k \in J : ~Calling(k, {"insert"})
    BY <2>1 DEF CutShort
  <2>3. noteId = 0 => \A k \in Jobs \ (J \cup {j}) : ~Calling(k, {"insert", "load"})
    BY <2>1 DEF DoubleInsert
  <2> QED BY <1>0, <2>2, <2>3, CallingIs DEF Making
<1>12. "reread" \notin mishaps' => (J = {j} => ~InCall(job[j], {"reread"}))
  <2>1. "reread" \notin mishaps' => \A k \in J : ~Calling(k, {"reread"})
    BY <1>1 DEF CutShort
  <2> QED BY <2>1, CallingIs
<1>13. UNCHANGED inserted
  BY DEF Save
<1>14. SamePins(writes')
  <2>1. SamePins(ws)
    BY <1>0, <1>4 DEF Cut, Pins
  <2>2. CASE noteId # 0
    BY <1>1, <2>1, <2>2
  <2>3. CASE noteId = 0
    <3>1. writes' = Append(ws, w)
      BY <1>0, <1>1, <1>3, <2>3 DEF Write, Call, Sets
    <3>2. w \in Record /\ w.by \notin Pins
      BY <1>0 DEF Record, Writes, Pins
    <3> HIDE DEF w
    <3>3. /\ Len(writes') = Len(ws) + 1 /\ writes'[Len(ws) + 1].by \notin Pins
          /\ \A i \in 1..Len(ws) : writes'[i] = ws[i]
      BY <1>7, <3>1, <3>2
    <3>4. \A i \in 1..Len(writes') : i = Len(ws) + 1 \/ i \in 1..Len(ws)
      BY <1>7, <3>3
    <3>5. \A i \in 1..Len(ws) : i \in 1..Len(writes')
      BY <1>7, <3>3
    <3>6. HasPin(ws) => HasPin(writes')
      BY <3>3, <3>5 DEF HasPin
    <3>7. \A i \in 1..Len(writes') :
            LastPin(writes', i) => i \in 1..Len(ws) /\ LastPin(ws, i) /\ writes'[i] = ws[i]
      BY <3>3, <3>4, <3>5 DEF LastPin
    <3> QED BY <2>1, <3>6, <3>7 DEF SamePins
  <2> QED BY <2>2, <2>3
<1> QED BY <1>3, <1>8, <1>9, <1>10, <1>11, <1>12, <1>13, <1>14

LEMMA ClearedFacts ==
  ASSUME Types, QueueInv, Cleared
  PROVE  /\ open /\ open' = FALSE /\ popped' = FALSE
         /\ noteId' = 0 /\ note' = 0 /\ screen' = Blank
         /\ job' \in [Jobs -> Coroutine] /\ \A j \in Jobs : job'[j] = Ended
         /\ writes' \in Seq(Record) /\ InTurn(writes')
         /\ \A v \in Queued' : \E w \in Queued :
              (v = w /\ w.by \notin Jobs) \/ (w.by \in Jobs /\ Orphan(w, v))
         /\ mishaps \subseteq mishaps' /\ mishaps' \subseteq mishaps \cup Mishaps
         /\ "insert" \notin mishaps' => \A j \in Jobs : ~InCall(job[j], {"insert"})
         /\ UNCHANGED <<rows, nextId, opened, inserted, deleting>>
<1>1. job' \in [Jobs -> Coroutine] /\ \A j \in Jobs : job'[j] = Ended
  BY BlankIsRow DEF Cleared
<1>2. Cut(Jobs, writes')
  BY KeptFacts DEF Cleared, QueueInv
<1>3. mishaps \subseteq mishaps' /\ mishaps' \subseteq mishaps \cup Mishaps
  BY DEF Cleared, CutShort, Mishaps
<1>4. "insert" \notin mishaps' => \A j \in Jobs : ~InCall(job[j], {"insert"})
  BY CallingIs DEF Cleared, CutShort
<1>5. \A v \in Queued' : \E w \in Queued :
        (v = w /\ w.by \notin Jobs) \/ (w.by \in Jobs /\ Orphan(w, v))
  BY <1>2 DEF Cut, Queued
<1>6. /\ open /\ open' = FALSE /\ popped' = FALSE /\ noteId' = 0 /\ note' = 0 /\ screen' = Blank
      /\ UNCHANGED <<rows, nextId, opened, inserted, deleting>>
  BY DEF Cleared, table
<1> QED BY <1>1, <1>2, <1>3, <1>4, <1>5, <1>6 DEF Cut

LEMMA OpenFacts ==
  ASSUME Types, NEW id \in Nat, Open(id)
  PROVE  /\ job' \in [Jobs -> Coroutine] /\ \A j \in Jobs \ {"load"} : job'[j] = Ended
         /\ job'["load"] = IF id # 0 THEN Call("load", id, Blank) ELSE Ended
         /\ writes' \in Seq(Record) /\ InTurn(writes')
         /\ \A v \in Queued' : /\ v.by = "left"
                               /\ \E w \in Queued : v.op = w.op /\ v.id = w.id /\ v.row = w.row
<1>1. Call("load", id, Blank) \in Coroutine /\ Ended \in Coroutine
  BY BlankIsRow DEF Call, Coroutine, Ops, Reads
<1>2. job' \in [Jobs -> Coroutine] /\ (\A j \in Jobs \ {"load"} : job'[j] = Ended)
      /\ job'["load"] = IF id # 0 THEN Call("load", id, Blank) ELSE Ended
  BY <1>1 DEF Open, Jobs
<1>3. Len(writes) \in Nat /\ DOMAIN writes = 1..Len(writes)
  BY DEF Types
<1> DEFINE left(i) == [writes[i] EXCEPT !.by = "left"]
<1>4. \A i \in 1..Len(writes) :
        /\ left(i) \in Record /\ left(i).by = "left" /\ left(i).op = writes[i].op
        /\ left(i).id = writes[i].id /\ left(i).row = writes[i].row
  BY TypeFacts DEF Record
<1>5. /\ writes' \in Seq(Record) /\ Len(writes') = Len(writes)
      /\ \A i \in 1..Len(writes) : writes'[i].by = "left" /\ writes'[i].op = writes[i].op
                                   /\ writes'[i].id = writes[i].id /\ writes'[i].row = writes[i].row
  <2>1. writes' = [i \in 1..Len(writes) |-> left(i)]
    BY <1>3 DEF Open
  <2> HIDE DEF left
  <2>2. writes' \in [1..Len(writes) -> Record] /\ \A i \in 1..Len(writes) : writes'[i] = left(i)
    BY <1>4, <2>1
  <2>3. writes' \in Seq(Record) /\ Len(writes') = Len(writes)
    BY <1>3, <2>2
  <2> QED BY <1>4, <2>2, <2>3
<1>6. InTurn(writes')
  BY <1>5 DEF InTurn, Jobs, Pins, Deletes
<1>7. \A v \in Queued' : /\ v.by = "left"
                         /\ \E w \in Queued : v.op = w.op /\ v.id = w.id /\ v.row = w.row
  BY <1>5 DEF Queued
<1> QED BY <1>2, <1>5, <1>6, <1>7

LEMMA AfterReadFacts ==
  ASSUME NEW o, NEW draft \in Row, NEW stored \in Row
  PROVE  /\ AfterRead(o, draft, stored) \in Row
         /\ o = "existing" => /\ Match(AfterRead(o, draft, stored), draft)
                              /\ AfterRead(o, draft, stored).pinned = stored.pinned
         /\ o = "summarized" => /\ Match(AfterRead(o, draft, stored), stored)
                                /\ AfterRead(o, draft, stored).pinned = stored.pinned
         /\ o = "load" => AfterRead(o, draft, stored) = stored
<1>1. CASE o = "existing"
  BY <1>1 DEF AfterRead, Row, Match
<1>2. CASE o = "summarized"
  BY <1>2 DEF AfterRead, Row, Match
<1>3. CASE o \notin {"existing", "summarized"}
  BY <1>3 DEF AfterRead
<1> QED BY <1>1, <1>2, <1>3

LEMMA ReadFacts ==
  ASSUME Types, NEW j \in Jobs, ReadRow(j)
  PROVE  /\ job[j].pc = "call" /\ job[j].op \in Reads
         /\ job' \in [Jobs -> Coroutine] /\ \A k \in Jobs \ {j} : job'[k] = job[k]
         /\ job'[j].pc = "back" /\ job'[j].op = job[j].op
         /\ job[j].id \notin DOMAIN rows => job'[j].id = 0
         /\ job[j].id \in DOMAIN rows =>
              /\ job'[j].id = job[j].id
              /\ job[j].op = "existing" => /\ Match(job'[j].row, job[j].row)
                                           /\ job'[j].row.pinned = rows[job[j].id].pinned
              /\ job[j].op = "summarized" => /\ Match(job'[j].row, rows[job[j].id])
                                             /\ job'[j].row.pinned = rows[job[j].id].pinned
              /\ job[j].op = "load" => job'[j].row = rows[job[j].id]
<1> DEFINE c == job[j]
           row == AfterRead(c.op, c.row, rows[c.id])
<1>1. c \in Coroutine /\ c.pc = "call" /\ c.op \in Reads /\ c.row \in Row /\ c.op \in Ops
  BY TypeFacts DEF ReadRow, Coroutine
<1>2. c.id \in DOMAIN rows =>
        /\ rows[c.id] \in Row /\ row \in Row
        /\ c.op = "existing" => Match(row, c.row) /\ row.pinned = rows[c.id].pinned
        /\ c.op = "summarized" => Match(row, rows[c.id]) /\ row.pinned = rows[c.id].pinned
        /\ c.op = "load" => row = rows[c.id]
  <2> SUFFICES ASSUME c.id \in DOMAIN rows
               PROVE  /\ rows[c.id] \in Row /\ row \in Row
                      /\ c.op = "existing" => Match(row, c.row) /\ row.pinned = rows[c.id].pinned
                      /\ c.op = "summarized" => Match(row, rows[c.id]) /\ row.pinned = rows[c.id].pinned
                      /\ c.op = "load" => row = rows[c.id]
    OBVIOUS
  <2>1. rows[c.id] \in Row
    BY TypeFacts
  <2> QED BY <1>1, <2>1, AfterReadFacts
<1> HIDE DEF row
<1>3. CASE c.id \in DOMAIN rows
  <2> DEFINE new == [pc |-> "back", op |-> c.op, id |-> c.id, row |-> row]
  <2>1. new \in Coroutine /\ new.pc = "back" /\ new.op = c.op /\ new.id = c.id /\ new.row = row
    BY <1>1, <1>2, <1>3 DEF Coroutine
  <2>2. Go(j, new)
    BY <1>3 DEF ReadRow, Answer, row
  <2>3. job' \in [Jobs -> Coroutine] /\ Sets(j, new)
    BY <2>1, <2>2, GoFacts
  <2> QED BY <1>1, <1>2, <1>3, <2>1, <2>3 DEF Sets
<1>4. CASE c.id \notin DOMAIN rows
  <2> DEFINE new == [pc |-> "back", op |-> c.op, id |-> 0, row |-> c.row]
  <2>1. new \in Coroutine /\ new.pc = "back" /\ new.op = c.op /\ new.id = 0
    BY <1>1 DEF Coroutine
  <2>2. Go(j, new)
    BY <1>4 DEF ReadRow, Answer
  <2>3. job' \in [Jobs -> Coroutine] /\ Sets(j, new)
    BY <2>1, <2>2, GoFacts
  <2> QED BY <1>1, <1>4, <2>1, <2>3 DEF Sets
<1> QED BY <1>3, <1>4

LEMMA ExecuteFacts ==
  ASSUME Types, QueueInv, ExecuteWrite, NEW w, w = writes[1]
  PROVE  /\ w \in Queued /\ w \in Record
         /\ writes' \in Seq(Record) /\ InTurn(writes')
         /\ \A v \in Queued' : v \in Queued /\ v.by # "nobody" /\ (v.by \in Jobs => v.by # w.by)
         /\ job' \in [Jobs -> Coroutine] /\ \A k \in Jobs \ {w.by} : job'[k] = job[k]
         /\ w.by \notin Jobs => job' = job
         /\ w.by \in Jobs =>
              /\ job[w.by].pc = "call" /\ job[w.by].op = w.op /\ job[w.by].id = w.id
              /\ job[w.by].row = w.row
              /\ IF w.op \in {"update", "setPinned"} THEN job'[w.by] = Ended
                 ELSE /\ job'[w.by].pc = "back" /\ job'[w.by].op = w.op /\ job'[w.by].row = w.row
                      /\ job'[w.by].id = IF w.op = "insert" THEN nextId ELSE w.id
         /\ w.op = "insert" =>
              /\ nextId' = nextId + 1 /\ DOMAIN rows' = DOMAIN rows \cup {nextId}
              /\ rows'[nextId] = w.row /\ \A i \in DOMAIN rows : rows'[i] = rows[i]
              /\ inserted' = IF w.by = "left" THEN inserted ELSE inserted \cup {nextId}
              /\ mishaps' = mishaps
         /\ w.op # "insert" =>
              /\ w.id # 0 /\ nextId' = nextId /\ inserted' = inserted
              /\ DOMAIN rows' = IF w.op = "delete" THEN DOMAIN rows \ {w.id} ELSE DOMAIN rows
              /\ \A i \in DOMAIN rows' : i # w.id => rows'[i] = rows[i]
              /\ w.op = "update" /\ w.id \in DOMAIN rows => rows'[w.id] = w.row
              /\ w.op = "setPinned" /\ w.id \in DOMAIN rows =>
                   Match(rows'[w.id], rows[w.id]) /\ rows'[w.id].pinned = w.row.pinned
              /\ Crossed(w) => "crossed" \in mishaps'
              /\ w.by = "left" /\ w.id = opened => "late" \in mishaps'
         /\ rows' \in [DOMAIN rows' -> Row]
         /\ mishaps \subseteq mishaps' /\ mishaps' \subseteq mishaps \cup Mishaps
         /\ UNCHANGED <<ui, model, edits, deleting>>
<1>1. Len(writes) \in Nat /\ writes # <<>> /\ w \in Record /\ Head(writes) = w /\ 1 \in 1..Len(writes)
  BY DEF ExecuteWrite, Types
<1>2. /\ writes' \in Seq(Record) /\ Len(writes') = Len(writes) - 1
      /\ \A i \in 1..Len(writes') : i + 1 \in 1..Len(writes) /\ writes'[i] = writes[i + 1]
  BY <1>1 DEF ExecuteWrite, Types
<1>3. w \in Queued /\ Waited(w)
  BY <1>1 DEF Queued, QueueInv, WaitInv
<1>4. /\ w.op \in Writes /\ w.row \in Row /\ w.id \in Nat /\ w.by \in Jobs \cup {"nobody", "left"}
  BY <1>1 DEF Record
<1>5. InTurn(writes')
  <2>1. \A i \in 1..Len(writes') : i + 1 # 1 /\ i \in Nat
    BY <1>1, <1>2
  <2>2. \A i \in 1..Len(writes') : writes'[i].by # "nobody"
    BY <1>2, <2>1 DEF QueueInv, InTurn
  <2>3. ASSUME NEW i \in 1..Len(writes'), NEW k \in 1..Len(writes'),
               writes'[i].by = writes'[k].by, writes'[i].by \in Jobs
        PROVE  i = k
    <3>1. i + 1 = k + 1
      BY <1>2, <2>3 DEF QueueInv, InTurn
    <3> QED BY <2>1, <3>1
  <2> QED BY <2>2, <2>3 DEF InTurn
<1>6. \A v \in Queued' : v \in Queued /\ v.by # "nobody" /\ (v.by \in Jobs => v.by # w.by)
  <2> SUFFICES ASSUME NEW i \in 1..Len(writes')
               PROVE  /\ writes'[i] \in Queued /\ writes'[i].by # "nobody"
                      /\ writes'[i].by \in Jobs => writes'[i].by # w.by
    BY DEF Queued
  <2>1. i + 1 \in 1..Len(writes) /\ writes'[i] = writes[i + 1] /\ i + 1 # 1
    BY <1>1, <1>2
  <2> QED BY <1>1, <2>1 DEF Queued, QueueInv, InTurn
<1>7. /\ IF w.op = "insert"
           THEN /\ InsertRow(w.row)
                /\ inserted' = IF w.by = "left" THEN inserted ELSE inserted \cup {nextId}
                /\ mishaps' = mishaps
           ELSE /\ rows' = Updated(w)
                /\ mishaps' = mishaps \cup (IF Crossed(w) THEN {"crossed"} ELSE {})
                                      \cup (IF w.by = "left" /\ w.id = opened THEN {"late"} ELSE {})
                /\ nextId' = nextId /\ inserted' = inserted
      /\ IF w.by \notin Jobs THEN job' = job
         ELSE IF w.op \in {"update", "setPinned"} THEN Go(w.by, Ended)
         ELSE Answer(w.by, IF w.op = "insert" THEN nextId ELSE w.id, w.row)
      /\ UNCHANGED <<ui, model, edits, deleting>>
  BY <1>1 DEF ExecuteWrite
<1>8. w.by \notin Jobs => job' = job /\ job' \in [Jobs -> Coroutine]
  BY <1>7 DEF Types
<1>9. ASSUME w.by \in Jobs
      PROVE  /\ job[w.by].pc = "call" /\ job[w.by].op = w.op /\ job[w.by].id = w.id
             /\ job[w.by].row = w.row /\ job' \in [Jobs -> Coroutine]
             /\ \A k \in Jobs \ {w.by} : job'[k] = job[k]
             /\ IF w.op \in {"update", "setPinned"} THEN job'[w.by] = Ended
                ELSE /\ job'[w.by].pc = "back" /\ job'[w.by].op = w.op /\ job'[w.by].row = w.row
                     /\ job'[w.by].id = IF w.op = "insert" THEN nextId ELSE w.id
  <2> DEFINE id == IF w.op = "insert" THEN nextId ELSE w.id
             c == [pc |-> "back", op |-> w.op, id |-> id, row |-> w.row]
  <2>1. job[w.by].pc = "call" /\ job[w.by].op = w.op /\ job[w.by].id = w.id /\ job[w.by].row = w.row
    BY <1>3, <1>9 DEF Waited
  <2>2. id \in Nat
    BY <1>4, TypeFacts
  <2>3. c \in Coroutine
    BY <1>4, <2>2 DEF Coroutine, Ops, Writes
  <2>4. CASE w.op \in {"update", "setPinned"}
    <3>1. Go(w.by, Ended)
      BY <1>7, <1>9, <2>4
    <3>2. job' \in [Jobs -> Coroutine] /\ Sets(w.by, Ended)
      BY <1>9, <3>1, BlankIsRow, GoFacts
    <3> QED BY <2>1, <2>4, <3>2 DEF Sets
  <2>5. CASE w.op \notin {"update", "setPinned"}
    <3>1. Go(w.by, c)
      BY <1>7, <1>9, <2>1, <2>5 DEF Answer
    <3>2. job' \in [Jobs -> Coroutine] /\ Sets(w.by, c)
      BY <1>9, <2>3, <3>1, GoFacts
    <3> QED BY <2>1, <2>5, <3>2 DEF Sets
  <2> QED BY <2>4, <2>5
<1>10. CASE w.op = "insert"
  <2>1. /\ nextId' = nextId + 1
        /\ rows' = [i \in DOMAIN rows \cup {nextId} |-> IF i = nextId THEN w.row ELSE rows[i]]
    BY <1>7, <1>10 DEF InsertRow
  <2>2. /\ DOMAIN rows' = DOMAIN rows \cup {nextId} /\ rows'[nextId] = w.row
        /\ \A i \in DOMAIN rows : rows'[i] = rows[i] /\ rows' \in [DOMAIN rows' -> Row]
    BY <1>4, <2>1, TypeFacts
  <2>3. rows' \in [DOMAIN rows' -> Row]
    BY <1>4, <2>1, TypeFacts
  <2> QED BY <1>1, <1>2, <1>3, <1>5, <1>6, <1>7, <1>8, <1>9, <1>10, <2>1, <2>2, <2>3
<1>11. CASE w.op # "insert"
  <2>1. w.id # 0 /\ rows' = Updated(w)
    BY <1>3, <1>7, <1>11 DEF Waited
  <2>2. /\ DOMAIN rows' = IF w.op = "delete" THEN DOMAIN rows \ {w.id} ELSE DOMAIN rows
        /\ \A i \in DOMAIN rows' : i # w.id => rows'[i] = rows[i]
        /\ w.op = "update" /\ w.id \in DOMAIN rows => rows'[w.id] = w.row
        /\ w.op = "setPinned" /\ w.id \in DOMAIN rows =>
             Match(rows'[w.id], rows[w.id]) /\ rows'[w.id].pinned = w.row.pinned
        /\ rows' \in [DOMAIN rows' -> Row]
    <3>1. CASE w.op = "update"
      BY <1>4, <2>1, <3>1, TypeFacts DEF Updated
    <3>2. CASE w.op = "setPinned"
      <4> DEFINE pinned(i) == [rows[i] EXCEPT !.pinned = w.row.pinned]
      <4>1. \A i \in DOMAIN rows : /\ pinned(i) \in Row /\ pinned(i).pinned = w.row.pinned
                                   /\ Match(pinned(i), rows[i])
        BY <1>4, TypeFacts DEF Row, Match
      <4>2. rows' = [i \in DOMAIN rows |-> IF i = w.id THEN pinned(i) ELSE rows[i]]
        BY <2>1, <3>2 DEF Updated
      <4> HIDE DEF pinned
      <4> QED BY <3>2, <4>1, <4>2, TypeFacts
    <3>3. CASE w.op = "delete"
      BY <1>4, <2>1, <3>3, TypeFacts DEF Updated
    <3> QED BY <1>4, <1>11, <3>1, <3>2, <3>3 DEF Writes
  <2>3. /\ nextId' = nextId /\ inserted' = inserted
        /\ Crossed(w) => "crossed" \in mishaps'
        /\ w.by = "left" /\ w.id = opened => "late" \in mishaps'
        /\ mishaps \subseteq mishaps' /\ mishaps' \subseteq mishaps \cup Mishaps
    BY <1>7, <1>11 DEF Mishaps
  <2> QED BY <1>1, <1>2, <1>3, <1>5, <1>6, <1>7, <1>8, <1>9, <1>11, <2>1, <2>2, <2>3
<1> QED BY <1>10, <1>11

\* The last pin that waits goes on being it, unless it has just been written.
LEMMA ExecutePins ==
  ASSUME Types, ExecuteWrite, NEW w, w = writes[1]
  PROVE  SamePins(writes') \/ (~HasPin(writes') /\ 1 \in 1..Len(writes) /\ LastPin(writes, 1))
<1>1. Len(writes) \in Nat /\ writes # <<>>
  BY DEF ExecuteWrite, Types
<1>2. /\ Len(writes') = Len(writes) - 1 /\ 1 \in 1..Len(writes)
      /\ \A i \in 1..Len(writes') : i + 1 \in 1..Len(writes) /\ writes'[i] = writes[i + 1]
      /\ \A k \in 1..Len(writes) : k = 1 \/ k - 1 \in 1..Len(writes')
  BY <1>1 DEF ExecuteWrite, Types
<1>3. \A k \in 1..Len(writes) : k = 1 \/ writes'[k - 1] = writes[k]
  <2> TAKE k \in 1..Len(writes)
  <2>1. k # 1 => (k - 1) + 1 = k
    OBVIOUS
  <2> QED BY <1>2, <2>1
<1>4. ASSUME NEW i \in 1..Len(writes'), LastPin(writes', i)
      PROVE  LastPin(writes, i + 1)
  <2>1. \A k \in 1..Len(writes) : writes[k].by \in Pins => k = 1 \/ k - 1 <= i
    BY <1>2, <1>3, <1>4 DEF LastPin
  <2> QED BY <1>1, <1>2, <1>4, <2>1 DEF LastPin
<1>5. CASE HasPin(writes')
  BY <1>2, <1>4, <1>5 DEF SamePins
<1>6. CASE ~HasPin(writes')
  <2>1. \A k \in 1..Len(writes) : writes[k].by \in Pins => k = 1
    BY <1>2, <1>3, <1>6 DEF HasPin
  <2>2. CASE HasPin(writes)
    BY <1>2, <1>6, <2>1, <2>2 DEF HasPin, LastPin
  <2>3. CASE ~HasPin(writes)
    BY <1>2, <1>4, <2>3 DEF SamePins
  <2> QED BY <2>2, <2>3
<1> QED BY <1>5, <1>6

-----------------------------------------------------------------------------
(* The steps of coroutines, each of which goes on with one of them, by what  *)
(* they do to it and to the view model.                                      *)

\* Whether the delete button was the last word: a move that is not an edit, or
\* an edit of a note, leaves that, and a delete that comes back says so.
Word(j) == /\ deleting' \in BOOLEAN
           /\ deleting' => \/ deleting /\ (note # 0 \/ job[j].pc # "none")
                           \/ j \in Deletes /\ job[j].pc = "back"

KeepsNote == UNCHANGED <<noteId, note>>
KeepsModel == UNCHANGED <<noteId, note, screen>>

Toggles(j) == /\ j \in Pins /\ job[j].pc = "none" /\ note # 0 /\ KeepsNote
              /\ job'[j] = Call("setPinned", note, screen') /\ Match(screen', screen)
              /\ HasPin(writes')
              /\ \A i \in 1..Len(writes') : LastPin(writes', i) => writes'[i].row = screen'

Moves(j) ==
  /\ open /\ job' \in [Jobs -> Coroutine] /\ \A k \in Jobs \ {j} : job'[k] = job[k]
  /\ writes' \in Seq(Record) /\ InTurn(writes')
  /\ \A v \in Queued' :
       \/ v \in Queued /\ v.by # j
       \/ j = "autosave" /\ \E u \in Queued : u.by = j /\ Orphan(u, v)
       \/ /\ v.by = j /\ job'[j].pc = "call" /\ job'[j].op \in Writes
          /\ v.op = job'[j].op /\ v.id = job'[j].id /\ v.row = job'[j].row
  /\ screen' \in Row /\ screen'.summary = 0
  /\ mishaps \subseteq mishaps' /\ mishaps' \subseteq Mishaps
  /\ SamePins(writes') \/ Toggles(j)
  /\ popped' \in BOOLEAN /\ Word(j)
  /\ UNCHANGED <<rows, nextId, open, visits, opened, inserted>>

\* What j is doing is not cut short, or the mishap is recorded.
Spares(j) == /\ Whole' => ~Making(j)
             /\ "reread" \notin mishaps' => ~InCall(job[j], {"reread"})

Retypes(j) == /\ j = "autosave" /\ Spares(j) /\ KeepsNote
              /\ job'[j].pc = "delay" /\ job'[j].op = "none" /\ job'[j].id = 0
              /\ screen'.pinned = screen.pinned
SavesScreen(j) ==
  /\ j \in {"autosave", "ai"} /\ Spares(j) /\ KeepsNote
  /\ job'[j] = IF noteId = 0 THEN Call("insert", 0, screen') ELSE Call("existing", noteId, screen')
  /\ screen'.pinned = screen.pinned
  /\ Whole' /\ noteId = 0 => \A k \in Jobs \ {j} : ~InCall(job[k], {"insert", "load"})
Asks(j) == /\ j = "ai" /\ job[j].pc = "none" /\ KeepsModel
           /\ job'[j].pc = "thinking" /\ job'[j].id = 0 /\ job'[j].op \notin Writes
Removes(j) == /\ j \in Deletes /\ job[j].pc = "none" /\ note # 0 /\ KeepsModel
              /\ job'[j] = Call("delete", note, Blank)
ReadsRow(j) == ReadRow(j) /\ KeepsModel
Summarizes(j) == /\ j = "ai" /\ job[j].pc = "thinking" /\ note # 0 /\ KeepsModel
                 /\ job'[j] = Call("summarized", note, job[j].row)
Ends(j) == /\ KeepsModel /\ job'[j] = Ended
           /\ \/ job[j].pc = "thinking"
              \/ /\ job[j].pc = "back"
                 /\ \/ job[j].op = "insert" /\ noteId # 0
                    \/ job[j].op \in {"existing", "summarized"} /\ job[j].id = 0
                    \/ job[j].op = "delete"
Names(j) == /\ job[j].pc = "back" /\ job[j].op = "insert" /\ noteId = 0
            /\ noteId' = job[j].id /\ UNCHANGED <<note, screen>>
            /\ job'[j] = Call("reread", job[j].id, Blank)
Rereads(j) == /\ job[j].pc = "back" /\ job[j].op = "reread"
              /\ note' = job[j].id /\ UNCHANGED <<noteId, screen>> /\ job'[j] = Ended
Updates(j) == /\ job[j].pc = "back" /\ job[j].op \in {"existing", "summarized"} /\ job[j].id # 0
              /\ KeepsModel /\ job'[j] = Call("update", job[j].id, job[j].row)
Loads(j) == /\ j = "load" /\ job[j].pc = "back" /\ job[j].op = "load" /\ job'[j] = Ended
            /\ IF job[j].id = 0 THEN KeepsModel
               ELSE /\ noteId' = job[j].id /\ note' = job[j].id
                    /\ Match(screen', job[j].row) /\ screen'.pinned = job[j].row.pinned

\* Nobody waits in the queue whose call is no write.
LEMMA NotWaiting ==
  ASSUME Types, WaitInv, NEW j \in Jobs, job[j].pc # "call" \/ job[j].op \notin Writes
  PROVE  \A w \in Queued : w.by # j
BY TypeFacts DEF WaitInv, Waited, Record

LEMMA QuietOutside ==
  ASSUME DutyInv, NEW j \in Jobs, job[j].pc # "none"
  PROVE  open
BY BlankIsRow DEF DutyInv

\* What was the user's last word.
LEMMA Words ==
  ASSUME Types, NEW j \in Jobs
  PROVE  /\ UNCHANGED deleting /\ (note # 0 \/ job[j].pc # "none") => Word(j)
         /\ Edit => Word(j)
<1>1. deleting \in BOOLEAN
  BY DEF Types, TypeOK
<1>2. ASSUME Edit PROVE Word(j)
  <2>1. deleting' = (deleting /\ note # 0)
    BY <1>2 DEF Edit
  <2> QED BY <2>1, Zenon DEF Word
<1> QED BY <1>1, <1>2 DEF Word

LEMMA IssuePins ==
  ASSUME Types, NEW w, Issued(w)
  PROVE  /\ w.by \notin Pins => SamePins(writes')
         /\ w.by \in Pins => /\ HasPin(writes')
                             /\ \A i \in 1..Len(writes') : LastPin(writes', i) => writes'[i] = w
<1>1. /\ Len(writes) \in Nat /\ Len(writes') = Len(writes) + 1 /\ writes'[Len(writes) + 1] = w
      /\ \A i \in 1..Len(writes) : writes'[i] = writes[i]
  BY TypeFacts DEF Issued
<1>2. /\ \A i \in 1..Len(writes') : i = Len(writes) + 1 \/ i \in 1..Len(writes)
      /\ \A i \in 1..Len(writes) : i \in 1..Len(writes')
      /\ Len(writes) + 1 \in 1..Len(writes')
  BY <1>1
<1>3. ASSUME w.by \notin Pins PROVE SamePins(writes')
  <2>1. \A i \in 1..Len(writes') :
          LastPin(writes', i) => i \in 1..Len(writes) /\ LastPin(writes, i)
    BY <1>1, <1>2, <1>3 DEF LastPin
  <2>2. HasPin(writes) => HasPin(writes')
    BY <1>1, <1>2 DEF HasPin
  <2> QED BY <1>1, <2>1, <2>2 DEF SamePins
<1>4. ASSUME w.by \in Pins, NEW i \in 1..Len(writes'), LastPin(writes', i)
      PROVE  writes'[i] = w
  <2>1. Len(writes) + 1 <= i
    BY <1>1, <1>2, <1>4 DEF LastPin
  <2>2. i = Len(writes) + 1
    BY <1>1, <1>2, <2>1
  <2> QED BY <1>1, <2>2
<1>5. w.by \in Pins => HasPin(writes')
  BY <1>1, <1>2 DEF HasPin
<1> QED BY <1>3, <1>4, <1>5

\* A coroutine that goes on without a write.
LEMMA GoMoves ==
  ASSUME Types, DutyInv, QueueInv, NEW j \in Jobs, NEW c \in Coroutine, Go(j, c), open,
         job[j].pc # "call" \/ job[j].op \notin Writes,
         UNCHANGED <<rows, nextId, writes, open, visits, opened, inserted, mishaps>>,
         popped' \in BOOLEAN, Word(j), screen' \in Row, screen'.summary = 0
  PROVE  Moves(j) /\ job'[j] = c
<1>1. job' \in [Jobs -> Coroutine] /\ Sets(j, c)
  BY GoFacts
<1>2. \A v \in Queued' : v \in Queued /\ v.by # j
  BY NotWaiting DEF QueueInv, Queued
<1>3. writes' \in Seq(Record) /\ InTurn(writes') /\ mishaps' \subseteq Mishaps
  BY DEF Types, TypeOK, QueueInv
<1>4. SamePins(writes')
  BY DEF SamePins
<1> QED BY <1>1, <1>2, <1>3, <1>4 DEF Moves, Sets

\* A coroutine that issues a write.
LEMMA IssueMoves ==
  ASSUME Types, DutyInv, QueueInv, NEW j \in Jobs, NEW o \in Writes, NEW id \in Nat, NEW row \in Row,
         Go(j, Call(o, id, row)), writes' = Append(writes, Write(j)), open,
         job[j].pc # "call" \/ job[j].op \notin Writes,
         UNCHANGED <<rows, nextId, open, visits, opened, inserted, mishaps>>,
         j \in Pins => Toggles(j),
         popped' \in BOOLEAN, Word(j), screen' \in Row, screen'.summary = 0
  PROVE  Moves(j) /\ job'[j] = Call(o, id, row)
<1> DEFINE w == [by |-> j, op |-> o, id |-> id, row |-> row]
<1>1. job' \in [Jobs -> Coroutine] /\ Sets(j, Call(o, id, row)) /\ Issued(w)
  BY IssueFacts
<1>2. \A v \in Queued : v.by # j
  BY NotWaiting DEF QueueInv
<1>3. /\ job'[j].pc = "call" /\ job'[j].op \in Writes
      /\ w.by = j /\ w.op = job'[j].op /\ w.id = job'[j].id /\ w.row = job'[j].row
  BY <1>1 DEF Sets, Call
<1> HIDE DEF w
<1>4. \A i \in 1..Len(writes) : writes[i].by # j
  BY <1>2 DEF Queued
<1>40. SamePins(writes') \/ Toggles(j)
  BY <1>1, <1>3, IssuePins
<1>5. InTurn(writes')
  <2>1. \A i \in 1..Len(writes') : i = Len(writes) + 1 \/ i \in 1..Len(writes)
    BY <1>1, TypeFacts DEF Issued
  <2> QED BY <1>1, <1>3, <1>4, <2>1 DEF Issued, InTurn, QueueInv, Jobs, Pins, Deletes
<1>6. mishaps' \subseteq Mishaps
  BY DEF Types, TypeOK
<1> QED BY <1>1, <1>2, <1>3, <1>40, <1>5, <1>6 DEF Moves, Sets, Issued

LEMMA TypeShape ==
  ASSUME Types, DutyInv, QueueInv, Type
  PROVE  Moves("autosave") /\ Retypes("autosave")
<1> DEFINE c == [Ended EXCEPT !.pc = "delay"]
<1>1. c \in Coroutine /\ c.pc = "delay" /\ c.op = "none" /\ c.id = 0
  BY BlankIsRow DEF Ended, Coroutine
<1>2. "autosave" \in Jobs /\ Go("autosave", c)
  BY DEF Type, Go, Jobs
<1> HIDE DEF c
<1>3. job' \in [Jobs -> Coroutine] /\ Sets("autosave", c)
  BY <1>1, <1>2, GoFacts
<1>4. Cut({"autosave"}, writes')
  BY <1>2, KeptFacts DEF Type, QueueInv
<1>5. \A v \in Queued' : \/ v \in Queued /\ v.by # "autosave"
                         \/ \E u \in Queued : u.by = "autosave" /\ Orphan(u, v)
  BY <1>4 DEF Cut, Queued
<1>6. /\ screen' \in Row /\ screen'.pinned = screen.pinned /\ screen'.summary = screen.summary
      /\ KeepsNote
  <2>1. edits + 2 \in Nat /\ edits' + 1 = edits + 2
    BY EditorAssumption DEF Type, Edit, Act, Types, TypeOK
  <2>2. screen' = [screen EXCEPT !.text = edits' + 1] /\ screen \in Row
    BY TypeFacts DEF Type
  <2> QED BY <2>1, <2>2 DEF Type, Row, KeepsNote
<1>7. mishaps' = mishaps \cup CutShort({"autosave"}) /\ mishaps \subseteq Mishaps
  BY DEF Type, Types, TypeOK
<1>8. mishaps \subseteq mishaps' /\ mishaps' \subseteq Mishaps
  BY <1>7 DEF CutShort, Mishaps
<1>9. Spares("autosave")
  BY <1>7, CallingIs DEF Spares, Whole, Making, CutShort
<1>10. UNCHANGED <<rows, nextId, open, visits, opened, inserted>> /\ open /\ popped' \in BOOLEAN
  BY DEF Type, Edit, Act, table, ui, Types, TypeOK
<1>100. Word("autosave") /\ SamePins(writes')
  BY <1>2, <1>4, Words DEF Type, Cut, Pins
<1>11. Moves("autosave")
  BY <1>100, <1>3, <1>4, <1>5, <1>6, <1>8, <1>10 DEF Moves, Cut, Sets, DutyInv
<1> QED BY <1>1, <1>3, <1>6, <1>9, <1>11 DEF Retypes, Sets

\* Each of the three ways to call save().
LEMMA SaveShape ==
  ASSUME Types, DutyInv, QueueInv, NEW j \in {"autosave", "ai"}, NEW J, Save(j, J, screen'),
         (J = {j} /\ j = "autosave") \/ (J = {} /\ job[j].pc \in {"delay", "thinking"}),
         screen' \in Row, screen'.pinned = screen.pinned, screen'.summary = screen.summary,
         open, UNCHANGED <<rows, nextId, open, visits, opened, noteId, note>>,
         popped' \in BOOLEAN, Word(j)
  PROVE  Moves(j) /\ SavesScreen(j)
<1> DEFINE c == IF noteId = 0 THEN Call("insert", 0, screen') ELSE Call("existing", noteId, screen')
           w == [by |-> j, op |-> "insert", id |-> 0, row |-> screen']
<1>1. /\ job' \in [Jobs -> Coroutine] /\ Sets(j, c)
      /\ writes' \in Seq(Record) /\ InTurn(writes')
      /\ \A v \in Queued' :
           \/ v \in Queued /\ v.by # j
           \/ J = {j} /\ \E u \in Queued : u.by = j /\ Orphan(u, v)
           \/ noteId = 0 /\ v = w
      /\ mishaps \subseteq mishaps' /\ mishaps' \subseteq mishaps \cup Mishaps
      /\ "insert" \notin mishaps' =>
           /\ J = {j} => ~Making(j)
           /\ noteId = 0 => \A k \in Jobs \ {j} : ~InCall(job[k], {"insert", "load"})
      /\ "reread" \notin mishaps' => (J = {j} => ~InCall(job[j], {"reread"}))
      /\ SamePins(writes') /\ UNCHANGED inserted
  BY SaveFacts
<1>2. Spares(j)
  BY <1>1 DEF Spares, Whole, Making, InCall
<1>3. noteId = 0 => /\ job'[j].pc = "call" /\ job'[j].op \in Writes /\ w.by = j /\ w.op = job'[j].op
                    /\ w.id = job'[j].id /\ w.row = job'[j].row
  BY <1>1 DEF Sets, Call, Writes
<1>4. mishaps' \subseteq Mishaps /\ screen.summary = 0
  BY <1>1 DEF Types, TypeOK, DutyInv
<1>5. J = {j} => j = "autosave"
  OBVIOUS
<1>6. SavesScreen(j)
  BY <1>1, <1>2 DEF SavesScreen, KeepsNote, Whole, Sets
<1> QED BY <1>1, <1>3, <1>4, <1>5, <1>6 DEF Moves, Sets

LEMMA UserShape ==
  ASSUME Types, DutyInv, QueueInv
  PROVE  /\ EditTags => Moves("autosave") /\ SavesScreen("autosave")
         /\ \A p \in Pins : TogglePinned(p) => Moves(p) /\ Toggles(p)
         /\ \A o \in {"summarize", "suggestTags"} : AskModel(o) => Moves("ai") /\ Asks("ai")
         /\ \A d \in Deletes : Delete(d) /\ note # 0 => Moves(d) /\ Removes(d)
<1>0. /\ {"autosave", "ai"} \cup Pins \cup Deletes \subseteq Jobs
      /\ screen \in Row /\ screen.summary = 0 /\ popped \in BOOLEAN
      /\ \A j \in {"autosave", "ai"} \cup Deletes : j \notin Pins
  BY TypeFacts DEF Jobs, Pins, Deletes, DutyInv, Types, TypeOK
<1>1. ASSUME EditTags
      PROVE  Moves("autosave") /\ SavesScreen("autosave")
  <2>1. edits' \in 0..MaxEdits
    BY <1>1, EditorAssumption DEF EditTags, Edit, Act, Types, TypeOK
  <2>2. screen' = [screen EXCEPT !.tags = screen.tags \cup {edits'}]
    BY <1>1 DEF EditTags
  <2>3. screen' \in Row /\ screen'.pinned = screen.pinned /\ screen'.summary = screen.summary
    BY <1>0, <2>1, <2>2 DEF Row
  <2>4. Save("autosave", {"autosave"}, screen')
    BY <1>1 DEF EditTags
  <2>5. /\ open /\ UNCHANGED <<rows, nextId, open, visits, opened, noteId, note>>
        /\ popped' \in BOOLEAN /\ Word("autosave")
    BY <1>0, <1>1, Words DEF EditTags, Edit, Act, table, ui
  <2> QED BY <2>3, <2>4, <2>5, SaveShape
<1>2. ASSUME NEW p \in Pins, TogglePinned(p)
      PROVE  Moves(p) /\ Toggles(p)
  <2>1. screen' = [screen EXCEPT !.pinned = ~screen.pinned]
    BY <1>2 DEF TogglePinned
  <2>2. screen.pinned \in BOOLEAN
    BY <1>0 DEF Row
  <2>3. screen' \in Row /\ screen'.summary = screen.summary /\ Match(screen', screen)
    BY <1>0, <2>1, <2>2 DEF Row, Match
  <2>4. /\ job[p].pc = "none" /\ Go(p, Call("setPinned", note, screen'))
        /\ writes' = Append(writes, Write(p)) /\ note # 0 /\ open
        /\ UNCHANGED <<rows, nextId, open, visits, opened, inserted, mishaps, noteId, note>>
        /\ popped' \in BOOLEAN /\ Word(p)
    BY <1>0, <1>2, Words DEF TogglePinned, Edit, Act, Active, table, ui
  <2>5. note \in Nat /\ "setPinned" \in Writes
    BY TypeFacts DEF Writes
  <2> DEFINE w == [by |-> p, op |-> "setPinned", id |-> note, row |-> screen']
  <2>6. Issued(w) /\ Sets(p, Call("setPinned", note, screen'))
    BY <1>0, <2>3, <2>4, <2>5, IssueFacts
  <2>7. w.by \in Pins /\ w.row = screen'
    OBVIOUS
  <2> HIDE DEF w
  <2>8. HasPin(writes') /\ \A i \in 1..Len(writes') : LastPin(writes', i) => writes'[i].row = screen'
    BY <2>6, <2>7, IssuePins
  <2>9. Toggles(p)
    BY <2>3, <2>4, <2>6, <2>8 DEF Toggles, KeepsNote, Sets
  <2>10. Moves(p)
    BY <1>0, <2>3, <2>4, <2>5, <2>9, IssueMoves
  <2> QED BY <2>9, <2>10
<1>3. ASSUME NEW o \in {"summarize", "suggestTags"}, AskModel(o)
      PROVE  Moves("ai") /\ Asks("ai")
  <2> DEFINE c == [Ended EXCEPT !.pc = "thinking", !.op = o, !.row = screen]
  <2>1. c \in Coroutine /\ c.pc = "thinking" /\ c.id = 0 /\ c.op = o /\ o \notin Writes
    BY <1>0, BlankIsRow DEF Ended, Coroutine, Ops, Writes
  <2>2. Go("ai", c) /\ open /\ job["ai"].pc = "none"
    BY <1>3 DEF AskModel, Edit, Act, Go, Active
  <2>3. /\ UNCHANGED <<rows, nextId, writes, open, visits, opened, inserted, mishaps,
                       noteId, note, screen>>
        /\ popped' \in BOOLEAN /\ Word("ai")
    BY <1>0, <1>3, Words DEF AskModel, table, ui, model
  <2> HIDE DEF c
  <2>4. Moves("ai") /\ job'["ai"] = c
    BY <1>0, <2>1, <2>2, <2>3, GoMoves
  <2> QED BY <2>1, <2>2, <2>3, <2>4 DEF Asks, KeepsModel
<1>4. ASSUME NEW d \in Deletes, Delete(d), note # 0
      PROVE  Moves(d) /\ Removes(d)
  <2>1. /\ Go(d, Call("delete", note, Blank)) /\ writes' = Append(writes, Write(d))
        /\ open /\ job[d].pc = "none"
        /\ UNCHANGED <<rows, nextId, open, visits, opened, inserted, mishaps, popped,
                       noteId, note, screen>>
    BY <1>4 DEF Delete, Act, Active, table, model
  <2>2. note \in Nat /\ "delete" \in Writes /\ Blank \in Row
    BY TypeFacts, BlankIsRow DEF Writes
  <2>3. Word(d) /\ d \in Jobs /\ d \notin Pins
    BY <1>0, <1>4, Words DEF Delete
  <2>4. Moves(d) /\ job'[d] = Call("delete", note, Blank)
    BY <1>0, <2>1, <2>2, <2>3, IssueMoves
  <2> QED BY <1>4, <2>1, <2>4 DEF Removes, KeepsModel
<1> QED BY <1>1, <1>2, <1>3, <1>4

LEMMA ReadShape ==
  ASSUME Types, DutyInv, QueueInv, NEW j \in Jobs, ReadRow(j)
  PROVE  Moves(j) /\ ReadsRow(j)
<1>1. job[j].pc = "call" /\ job[j].op \notin Writes /\ open
  BY QuietOutside DEF ReadRow, Reads, Writes
<1>2. job' \in [Jobs -> Coroutine] /\ \A k \in Jobs \ {j} : job'[k] = job[k]
  BY ReadFacts
<1>3. /\ UNCHANGED <<rows, nextId, writes, open, visits, opened, inserted, mishaps,
                     noteId, note, screen>>
      /\ popped' \in BOOLEAN /\ Word(j) /\ SamePins(writes')
  BY <1>1, Words DEF ReadRow, table, ui, model, history, Types, TypeOK, SamePins
<1>4. \A v \in Queued' : v \in Queued /\ v.by # j
  BY <1>1, <1>3, NotWaiting DEF QueueInv, Queued
<1>5. writes' \in Seq(Record) /\ InTurn(writes') /\ mishaps' \subseteq Mishaps
  BY <1>3 DEF Types, TypeOK, QueueInv
<1>6. screen' \in Row /\ screen'.summary = 0
  BY <1>3, TypeFacts DEF DutyInv
<1> QED BY <1>1, <1>2, <1>3, <1>4, <1>5, <1>6 DEF Moves, ReadsRow, KeepsModel

LEMMA AiShape ==
  ASSUME Types, DutyInv, QueueInv, ModelAnswers
  PROVE  Moves("ai") /\ (Summarizes("ai") \/ Ends("ai") \/ SavesScreen("ai"))
<1>0. /\ "ai" \in Jobs /\ screen \in Row /\ screen.summary = 0 /\ job["ai"].pc = "thinking"
      /\ job["ai"].row \in Row /\ note \in Nat
  BY TypeFacts DEF Jobs, DutyInv, ModelAnswers
<1>1. open
  BY <1>0, QuietOutside
<1>2. /\ UNCHANGED <<rows, nextId, open, visits, opened, noteId, note>>
      /\ popped' \in BOOLEAN /\ (UNCHANGED deleting => Word("ai"))
  BY <1>0, Words DEF ModelAnswers, table, ui, Types, TypeOK
<1>3. CASE note # 0 /\ Go("ai", Call("summarized", note, job["ai"].row))
           /\ UNCHANGED <<screen, writes, history>>
  <2>1. Call("summarized", note, job["ai"].row) \in Coroutine
    BY <1>0 DEF Call, Coroutine, Ops, Reads
  <2>2. Moves("ai") /\ job'["ai"] = Call("summarized", note, job["ai"].row)
    BY <1>0, <1>1, <1>2, <1>3, <2>1, GoMoves DEF history
  <2> QED BY <1>0, <1>2, <1>3, <2>2 DEF Summarizes, KeepsModel
<1>4. CASE Go("ai", Ended) /\ UNCHANGED <<screen, writes, history>>
  <2>1. Moves("ai") /\ job'["ai"] = Ended
    BY <1>0, <1>1, <1>2, <1>4, BlankIsRow, GoMoves DEF history
  <2> QED BY <1>0, <1>2, <1>4, <2>1 DEF Ends, KeepsModel
<1>5. CASE /\ screen' = [screen EXCEPT !.tags = screen.tags \cup {0}] /\ Save("ai", {}, screen')
           /\ UNCHANGED deleting
  <2>1. screen' \in Row /\ screen'.pinned = screen.pinned /\ screen'.summary = screen.summary
    BY <1>0, <1>5, EditorAssumption DEF Row
  <2> QED BY <1>0, <1>1, <1>2, <1>5, <2>1, SaveShape
<1> QED BY <1>3, <1>4, <1>5 DEF ModelAnswers

LEMMA ResumeShape ==
  ASSUME Types, DutyInv, QueueInv, NEW j \in Jobs, Resume(j)
  PROVE  Moves(j) /\ (Names(j) \/ Rereads(j) \/ Updates(j) \/ Ends(j))
<1>0. /\ job[j].pc = "back" /\ job[j].id \in Nat /\ job[j].row \in Row
      /\ screen \in Row /\ screen.summary = 0
  BY TypeFacts DEF Resume, Inserted, ReadBack, WriteBack, Returned, DutyInv, Coroutine
<1>1. open
  BY <1>0, QuietOutside
<1>2. /\ UNCHANGED <<rows, nextId, open, visits, opened, screen, inserted, mishaps>>
      /\ popped' \in BOOLEAN /\ Word(j)
  <2>1. UNCHANGED <<rows, nextId, ui, screen, history>>
    BY DEF Resume, Inserted, ReadBack, WriteBack, table, model
  <2> QED BY <1>0, <2>1, Words DEF ui, history, Types, TypeOK
<1>3. ASSUME Go(j, Ended), UNCHANGED writes
      PROVE  Moves(j) /\ job'[j] = Ended
  BY <1>0, <1>1, <1>2, <1>3, BlankIsRow, GoMoves
<1>4. CASE Inserted(j)
  <2>1. job[j].op = "insert" /\ UNCHANGED <<writes, note>>
    BY <1>4 DEF Inserted, Returned
  <2>2. CASE noteId = 0
    <3>1. noteId' = job[j].id /\ Go(j, Call("reread", job[j].id, Blank))
      BY <1>4, <2>2 DEF Inserted
    <3>2. Call("reread", job[j].id, Blank) \in Coroutine
      BY <1>0, BlankIsRow DEF Call, Coroutine, Ops, Reads
    <3>3. Moves(j) /\ job'[j] = Call("reread", job[j].id, Blank)
      BY <1>0, <1>1, <1>2, <2>1, <3>1, <3>2, GoMoves
    <3> QED BY <1>0, <1>2, <2>1, <2>2, <3>1, <3>3 DEF Names
  <2>3. CASE noteId # 0
    <3>1. Go(j, Ended) /\ UNCHANGED noteId
      BY <1>4, <2>3 DEF Inserted
    <3> QED BY <1>0, <1>2, <1>3, <2>1, <2>3, <3>1 DEF Ends, KeepsModel
  <2> QED BY <2>2, <2>3
<1>5. CASE ReadBack(j)
  BY <1>0, <1>2, <1>3, <1>5 DEF ReadBack, Returned, Rereads
<1>6. CASE WriteBack(j)
  <2>1. job[j].op \in {"existing", "summarized"} /\ KeepsModel
    BY <1>6 DEF WriteBack, Returned, model, KeepsModel
  <2>2. CASE job[j].id = 0
    BY <1>0, <1>3, <1>6, <2>1, <2>2 DEF WriteBack, Ends
  <2>3. CASE job[j].id # 0
    <3>1. Go(j, Call("update", job[j].id, job[j].row)) /\ writes' = Append(writes, Write(j))
      BY <1>6, <2>3 DEF WriteBack
    <3>2. j \notin Pins
      BY <1>0, <2>1 DEF DutyInv, Duty, Does, Pins
    <3>3. Moves(j) /\ job'[j] = Call("update", job[j].id, job[j].row)
      BY <1>0, <1>1, <1>2, <3>1, <3>2, IssueMoves DEF Writes
    <3> QED BY <1>0, <2>1, <2>3, <3>3 DEF Updates
  <2> QED BY <2>2, <2>3
<1> QED BY <1>4, <1>5, <1>6 DEF Resume

LEMMA DeletedShape ==
  ASSUME Types, DutyInv, QueueInv, NEW d \in Deletes, Deleted(d)
  PROVE  Moves(d) /\ Ends(d)
<1>1. /\ d \in Jobs /\ job[d].pc = "back" /\ job[d].op = "delete" /\ Go(d, Ended)
      /\ screen \in Row /\ screen.summary = 0
  BY TypeFacts DEF Deleted, Returned, Jobs, DutyInv
<1>2. /\ open /\ UNCHANGED <<rows, nextId, writes, open, visits, opened, inserted, mishaps,
                             noteId, note, screen>>
      /\ popped' \in BOOLEAN /\ Word(d)
  BY <1>1, QuietOutside DEF Deleted, table, model, Word
<1>3. Moves(d) /\ job'[d] = Ended
  BY <1>1, <1>2, BlankIsRow, GoMoves
<1> QED BY <1>1, <1>2, <1>3 DEF Ends, KeepsModel

LEMMA LoadShape ==
  ASSUME Types, DutyInv, QueueInv, Loaded
  PROVE  Moves("load") /\ Loads("load")
<1> DEFINE c == job["load"]
<1>0. "load" \in Jobs /\ c.pc = "back" /\ c.op = "load" /\ c.row \in Row /\ screen \in Row /\ screen.summary = 0
  BY TypeFacts DEF Jobs, DutyInv, Loaded, Returned
<1>1. /\ open /\ UNCHANGED <<rows, nextId, writes, open, visits, opened, inserted, mishaps>>
      /\ popped' \in BOOLEAN /\ Word("load")
  BY <1>0, QuietOutside, Words DEF Loaded, table, ui, history, Types, TypeOK
<1>2. /\ screen' \in Row /\ screen'.summary = 0
      /\ IF c.id = 0 THEN KeepsModel
         ELSE /\ noteId' = c.id /\ note' = c.id
              /\ Match(screen', c.row) /\ screen'.pinned = c.row.pinned
  <2>1. CASE c.id = 0
    BY <1>0, <2>1 DEF Loaded, model, KeepsModel
  <2>2. CASE c.id # 0
    <3>1. noteId' = c.id /\ note' = c.id /\ screen' = [c.row EXCEPT !.summary = 0]
      BY <2>2 DEF Loaded
    <3> DEFINE row == c.row
    <3>2. row \in Row /\ screen' = [row EXCEPT !.summary = 0]
      BY <1>0, <3>1
    <3> HIDE DEF row
    <3>3. screen' \in Row /\ screen'.summary = 0 /\ Match(screen', row) /\ screen'.pinned = row.pinned
      BY <3>2 DEF Row, Match
    <3> QED BY <2>2, <3>1, <3>3 DEF row
  <2> QED BY <2>1, <2>2
<1>3. Moves("load") /\ job'["load"] = Ended
  BY <1>0, <1>1, <1>2, BlankIsRow, GoMoves DEF Loaded
<1> QED BY <1>0, <1>2, <1>3 DEF Loads

Shape(j) == \/ Retypes(j) \/ SavesScreen(j) \/ Toggles(j) \/ Asks(j) \/ Removes(j)
            \/ ReadsRow(j) \/ Summarizes(j) \/ Ends(j) \/ Names(j) \/ Rereads(j)
            \/ Updates(j) \/ Loads(j)

Opens == \E id \in DOMAIN rows \cup {0} : Open(id)

\* The user goes back, or deletes when there is no note yet.
Pops == /\ open /\ popped' = TRUE
        /\ UNCHANGED <<rows, nextId, writes, open, visits, opened, noteId, note, screen, job,
                       inserted>>
        /\ mishaps \subseteq mishaps' /\ mishaps' \subseteq mishaps \cup {"unread"}
        /\ \/ deleting' = deleting
           \/ /\ deleting' = TRUE /\ note = 0
              /\ "unread" \notin mishaps' => \A j \in Jobs : job[j].pc = "none"

LEMMA StepShape ==
  ASSUME Types, DutyInv, QueueInv, Next
  PROVE  Opens \/ Cleared \/ Pops \/ ExecuteWrite \/ \E j \in Jobs : Moves(j) /\ Shape(j)
<1>0. {"load", "autosave", "ai"} \cup Pins \cup Deletes \subseteq Jobs
  BY DEF Jobs
<1>1. CASE User
  <2>1. CASE Type
    BY <1>0, <2>1, TypeShape DEF Shape
  <2>2. CASE Back
    BY <2>2 DEF Back, Pops, table, model, history
  <2>3. ASSUME NEW d \in Deletes, Delete(d), note = 0
        PROVE  Pops
    BY <2>3 DEF Delete, Act, Pops, table, model, Active
  <2>4. CASE \/ EditTags \/ \E p \in Pins : TogglePinned(p)
             \/ \E d \in Deletes : Delete(d) /\ note # 0
             \/ \E o \in {"summarize", "suggestTags"} : AskModel(o)
    BY <1>0, <2>4, UserShape DEF Shape
  <2> QED BY <1>1, <2>1, <2>2, <2>3, <2>4 DEF User, Opens
<1>2. CASE Database
  BY <1>2, ReadShape DEF Database, Shape
<1>3. CASE AutosaveFires
  <2>1. job["autosave"].pc = "delay" /\ Save("autosave", {}, screen') /\ UNCHANGED screen
    BY <1>3 DEF AutosaveFires, model
  <2>2. open /\ screen \in Row
    BY <1>0, <2>1, QuietOutside, TypeFacts
  <2>3. /\ UNCHANGED <<rows, nextId, open, visits, opened, noteId, note>>
        /\ popped' \in BOOLEAN /\ Word("autosave")
    BY <1>0, <1>3, <2>1, Words DEF AutosaveFires, table, ui, model, Types, TypeOK
  <2>4. Moves("autosave") /\ SavesScreen("autosave")
    BY <2>1, <2>2, <2>3, SaveShape
  <2> QED BY <1>0, <2>4 DEF Shape
<1>4. CASE ModelAnswers
  BY <1>0, <1>4, AiShape DEF Shape
<1>5. CASE Loaded
  BY <1>0, <1>5, LoadShape DEF Shape
<1>6. CASE \E d \in Deletes : Deleted(d)
  BY <1>0, <1>6, DeletedShape DEF Shape
<1>7. CASE \E j \in Jobs : Resume(j)
  BY <1>7, ResumeShape DEF Shape
<1> QED BY <1>1, <1>2, <1>3, <1>4, <1>5, <1>6, <1>7 DEF Next, Coroutines

-----------------------------------------------------------------------------
(* The types, the duties and the queue.                                      *)

LEMMA MoveTypes ==
  ASSUME Types, NEW j \in Jobs, Moves(j), Shape(j)
  PROVE  /\ noteId' \in 0..(nextId - 1) /\ note' \in 0..(nextId - 1)
         /\ \A k \in Jobs : job'[k].id \in 0..(nextId - 1)
<1>1. /\ noteId \in 0..(nextId - 1) /\ note \in 0..(nextId - 1) /\ 0 \in 0..(nextId - 1)
      /\ \A k \in Jobs : job[k].id \in 0..(nextId - 1)
  BY DEF Types, TypeOK
<1>2. job'[j].id \in {0, noteId, note, job[j].id}
  <2>1. CASE Retypes(j) \/ Asks(j)
    BY <2>1 DEF Retypes, Asks
  <2>2. CASE SavesScreen(j) \/ Toggles(j) \/ Removes(j) \/ Summarizes(j)
    BY <2>2 DEF SavesScreen, Toggles, Removes, Summarizes, Call
  <2>3. CASE ReadsRow(j)
    BY <2>3, ReadFacts DEF ReadsRow
  <2>4. CASE Ends(j) \/ Names(j) \/ Rereads(j) \/ Updates(j) \/ Loads(j)
    BY <2>4 DEF Ends, Names, Rereads, Updates, Loads, Ended, Call
  <2> QED BY <2>1, <2>2, <2>3, <2>4 DEF Shape
<1>3. noteId' \in {0, noteId, job[j].id} /\ note' \in {0, note, job[j].id}
  BY DEF Shape, Retypes, SavesScreen, Toggles, Asks, Removes, ReadsRow, Summarizes, Ends, Names,
         Rereads, Updates, Loads, KeepsNote, KeepsModel
<1>4. \A k \in Jobs \ {j} : job'[k].id \in 0..(nextId - 1)
  BY <1>1 DEF Moves
<1>5. noteId' \in 0..(nextId - 1) /\ note' \in 0..(nextId - 1)
  BY <1>1, <1>3
<1>6. job'[j].id \in 0..(nextId - 1)
  BY <1>1, <1>2
<1> QED BY <1>4, <1>5, <1>6

LEMMA CountStep ==
  ASSUME Types, Next
  PROVE  edits' \in 0..(MaxEdits + 1) /\ visits' \in 0..MaxVisits
<1>1. edits \in 0..(MaxEdits + 1) /\ visits \in 0..MaxVisits /\ MaxEdits \in Nat /\ MaxVisits \in Nat
  BY EditorAssumption DEF Types, TypeOK
<1>2. CASE \E id \in DOMAIN rows \cup {0} : Open(id)
  BY <1>1, <1>2 DEF Open
<1>3. CASE Edit /\ UNCHANGED visits
  BY <1>1, <1>3 DEF Edit, Act
<1>4. CASE Act(MaxEdits + 1) /\ UNCHANGED visits
  BY <1>1, <1>4 DEF Act
<1>5. CASE UNCHANGED <<edits, visits>>
  BY <1>1, <1>5
<1>6. CASE User
  <2>1. ASSUME NEW o, AskModel(o) \/ TogglePinned(o) \/ Delete(o)
        PROVE  (Edit \/ Act(MaxEdits + 1)) /\ UNCHANGED visits
    BY <2>1 DEF AskModel, TogglePinned, Delete, ui
  <2>2. CASE Type \/ EditTags \/ Back
    BY <1>3, <1>5, <2>2 DEF Type, EditTags, Back, ui
  <2> QED BY <1>2, <1>3, <1>4, <1>6, <2>1, <2>2 DEF User
<1>7. CASE Database
  BY <1>5, <1>7 DEF Database, ExecuteWrite, ReadRow, ui
<1>8. CASE AutosaveFires \/ ModelAnswers \/ Loaded \/ Cleared
  BY <1>5, <1>8 DEF AutosaveFires, ModelAnswers, Loaded, Cleared, ui
<1>9. CASE (\E d \in Deletes : Deleted(d)) \/ \E j \in Jobs : Resume(j)
  BY <1>5, <1>9 DEF Deleted, Resume, Inserted, ReadBack, WriteBack, ui
<1> QED BY <1>6, <1>7, <1>8, <1>9 DEF Next, Coroutines

\* What the types amount to, for a step to re-establish.
LEMMA TypesAre ==
  ASSUME Types
  PROVE  /\ nextId \in Nat \ {0} /\ DOMAIN rows \subseteq 1..(nextId - 1)
         /\ rows \in [DOMAIN rows -> Row]
         /\ {noteId, note, opened} \subseteq 0..(nextId - 1)
         /\ screen \in Row /\ writes \in Seq(Record) /\ job \in [Jobs -> Coroutine]
         /\ \A j \in Jobs : job[j].id \in 0..(nextId - 1)
         /\ inserted \subseteq 1..(nextId - 1)
         /\ deleting \in BOOLEAN /\ open \in BOOLEAN /\ popped \in BOOLEAN
         /\ mishaps \subseteq Mishaps
BY DEF Types, TypeOK

LEMMA TypesFrom ==
  ASSUME /\ nextId' \in Nat \ {0} /\ DOMAIN rows' \subseteq 1..(nextId' - 1)
         /\ rows' \in [DOMAIN rows' -> Row]
         /\ {noteId', note', opened'} \subseteq 0..(nextId' - 1)
         /\ screen' \in Row /\ writes' \in Seq(Record) /\ job' \in [Jobs -> Coroutine]
         /\ \A j \in Jobs : job'[j].id \in 0..(nextId' - 1)
         /\ inserted' \subseteq 1..(nextId' - 1)
         /\ deleting' \in BOOLEAN /\ open' \in BOOLEAN /\ popped' \in BOOLEAN
         /\ mishaps' \subseteq Mishaps,
         edits' \in 0..(MaxEdits + 1), visits' \in 0..MaxVisits
  PROVE  Types'
<1>1. \A i \in DOMAIN rows' : rows'[i] \in Row
  OBVIOUS
<1>2. \A j \in Jobs :
       /\ job'[j].pc \in {"none", "delay", "thinking", "call", "back"}
       /\ job'[j].op \in Reads \cup {"none", "summarize", "suggestTags", "insert", "update",
                                    "setPinned", "delete"}
       /\ job'[j].row \in Row
  BY DEF Coroutine, Ops
<1>3. \A i \in DOMAIN writes' : writes'[i].by \in Jobs \cup {"nobody", "left"}
  <2>1. \A i \in DOMAIN writes' : writes'[i] \in Record
    OBVIOUS
  <2> QED BY <2>1 DEF Record
<1> QED BY <1>1, <1>2, <1>3 DEF Types, TypeOK

LEMMA TypesStep ==
  ASSUME Types, DutyInv, QueueInv, Next
  PROVE  Types'
<1>1. edits' \in 0..(MaxEdits + 1) /\ visits' \in 0..MaxVisits
  BY CountStep
<1>2. CASE Opens
  <2>1. PICK id \in DOMAIN rows \cup {0} : Open(id)
    BY <1>2 DEF Opens
  <2>2. id \in 0..(nextId - 1) /\ 0 \in 0..(nextId - 1) /\ id \in Nat
    BY TypesAre
  <2>3. UNCHANGED <<rows, nextId>> /\ noteId' = 0 /\ note' = 0 /\ opened' = id /\ screen' = Blank
        /\ inserted' = {} /\ deleting' = FALSE /\ open' = TRUE /\ mishaps' = {}
        /\ UNCHANGED popped
    BY <2>1 DEF Open, table
  <2>4. job' \in [Jobs -> Coroutine] /\ writes' \in Seq(Record)
    BY <2>1, <2>2, OpenFacts
  <2>5. \A j \in Jobs : job'[j].id \in {0, id}
    <3>1. \A j \in Jobs : job'[j] = Ended \/ job'[j] = Call("load", id, Blank)
      BY <2>1, <2>2, OpenFacts
    <3> QED BY <3>1 DEF Ended, Call
  <2>6. \A j \in Jobs : job'[j].id \in 0..(nextId' - 1)
    BY <2>2, <2>3, <2>5
  <2> QED BY <1>1, <2>2, <2>3, <2>4, <2>6, TypesAre, TypesFrom, BlankIsRow
<1>3. CASE Cleared
  <2>1. /\ UNCHANGED <<rows, nextId, opened, inserted>> /\ deleting' \in BOOLEAN
        /\ open' = FALSE /\ popped' = FALSE /\ noteId' = 0 /\ note' = 0 /\ screen' = Blank
        /\ job' \in [Jobs -> Coroutine] /\ writes' \in Seq(Record)
        /\ (\A j \in Jobs : job'[j] = Ended) /\ mishaps' \subseteq Mishaps
    BY <1>3, ClearedFacts, TypesAre
  <2>2. 0 \in 0..(nextId' - 1) /\ Ended.id = 0
    BY <2>1, TypesAre DEF Ended
  <2> QED BY <1>1, <2>1, <2>2, TypesAre, TypesFrom, BlankIsRow
<1>4. CASE ExecuteWrite
  <2> DEFINE w == writes[1]
  <2>1. /\ w \in Queued /\ w \in Record
        /\ writes' \in Seq(Record) /\ job' \in [Jobs -> Coroutine]
        /\ rows' \in [DOMAIN rows' -> Row] /\ mishaps' \subseteq mishaps \cup Mishaps
        /\ UNCHANGED <<ui, model, deleting>>
    BY <1>4, ExecuteFacts
  <2>2. \A k \in Jobs : job'[k].id \in {0, job[k].id, w.id} \/ (job'[k].id = nextId /\ nextId' = nextId + 1)
    <3>1. /\ \A k \in Jobs \ {w.by} : job'[k] = job[k]
          /\ w.by \in Jobs => \/ job'[w.by] = Ended
                              \/ job'[w.by].id = IF w.op = "insert" THEN nextId ELSE w.id
          /\ w.op = "insert" => nextId' = nextId + 1
      BY <1>4, ExecuteFacts
    <3>2. Ended.id = 0
      BY DEF Ended
    <3> QED BY <3>1, <3>2
  <2>3. w.id < nextId /\ w.id \in Nat
    BY <2>1, TypeFacts DEF QueueInv, WaitInv, Waited
  <2>4. /\ nextId' \in {nextId, nextId + 1}
        /\ DOMAIN rows' \subseteq DOMAIN rows \/ (DOMAIN rows' = DOMAIN rows \cup {nextId} /\ nextId' = nextId + 1)
        /\ inserted' = inserted \/ (inserted' = inserted \cup {nextId} /\ nextId' = nextId + 1)
    BY <1>4, ExecuteFacts
  <2>5. nextId' \in Nat \ {0} /\ DOMAIN rows' \subseteq 1..(nextId' - 1) /\ inserted' \subseteq 1..(nextId' - 1)
    BY <2>4, TypesAre
  <2>6. \A k \in Jobs : job'[k].id \in 0..(nextId' - 1)
    <3>1. /\ nextId \in Nat \ {0} /\ w.id \in 0..(nextId' - 1) /\ 0 \in 0..(nextId' - 1)
          /\ \A k \in Jobs : job[k].id \in 0..(nextId' - 1)
      BY <2>3, <2>4, TypesAre
    <3> QED BY <2>2, <3>1
  <2>7. /\ {noteId', note', opened'} \subseteq 0..(nextId' - 1) /\ screen' \in Row
        /\ open' \in BOOLEAN /\ popped' \in BOOLEAN
    BY <2>1, <2>4, TypesAre DEF ui, model
  <2> QED BY <1>1, <2>1, <2>5, <2>6, <2>7, TypesAre, TypesFrom
<1>5. ASSUME NEW j \in Jobs, Moves(j), Shape(j)
      PROVE  Types'
  <2>1. /\ noteId' \in 0..(nextId - 1) /\ note' \in 0..(nextId - 1)
        /\ \A k \in Jobs : job'[k].id \in 0..(nextId - 1)
    BY <1>5, MoveTypes
  <2>2. /\ UNCHANGED <<rows, nextId, open, opened, inserted>>
        /\ deleting' \in BOOLEAN /\ popped' \in BOOLEAN
        /\ job' \in [Jobs -> Coroutine] /\ writes' \in Seq(Record) /\ screen' \in Row
        /\ mishaps' \subseteq Mishaps
    BY <1>5 DEF Moves, Word
  <2> QED BY <1>1, <2>1, <2>2, TypesAre, TypesFrom
<1>6. CASE Pops
  <2>1. deleting' \in BOOLEAN /\ popped' \in BOOLEAN /\ mishaps' \subseteq Mishaps
    BY <1>6, TypesAre DEF Pops, Mishaps
  <2>2. UNCHANGED <<rows, nextId, writes, open, opened, noteId, note, screen, job, inserted>>
    BY <1>6 DEF Pops
  <2> QED BY <1>1, <2>1, <2>2, TypesAre, TypesFrom
<1> QED BY <1>2, <1>3, <1>4, <1>5, <1>6, StepShape

\* Popping the editor leaves alone all that the invariant is about, but for a
\* delete that finds no note.
LEMMA PopKeeps ==
  ASSUME Pops
  PROVE  /\ DutyInv => DutyInv'
         /\ QueueInv => QueueInv'
         /\ MakerInv => MakerInv'
         /\ LoadInv => LoadInv'
         /\ CallInv => CallInv'
         /\ OpenedInv => OpenedInv'
         /\ NoteInv => NoteInv'
         /\ FirstInv => FirstInv'
         /\ CopyInv => CopyInv'
         /\ ScreenInv => ScreenInv'
         /\ open /\ UNCHANGED <<open, rows, noteId>> /\ mishaps \subseteq mishaps'
<1>1. UNCHANGED <<rows, nextId, writes, open, visits, opened, noteId, note, screen, job, inserted>>
  BY DEF Pops
<1>2. UNCHANGED Queued
  BY <1>1 DEF Queued
<1>3. (DutyInv => DutyInv') /\ (QueueInv => QueueInv')
  BY <1>1, <1>2 DEF DutyInv, Duty, QueueInv, WaitInv, Waited, InTurn
<1>4. (MakerInv => MakerInv') /\ (LoadInv => LoadInv') /\ (CallInv => CallInv')
  BY <1>1, <1>2 DEF MakerInv, LoadInv, CallInv, Making, Loading, About
<1>5. (OpenedInv => OpenedInv') /\ (NoteInv => NoteInv') /\ (FirstInv => FirstInv')
  BY <1>1, <1>2 DEF OpenedInv, NoteInv, FirstInv, Making, Loading, Rereading, Pending
<1>6. (CopyInv => CopyInv') /\ (ScreenInv => ScreenInv')
  BY <1>1, <1>2 DEF CopyInv, ScreenInv, Held, PinHeld, Pending, LastPin, HasPin
<1> QED BY <1>3, <1>4, <1>5, <1>6 DEF Pops

LEMMA MoveDuty ==
  ASSUME Types, DutyInv, NEW j \in Jobs, Moves(j), Shape(j)
  PROVE  Duty(j, job'[j])
<1>1. Duty(j, job[j])
  BY DEF DutyInv
<1>2. CASE Retypes(j) \/ Asks(j)
  BY <1>2 DEF Retypes, Asks, Duty
<1>3. CASE SavesScreen(j) \/ Toggles(j) \/ Removes(j) \/ Summarizes(j)
  BY <1>3 DEF SavesScreen, Toggles, Removes, Summarizes, Call, Duty, Does, Pins, Deletes
<1>4. CASE ReadsRow(j)
  BY <1>1, <1>4, ReadFacts DEF ReadsRow, Duty
<1>5. CASE Ends(j) \/ Rereads(j) \/ Loads(j)
  BY <1>5 DEF Ends, Rereads, Loads, Ended, Duty
<1>6. CASE Names(j) \/ Updates(j)
  <2>1. j \in {"autosave", "ai"}
    BY <1>1, <1>6 DEF Names, Updates, Duty, Does, Jobs, Pins, Deletes
  <2> QED BY <1>6, <2>1 DEF Names, Updates, Call, Duty, Does, Pins, Deletes
<1> QED BY <1>2, <1>3, <1>4, <1>5, <1>6 DEF Shape

LEMMA DutyStep ==
  ASSUME Types, DutyInv, QueueInv, Next
  PROVE  DutyInv'
<1>1. CASE Opens
  <2>1. PICK id \in DOMAIN rows \cup {0} : Open(id)
    BY <1>1 DEF Opens
  <2>2. id \in Nat
    BY TypeFacts
  <2>3. open' /\ screen' = Blank
    BY <2>1 DEF Open
  <2>4. \A j \in Jobs : Duty(j, job'[j])
    <3>1. \A j \in Jobs : job'[j] = Ended \/ (j = "load" /\ job'[j] = Call("load", id, Blank))
      BY <2>1, <2>2, OpenFacts
    <3> QED BY <3>1 DEF Duty, Ended, Call, Does, Pins, Deletes
  <2> QED BY <2>3, <2>4 DEF DutyInv, Blank
<1>2. CASE Cleared
  <2>1. \A j \in Jobs : job'[j] = Ended
    BY <1>2, ClearedFacts
  <2>2. ~open' /\ noteId' = 0 /\ note' = 0 /\ screen' = Blank
    BY <1>2, ClearedFacts
  <2> QED BY <2>1, <2>2 DEF DutyInv, Duty, Ended, Blank
<1>3. CASE ExecuteWrite
  <2> DEFINE w == writes[1]
  <2>1. /\ \A k \in Jobs \ {w.by} : job'[k] = job[k]
        /\ w.by \in Jobs => /\ job[w.by].pc = "call" /\ job[w.by].op = w.op
                            /\ \/ job'[w.by] = Ended
                               \/ job'[w.by].pc = "back" /\ job'[w.by].op = w.op
        /\ UNCHANGED <<ui, model, deleting>>
    BY <1>3, ExecuteFacts
  <2>2. \A j \in Jobs : Duty(j, job'[j])
    BY <2>1 DEF DutyInv, Duty, Ended
  <2>3. ~open => w.by \notin Jobs
    BY <2>1, BlankIsRow DEF DutyInv, Ended
  <2> QED BY <2>1, <2>2, <2>3 DEF DutyInv, ui, model
<1>4. ASSUME NEW j \in Jobs, Moves(j), Shape(j)
      PROVE  DutyInv'
  <2>1. \A k \in Jobs : Duty(k, job'[k])
    BY <1>4, MoveDuty DEF Moves, DutyInv
  <2> QED BY <1>4, <2>1 DEF Moves, DutyInv
<1> QED BY <1>1, <1>2, <1>3, <1>4, PopKeeps, StepShape

LEMMA QueueStep ==
  ASSUME Types, DutyInv, QueueInv, Next
  PROVE  QueueInv'
<1>0. \A w \in Queued : Waited(w) /\ w.by \in Jobs \cup {"nobody", "left"} /\ w.id \in Nat
  BY TypeFacts DEF QueueInv, WaitInv, Record
<1>00. "nobody" \notin Jobs /\ "left" \notin Jobs
  BY DEF Jobs, Pins, Deletes
<1>1. CASE Opens
  <2>1. PICK id \in DOMAIN rows \cup {0} : Open(id)
    BY <1>1 DEF Opens
  <2>2. id \in Nat
    BY TypeFacts
  <2>3. nextId' = nextId /\ inserted' = {}
    BY <2>1 DEF Open, table
  <2>4. \A v \in Queued' : v.by = "left" /\ v.id < nextId /\ (v.op = "insert" <=> v.id = 0)
    BY <1>0, <2>1, <2>2, OpenFacts DEF Waited
  <2>5. WaitInv'
    BY <1>00, <2>3, <2>4 DEF WaitInv, Waited
  <2> QED BY <2>1, <2>2, <2>5, OpenFacts DEF QueueInv
<1>2. CASE Cleared
  <2>1. UNCHANGED <<nextId, inserted>> /\ open' = FALSE
    BY <1>2, ClearedFacts
  <2>2. ASSUME NEW v \in Queued' PROVE Waited(v)'
    <3>1. PICK w \in Queued : (v = w /\ w.by \notin Jobs) \/ (w.by \in Jobs /\ Orphan(w, v))
      BY <1>2, <2>2, ClearedFacts
    <3> QED BY <1>0, <1>00, <2>1, <3>1 DEF Waited, Orphan
  <2> QED BY <1>2, <2>2, ClearedFacts DEF QueueInv, WaitInv
<1>3. CASE ExecuteWrite
  <2> DEFINE w == writes[1]
  <2>1. /\ InTurn(writes') /\ UNCHANGED <<ui, model>>
        /\ \A v \in Queued' : v \in Queued /\ v.by # "nobody" /\ (v.by \in Jobs => v.by # w.by)
        /\ \A k \in Jobs \ {w.by} : job'[k] = job[k]
        /\ nextId' \in {nextId, nextId + 1}
        /\ inserted' \subseteq inserted \cup {nextId}
    BY <1>3, ExecuteFacts
  <2>2. ASSUME NEW v \in Queued' PROVE Waited(v)'
    <3>1. Waited(v) /\ v.id \in Nat /\ v \in Queued /\ v.by # "nobody"
      BY <1>0, <2>1, <2>2
    <3>2. v.by \in Jobs => job'[v.by] = job[v.by]
      BY <2>1, <2>2
    <3>3. v.id < nextId' /\ (v.id \notin inserted => v.id \notin inserted')
      BY <2>1, <3>1, TypeFacts DEF Waited
    <3> QED BY <3>1, <3>2, <3>3 DEF Waited
  <2> QED BY <2>1, <2>2 DEF QueueInv, WaitInv
<1>4. ASSUME NEW j \in Jobs, Moves(j), Shape(j)
      PROVE  QueueInv'
  <2>1. \A k \in Jobs : job'[k].id \in Nat /\ job'[k].id < nextId
    BY <1>4, MoveTypes, TypeFacts
  <2>2. job'[j].pc = "call" /\ job'[j].op \in Writes =>
          /\ job'[j].op = "insert" <=> job'[j].id = 0
    <3>1. CASE Retypes(j) \/ Asks(j) \/ ReadsRow(j)
      BY <1>4, <3>1, ReadFacts DEF Retypes, Asks, ReadsRow
    <3>2. CASE SavesScreen(j) \/ Toggles(j) \/ Removes(j) \/ Summarizes(j)
      BY <3>2 DEF SavesScreen, Toggles, Removes, Summarizes, Call, Writes
    <3>3. CASE Ends(j) \/ Names(j) \/ Rereads(j) \/ Updates(j) \/ Loads(j)
      BY <3>3 DEF Ends, Names, Rereads, Updates, Loads, Ended, Call, Writes
    <3> QED BY <1>4, <3>1, <3>2, <3>3 DEF Shape
  <2>3. ASSUME NEW v \in Queued' PROVE Waited(v)'
    <3>1. UNCHANGED <<nextId, open, inserted>> /\ open /\ \A k \in Jobs \ {j} : job'[k] = job[k]
      BY <1>4 DEF Moves
    <3>2. CASE v \in Queued /\ v.by # j
      BY <1>0, <3>1, <3>2 DEF Waited
    <3>3. CASE j = "autosave" /\ \E u \in Queued : u.by = j /\ Orphan(u, v)
      <4>1. PICK u \in Queued : u.by = "autosave" /\ Orphan(u, v)
        BY <3>3
      <4>2. u.op \in {"insert", "update"}
        <5>1. job["autosave"].pc = "call" /\ job["autosave"].op = u.op
          BY <1>0, <4>1 DEF Waited, Jobs
        <5>2. u.op \in Does("autosave") /\ u.op \in Writes
          BY <3>3, <5>1, TypeFacts DEF DutyInv, Duty, Record
        <5> QED BY <5>2 DEF Does, Pins, Deletes, Writes
      <4> QED BY <1>0, <1>00, <3>1, <4>1, <4>2 DEF Waited, Orphan
    <3>4. CASE /\ v.by = j /\ job'[j].pc = "call" /\ job'[j].op \in Writes
               /\ v.op = job'[j].op /\ v.id = job'[j].id /\ v.row = job'[j].row
      BY <1>00, <2>1, <2>2, <3>1, <3>4 DEF Waited
    <3> QED BY <1>4, <2>3, <3>2, <3>3, <3>4 DEF Moves
  <2> QED BY <1>4, <2>3 DEF Moves, QueueInv, WaitInv
<1> QED BY <1>1, <1>2, <1>3, <1>4, PopKeeps, StepShape

-----------------------------------------------------------------------------
(* One note at a time.                                                       *)

\* What a move does to who makes the note and to the load.
LEMMA MakingMoves ==
  ASSUME Types, DutyInv, Whole', NEW j \in Jobs, Moves(j), Shape(j),
         \A k \in Jobs : Making(k) => noteId = 0
  PROVE  /\ \A k \in Jobs \ {j} : Making(k)' <=> Making(k)
         /\ ~(SavesScreen(j) /\ noteId = 0) => ~Making(j)'
         /\ Making(j) => Names(j)
         /\ Loading' => Loading
         /\ ~Loads(j) => /\ Loading => Loading'
                         /\ ReadsRow("load") \/ job'["load"] = job["load"]
<1>0. \A k \in Jobs \ {j} : job'[k] = job[k]
  BY DEF Moves
<1>1. \A k \in Jobs \ {j} : Making(k)' <=> Making(k)
  BY <1>0 DEF Making, InCall
<1>2. ~(SavesScreen(j) /\ noteId = 0) => ~Making(j)'
  <2>1. CASE Retypes(j) \/ Asks(j)
    BY <2>1 DEF Retypes, Asks, Making, InCall
  <2>2. CASE SavesScreen(j) /\ noteId # 0
    BY <2>2 DEF SavesScreen, Call, Making, InCall
  <2>3. CASE Toggles(j) \/ Removes(j) \/ Summarizes(j) \/ Names(j) \/ Updates(j)
    BY <2>3 DEF Toggles, Removes, Summarizes, Names, Updates, Call, Making, InCall
  <2>4. CASE ReadsRow(j)
    BY <2>4, ReadFacts DEF ReadsRow, Making, InCall, Reads
  <2>5. CASE Ends(j) \/ Rereads(j) \/ Loads(j)
    BY <2>5 DEF Ends, Rereads, Loads, Ended, Making, InCall
  <2> QED BY <2>1, <2>2, <2>3, <2>4, <2>5 DEF Shape
<1>3. Making(j) => Names(j)
  <2> SUFFICES ASSUME Making(j) PROVE Names(j)
    OBVIOUS
  <2>1. noteId = 0 /\ job[j].pc \in {"call", "back"} /\ job[j].op = "insert"
    BY DEF Making, InCall
  <2>2. ~(Retypes(j) \/ SavesScreen(j))
    BY DEF Retypes, SavesScreen, Spares
  <2>3. ~(Toggles(j) \/ Asks(j) \/ Removes(j) \/ Summarizes(j) \/ Rereads(j) \/ Updates(j) \/ Loads(j))
    BY <2>1 DEF Toggles, Asks, Removes, Summarizes, Rereads, Updates, Loads
  <2>4. ~(ReadsRow(j) \/ Ends(j))
    BY <2>1 DEF ReadsRow, ReadRow, Reads, Ends
  <2> QED BY <2>2, <2>3, <2>4 DEF Shape
<1>4. CASE j = "load"
  <2>1. Duty(j, job[j])
    BY DEF DutyInv
  <2>2. Loads(j) \/ ReadsRow(j)
    <3>1. ~(Retypes(j) \/ SavesScreen(j) \/ Toggles(j) \/ Asks(j) \/ Removes(j) \/ Summarizes(j))
      BY <1>4 DEF Retypes, SavesScreen, Toggles, Asks, Removes, Summarizes, Pins, Deletes
    <3>2. ~(Ends(j) \/ Names(j) \/ Rereads(j) \/ Updates(j))
      BY <1>4, <2>1 DEF Ends, Names, Rereads, Updates, Duty, Does, Pins, Deletes
    <3> QED BY <3>1, <3>2 DEF Shape
  <2>3. ~Loads(j) => ReadsRow(j) /\ (Loading <=> Loading')
    BY <1>4, <2>2, ReadFacts DEF ReadsRow, Loading, InCall
  <2>4. Loads(j) => ~Loading'
    BY <1>4 DEF Loads, Loading, InCall, Ended
  <2> QED BY <1>1, <1>2, <1>3, <1>4, <2>3, <2>4
<1>5. CASE j # "load"
  <2>1. job'["load"] = job["load"]
    BY <1>0, <1>5 DEF Jobs
  <2> QED BY <1>1, <1>2, <1>3, <2>1 DEF Loading
<1> QED BY <1>4, <1>5

\* What is new in the queue after a move.
LEMMA QueueMoves ==
  ASSUME Types, DutyInv, QueueInv, Whole', NEW j \in Jobs, Moves(j), Shape(j),
         NEW v \in Queued', v.by = "nobody"
  PROVE  \/ v \in Queued
         \/ /\ j = "autosave" /\ v.op = "update"
            /\ job[j].pc = "call" /\ job[j].op = "update" /\ v.id = job[j].id /\ v.row = job[j].row
<1>1. v \in Queued \/ (j = "autosave" /\ \E u \in Queued : u.by = j /\ Orphan(u, v))
  BY DEF Moves, Jobs, Pins, Deletes
<1>2. ASSUME j = "autosave", NEW u \in Queued, u.by = j, Orphan(u, v)
      PROVE  /\ v.op = "update" /\ job[j].pc = "call" /\ job[j].op = "update"
             /\ v.id = job[j].id /\ v.row = job[j].row
  <2>1. /\ job[j].pc = "call" /\ job[j].op = u.op /\ job[j].id = u.id /\ job[j].row = u.row
        /\ u.op \in Writes
    BY <1>2, TypeFacts DEF QueueInv, WaitInv, Waited, Record
  <2>2. u.op \in {"insert", "update"}
    BY <1>2, <2>1 DEF DutyInv, Duty, Does, Pins, Deletes, Writes
  <2>3. Retypes(j) \/ SavesScreen(j)
    <3>1. ~(Toggles(j) \/ Asks(j) \/ Removes(j) \/ Summarizes(j))
      BY <1>2 DEF Toggles, Asks, Removes, Summarizes, Pins, Deletes
    <3>2. ~(ReadsRow(j) \/ Ends(j) \/ Names(j) \/ Rereads(j) \/ Updates(j) \/ Loads(j))
      BY <2>1, <2>2 DEF ReadsRow, ReadRow, Reads, Ends, Names, Rereads, Updates, Loads
    <3> QED BY <3>1, <3>2 DEF Shape
  <2>4. ~Making(j)
    BY <2>3 DEF Retypes, SavesScreen, Spares
  <2> QED BY <1>2, <2>1, <2>2, <2>4 DEF Making, InCall, Orphan
<1> QED BY <1>1, <1>2

LEMMA MakerStep ==
  ASSUME Types, DutyInv, QueueInv, WholeInv, Whole', Next
  PROVE  MakerInv'
<1>0. "nobody" \notin Jobs /\ "left" \notin Jobs /\ "load" \in Jobs
  BY DEF Jobs, Pins, Deletes
<1>1. CASE Opens
  <2>1. PICK id \in DOMAIN rows \cup {0} : Open(id)
    BY <1>1 DEF Opens
  <2>2. id \in Nat
    BY TypeFacts
  <2>3. \A j \in Jobs : job'[j] = Ended \/ (j = "load" /\ id # 0 /\ job'[j] = Call("load", id, Blank))
    BY <2>1, <2>2, OpenFacts
  <2>4. /\ \A j \in Jobs : ~Making(j)'
        /\ Loading' => id # 0
    BY <1>0, <2>3 DEF Making, Loading, InCall, Ended, Call
  <2>5. noteId' = 0 /\ opened' = id /\ inserted' = {}
    BY <2>1 DEF Open
  <2>6. \A v \in Queued' : v.by # "nobody"
    BY <2>1, <2>2, OpenFacts
  <2> QED BY <2>4, <2>5, <2>6 DEF MakerInv
<1>2. CASE Cleared
  <2>1. /\ noteId' = 0 /\ open' = FALSE /\ inserted' = inserted /\ \A j \in Jobs : job'[j] = Ended
        /\ mishaps \subseteq mishaps' /\ \A j \in Jobs : ~InCall(job[j], {"insert"})
    BY <1>2, ClearedFacts DEF Whole
  <2>2. MakerInv
    BY <2>1 DEF WholeInv, Whole
  <2>3. \A j \in Jobs : ~InCall(job'[j], {"insert"}) /\ ~InCall(job'[j], {"load"})
    BY <2>1 DEF InCall, Ended
  <2>4. ASSUME NEW v \in Queued', v.by = "nobody"
        PROVE  v.op # "insert"
    <3>1. PICK w \in Queued : (v = w /\ w.by \notin Jobs) \/ (w.by \in Jobs /\ Orphan(w, v))
      BY <1>2, <2>4, ClearedFacts
    <3>2. CASE v = w
      BY <2>2, <2>4, <3>2 DEF MakerInv
    <3>3. CASE w.by \in Jobs /\ Orphan(w, v)
      BY <2>1, <3>3 DEF QueueInv, WaitInv, Waited, Orphan, InCall
    <3> QED BY <3>1, <3>2, <3>3
  <2> QED BY <1>0, <2>1, <2>2, <2>3, <2>4 DEF MakerInv, Making, Loading
<1>3. CASE ExecuteWrite
  <2> DEFINE w == writes[1]
  <2>1. /\ w \in Queued /\ UNCHANGED <<noteId, open, opened>> /\ mishaps \subseteq mishaps'
        /\ \A v \in Queued' : v \in Queued
        /\ \A k \in Jobs \ {w.by} : job'[k] = job[k]
    BY <1>3, ExecuteFacts DEF ui, model
  <2>2. w.by \in Jobs =>
              /\ job[w.by].pc = "call" /\ job[w.by].op = w.op
              /\ \/ job'[w.by] = Ended /\ w.op # "insert"
                 \/ job'[w.by].pc = "back" /\ job'[w.by].op = w.op
              /\ w.op = "insert" => job'[w.by].id = nextId
    BY <1>3, ExecuteFacts
  <2>3. inserted' = IF w.op = "insert" /\ w.by # "left" THEN inserted \cup {nextId} ELSE inserted
    BY <1>3, ExecuteFacts
  <2>4. MakerInv
    BY <2>1 DEF WholeInv, Whole
  <2>5. w.op \in Writes /\ w.by \in Jobs \cup {"nobody", "left"}
    BY <2>1, TypeFacts DEF Record
  <2>6. (\A k \in Jobs : Making(k)' <=> Making(k)) /\ (Loading' <=> Loading)
    BY <1>0, <2>1, <2>2, <2>5 DEF Making, Loading, InCall, Writes, Ended
  <2>7. CASE w.op = "insert" /\ w.by \in Jobs
    <3>1. Making(w.by) /\ inserted = {} /\ inserted' = {nextId}
      BY <1>0, <2>2, <2>3, <2>4, <2>7 DEF MakerInv, Making, InCall
    <3>2. \A k \in Jobs : Making(k) => k = w.by
      BY <2>4, <2>7, <3>1 DEF MakerInv
    <3> QED BY <2>1, <2>2, <2>4, <2>6, <2>7, <3>1, <3>2 DEF MakerInv
  <2>8. CASE w.op # "insert" \/ w.by \notin Jobs
    <3>1. inserted' = inserted
      BY <2>1, <2>3, <2>4, <2>5, <2>8 DEF MakerInv
    <3>2. \A k \in Jobs : Making(k) => job'[k] = job[k]
      BY <2>1, <2>2, <2>8 DEF Making, InCall
    <3> QED BY <2>1, <2>4, <2>6, <3>1, <3>2 DEF MakerInv
  <2> QED BY <2>7, <2>8
<1>4. ASSUME NEW j \in Jobs, Moves(j), Shape(j)
      PROVE  MakerInv'
  <2>1. /\ UNCHANGED <<rows, open, opened, inserted>> /\ mishaps \subseteq mishaps' /\ open
        /\ \A k \in Jobs \ {j} : job'[k] = job[k]
    BY <1>4 DEF Moves
  <2>2. MakerInv
    BY <2>1 DEF WholeInv, Whole
  <2>3. \A k \in Jobs : Making(k) => noteId = 0
    BY <2>2 DEF MakerInv
  <2>4. /\ \A k \in Jobs \ {j} : Making(k)' <=> Making(k)
        /\ ~(SavesScreen(j) /\ noteId = 0) => ~Making(j)'
        /\ Making(j) => Names(j)
        /\ Loading' => Loading
        /\ ~Loads(j) => (Loading => Loading')
    BY <1>4, <2>3, MakingMoves
  <2>5. \A v \in Queued' : v.by = "nobody" => v.op # "insert"
    BY <1>4, <2>2, QueueMoves DEF MakerInv
  <2>6. CASE Names(j)
    <3>1. Making(j) /\ noteId = 0 /\ noteId' = job[j].id
      BY <2>6 DEF Names, Making, InCall
    <3>2. /\ inserted = {job[j].id} /\ ~Loading /\ \A k \in Jobs \ {j} : ~Making(k)
      BY <2>2, <2>6, <3>1 DEF MakerInv, Names
    <3>3. ~(SavesScreen(j) /\ noteId = 0)
      BY <2>6, <3>1 DEF SavesScreen, Names, Spares
    <3>4. noteId' # 0
      BY <3>1, <3>2, TypeFacts
    <3>5. \A k \in Jobs : ~Making(k)'
      BY <2>4, <3>2, <3>3
    <3> QED BY <2>1, <2>2, <2>4, <2>5, <3>1, <3>2, <3>4, <3>5 DEF MakerInv
  <2>7. CASE SavesScreen(j) /\ noteId = 0 /\ ~Names(j)
    <3>1. /\ \A k \in Jobs \ {j} : ~InCall(job[k], {"insert", "load"})
          /\ j # "load" /\ noteId' = 0 /\ job'[j].pc = "call"
      BY <2>7 DEF SavesScreen, KeepsNote, Call
    <3>2. (\A k \in Jobs \ {j} : ~Making(k)) /\ ~Loading /\ ~Making(j)
      BY <1>0, <2>4, <2>7, <3>1 DEF Making, Loading, InCall
    <3>3. inserted = {}
      BY <2>1, <2>2, <2>7, <3>2 DEF MakerInv
    <3> QED BY <2>1, <2>4, <2>5, <3>1, <3>2, <3>3 DEF MakerInv
  <2>8. CASE Loads(j)
    <3>1. Loading /\ noteId = 0
      BY <2>2, <2>8 DEF Loads, Loading, InCall, MakerInv
    <3>2. \A k \in Jobs : ~Making(k)
      BY <2>2, <3>1 DEF MakerInv
    <3>3. inserted = {}
      BY <2>1, <2>2, <3>1, <3>2 DEF MakerInv
    <3>4. \A k \in Jobs : ~Making(k)'
      BY <2>4, <2>8, <3>2 DEF Loads, SavesScreen
    <3>5. ~Loading'
      BY <2>8 DEF Loads, Loading, InCall, Ended
    <3> QED BY <2>1, <2>2, <2>5, <3>3, <3>4, <3>5 DEF MakerInv
  <2>9. CASE ~Names(j) /\ ~(SavesScreen(j) /\ noteId = 0) /\ ~Loads(j)
    <3>1. noteId' = noteId
      BY <1>4, <2>9 DEF Shape, Retypes, SavesScreen, Toggles, Asks, Removes, ReadsRow, Summarizes,
                        Ends, Rereads, Updates, KeepsNote, KeepsModel
    <3>2. /\ \A k \in Jobs : Making(k)' <=> Making(k)
          /\ \A k \in Jobs : Making(k) => job'[k] = job[k]
      BY <2>1, <2>4, <2>9
    <3>3. Loading' <=> Loading
      BY <2>4, <2>9
    <3> QED BY <2>1, <2>2, <2>5, <3>1, <3>2, <3>3 DEF MakerInv
  <2> QED BY <2>6, <2>7, <2>8, <2>9
<1>5. CASE Pops
  BY <1>5, PopKeeps DEF WholeInv, Whole
<1> QED BY <1>1, <1>2, <1>3, <1>4, <1>5, StepShape

LEMMA LoadStep ==
  ASSUME Types, DutyInv, QueueInv, WholeInv, Whole', Next
  PROVE  LoadInv'
<1>0. "load" \in Jobs
  BY DEF Jobs
<1>1. CASE Opens
  <2>1. PICK id \in DOMAIN rows \cup {0} : Open(id)
    BY <1>1 DEF Opens
  <2>2. id \in Nat /\ 0 \notin DOMAIN rows
    BY TypeFacts
  <2>3. job'["load"] = IF id # 0 THEN Call("load", id, Blank) ELSE Ended
    BY <2>1, <2>2, OpenFacts
  <2>4. rows' = rows /\ opened' = id /\ noteId' = 0
    BY <2>1 DEF Open, table
  <2>5. CASE id # 0
    <3>1. Loading' /\ job'["load"].id = id
      BY <2>3, <2>5 DEF Loading, InCall, Call
    <3> QED BY <2>4, <3>1 DEF LoadInv
  <2>6. CASE id = 0
    <3>1. ~Loading'
      BY <2>3, <2>6 DEF Loading, InCall, Ended
    <3> QED BY <2>2, <2>4, <2>6, <3>1 DEF LoadInv
  <2> QED BY <2>5, <2>6
<1>2. CASE Cleared
  <2>1. open' = FALSE /\ noteId' = 0 /\ job'["load"] = Ended
    BY <1>0, <1>2, ClearedFacts
  <2> QED BY <2>1 DEF LoadInv, Loading, InCall, Ended
<1>3. CASE ExecuteWrite
  <2> DEFINE w == writes[1]
  <2>1. /\ w \in Queued /\ UNCHANGED <<noteId, open, opened>> /\ mishaps \subseteq mishaps'
        /\ \A k \in Jobs \ {w.by} : job'[k] = job[k]
        /\ w.by \in Jobs => job[w.by].pc = "call" /\ job[w.by].op = w.op
    BY <1>3, ExecuteFacts DEF ui, model
  <2>2. DOMAIN rows' \subseteq DOMAIN rows \cup {nextId}
    BY <1>3, ExecuteFacts
  <2>3. LoadInv
    BY <2>1 DEF WholeInv, Whole
  <2>4. w.op \in Writes
    BY <2>1, TypeFacts DEF Record
  <2>5. w.by # "load"
    BY <1>0, <2>1, <2>4 DEF DutyInv, Duty, Does, Pins, Deletes, Writes
  <2>6. job'["load"] = job["load"]
    BY <1>0, <2>1, <2>5
  <2>7. opened \in DOMAIN rows' => opened \in DOMAIN rows
    BY <2>2, TypeFacts
  <2>8. inserted \subseteq inserted'
    BY <1>3, ExecuteFacts
  <2> QED BY <2>1, <2>3, <2>6, <2>7, <2>8 DEF LoadInv, Loading
<1>4. ASSUME NEW j \in Jobs, Moves(j), Shape(j)
      PROVE  LoadInv'
  <2>1. /\ UNCHANGED <<rows, open, opened, inserted>> /\ mishaps \subseteq mishaps' /\ open
        /\ \A k \in Jobs \ {j} : job'[k] = job[k]
    BY <1>4 DEF Moves
  <2>2. MakerInv /\ LoadInv
    BY <2>1 DEF WholeInv, Whole
  <2>3. \A k \in Jobs : Making(k) => noteId = 0
    BY <2>2 DEF MakerInv
  <2>4. /\ Making(j) => Names(j)
        /\ Loading' => Loading
        /\ ~Loads(j) => /\ Loading => Loading'
                        /\ ReadsRow("load") \/ job'["load"] = job["load"]
    BY <1>4, <2>3, MakingMoves
  <2>5. CASE Loads(j)
    <3>1. Loading /\ noteId = 0 /\ ~Loading'
      BY <2>2, <2>5 DEF Loads, Loading, InCall, MakerInv, Ended
    <3>2. opened \in DOMAIN rows => job["load"].id = opened
      BY <2>1, <2>2, <3>1 DEF LoadInv
    <3>3. 0 \notin DOMAIN rows
      BY TypeFacts
    <3>4. opened \in DOMAIN rows => noteId' = opened /\ opened # 0
      BY <2>5, <3>2, <3>3 DEF Loads
    <3>5. noteId' # 0 => noteId' = opened
      BY <2>2, <2>5, <3>1 DEF Loads, KeepsModel, LoadInv
    <3> QED BY <2>1, <3>1, <3>4, <3>5 DEF LoadInv
  <2>6. CASE Names(j)
    <3>1. Making(j) /\ noteId = 0
      BY <2>6 DEF Names, Making, InCall
    <3>2. ~Loading
      BY <2>2, <3>1 DEF MakerInv
    <3>3. opened \notin DOMAIN rows
      BY <2>1, <2>2, <3>1, <3>2 DEF LoadInv
    <3>4. noteId' \in inserted
      BY <2>2, <2>6, <3>1 DEF MakerInv, Names
    <3> QED BY <2>1, <2>4, <3>2, <3>3, <3>4 DEF LoadInv
  <2>7. CASE ~Loads(j) /\ ~Names(j)
    <3>1. noteId' = noteId
      BY <1>4, <2>7 DEF Shape, Retypes, SavesScreen, Toggles, Asks, Removes, ReadsRow, Summarizes,
                        Ends, Rereads, Updates, KeepsNote, KeepsModel
    <3>2. Loading' <=> Loading
      BY <2>4, <2>7
    <3>3. /\ job["load"].id \in DOMAIN rows => job'["load"].id = job["load"].id
          /\ job'["load"].id \in {0, job["load"].id}
      <4>1. CASE ReadsRow("load")
        <5>1. ReadRow("load")
          BY <4>1 DEF ReadsRow
        <5> QED BY <1>0, <5>1, ReadFacts
      <4> QED BY <2>4, <2>7, <4>1
    <3> QED BY <2>1, <2>2, <3>1, <3>2, <3>3 DEF LoadInv
  <2> QED BY <2>5, <2>6, <2>7
<1>5. CASE Pops
  BY <1>5, PopKeeps DEF WholeInv, Whole
<1> QED BY <1>1, <1>2, <1>3, <1>4, <1>5, StepShape

\* What a move makes of a coroutine's call.
Later == {"existing", "reread", "summarized", "update", "setPinned", "delete"}

LEMMA CallMoves ==
  ASSUME Types, DutyInv, MakerInv, CallInv, Whole', NEW j \in Jobs, Moves(j), Shape(j)
  PROVE  /\ InCall(job'[j], Later) => About(job[j])'
         /\ job'[j].pc = "back" => ReadsRow(j)
         /\ note' \in {0, noteId'}
<1>0. /\ UNCHANGED <<rows, open>> /\ open
      /\ InCall(job[j], Later) => About(job[j])
      /\ note \in {0, noteId}
  BY DEF Moves, CallInv, Later
<1>1. CASE Retypes(j) \/ Asks(j)
  BY <1>0, <1>1 DEF Retypes, Asks, InCall, KeepsNote, KeepsModel
<1>2. CASE SavesScreen(j)
  <2>1. CASE noteId = 0
    BY <1>0, <1>2, <2>1 DEF SavesScreen, KeepsNote, Call, InCall, Later
  <2>2. CASE noteId # 0
    BY <1>0, <1>2, <2>2 DEF SavesScreen, KeepsNote, Call, About
  <2> QED BY <2>1, <2>2
<1>3. CASE Toggles(j) \/ Removes(j) \/ Summarizes(j)
  <2>1. job'[j].id = note /\ note # 0 /\ UNCHANGED <<note, noteId>> /\ job'[j].pc = "call"
    BY <1>3 DEF Toggles, Removes, Summarizes, KeepsNote, KeepsModel, Call
  <2> QED BY <1>0, <2>1 DEF About
<1>4. CASE ReadsRow(j)
  <2>1. /\ job[j].pc = "call" /\ job'[j].pc = "back" /\ job'[j].op = job[j].op
        /\ job[j].id \notin DOMAIN rows => job'[j].id = 0
        /\ job[j].id \in DOMAIN rows => job'[j].id = job[j].id
        /\ UNCHANGED <<note, noteId>>
    BY <1>4, ReadFacts DEF ReadsRow, KeepsModel
  <2> QED BY <1>0, <1>4, <2>1 DEF About, InCall
<1>5. CASE Ends(j)
  BY <1>0, <1>5 DEF Ends, KeepsModel, InCall, Ended
<1>6. CASE Names(j)
  <2>1. Making(j) /\ noteId = 0 /\ inserted = {job[j].id}
    BY <1>6 DEF Names, Making, InCall, MakerInv
  <2>2. job[j].id # 0
    BY <2>1, TypeFacts
  <2> QED BY <1>0, <1>6, <2>1, <2>2 DEF Names, Call, About
<1>7. CASE Rereads(j)
  <2>1. job[j].id \in {0, noteId}
    BY <1>0, <1>7 DEF Rereads, InCall, Later, About
  <2> QED BY <1>7, <2>1 DEF Rereads, InCall, Ended
<1>8. CASE Updates(j)
  <2>1. job[j].id = noteId /\ noteId # 0
    BY <1>0, <1>8 DEF Updates, InCall, Later, About
  <2> QED BY <1>0, <1>8, <2>1 DEF Updates, KeepsModel, Call, About
<1>9. CASE Loads(j)
  BY <1>0, <1>9 DEF Loads, KeepsModel, InCall, Ended
<1> QED BY <1>1, <1>2, <1>3, <1>4, <1>5, <1>6, <1>7, <1>8, <1>9 DEF Shape

LEMMA CallStep ==
  ASSUME Types, DutyInv, QueueInv, WholeInv, Whole', Next
  PROVE  CallInv'
<1>0. Deletes \subseteq Jobs
  BY DEF Jobs
<1>1. CASE Opens
  <2>1. PICK id \in DOMAIN rows \cup {0} : Open(id)
    BY <1>1 DEF Opens
  <2>2. id \in Nat
    BY TypeFacts
  <2>3. \A j \in Jobs : job'[j] = Ended \/ (j = "load" /\ job'[j] = Call("load", id, Blank))
    BY <2>1, <2>2, OpenFacts
  <2>4. \A j \in Jobs : ~InCall(job'[j], Later)
    BY <2>3 DEF InCall, Ended, Call, Later
  <2>5. \A d \in Deletes : job'[d].pc # "back"
    BY <1>0, <2>3 DEF Ended, Call
  <2>6. note' = 0 /\ \A v \in Queued' : v.by # "nobody"
    BY <2>1, <2>2, OpenFacts DEF Open
  <2> QED BY <2>4, <2>5, <2>6 DEF CallInv, Later
<1>2. CASE Cleared
  <2>1. open' = FALSE /\ note' = 0 /\ \A j \in Jobs : job'[j] = Ended
    BY <1>2, ClearedFacts
  <2> QED BY <1>0, <2>1 DEF CallInv, InCall, Ended
<1>3. CASE ExecuteWrite
  <2> DEFINE w == writes[1]
  <2>1. /\ w \in Queued /\ UNCHANGED <<noteId, note, open>> /\ mishaps \subseteq mishaps'
        /\ \A k \in Jobs \ {w.by} : job'[k] = job[k]
        /\ \A v \in Queued' : v \in Queued
    BY <1>3, ExecuteFacts DEF ui, model
  <2>2. w.by \in Jobs =>
              /\ job[w.by].pc = "call" /\ job[w.by].op = w.op /\ job[w.by].id = w.id
              /\ \/ job'[w.by] = Ended
                 \/ /\ job'[w.by].pc = "back" /\ job'[w.by].op = w.op
                    /\ w.op # "insert" => job'[w.by].id = w.id
    BY <1>3, ExecuteFacts
  <2>3. /\ DOMAIN rows' \subseteq DOMAIN rows \cup {nextId}
        /\ w.op = "delete" => w.id \notin DOMAIN rows'
    BY <1>3, ExecuteFacts
  <2>4. CallInv
    BY <2>1 DEF WholeInv, Whole
  <2>5. noteId \notin DOMAIN rows => noteId \notin DOMAIN rows'
    BY <2>3, TypeFacts
  <2>6. ASSUME NEW j \in Jobs, InCall(job'[j], Later)
        PROVE  About(job[j])'
    <3>1. CASE j = w.by
      <4>1. InCall(job[j], Later) /\ job[j].pc = "call" /\ job'[j] # Ended
        BY <2>2, <2>6, <3>1 DEF InCall, Ended
      <4>2. About(job[j])
        BY <2>4, <4>1 DEF CallInv, Later
      <4>3. job'[j].id = job[j].id
        BY <2>2, <3>1, <4>1 DEF InCall, Later
      <4> QED BY <2>1, <4>1, <4>2, <4>3 DEF About
    <3>2. CASE j # w.by
      <4>1. job'[j] = job[j]
        BY <2>1, <3>2
      <4>2. About(job[j])
        BY <2>4, <2>6, <4>1 DEF CallInv, Later
      <4> QED BY <2>1, <2>5, <4>1, <4>2 DEF About
    <3> QED BY <3>1, <3>2
  <2>7. ASSUME NEW d \in Deletes, job'[d].pc = "back"
        PROVE  noteId \notin DOMAIN rows'
    <3>1. CASE w.by = d
      <4>1. w.op = "delete"
        BY <1>0, <2>2, <3>1 DEF DutyInv, Duty, Does, Pins, Deletes
      <4>2. w.id = noteId
        BY <1>0, <2>2, <2>4, <3>1, <4>1 DEF CallInv, InCall, About
      <4> QED BY <2>3, <4>1, <4>2
    <3>2. CASE w.by # d
      BY <1>0, <2>1, <2>4, <2>5, <2>7, <3>2 DEF CallInv
    <3> QED BY <3>1, <3>2
  <2> QED BY <2>1, <2>4, <2>6, <2>7 DEF CallInv, Later
<1>4. ASSUME NEW j \in Jobs, Moves(j), Shape(j)
      PROVE  CallInv'
  <2>1. /\ UNCHANGED <<rows, open>> /\ mishaps \subseteq mishaps' /\ open
        /\ \A k \in Jobs \ {j} : job'[k] = job[k]
    BY <1>4 DEF Moves
  <2>2. MakerInv /\ CallInv
    BY <2>1 DEF WholeInv, Whole
  <2>3. /\ InCall(job'[j], Later) => About(job[j])'
        /\ job'[j].pc = "back" => ReadsRow(j)
        /\ note' \in {0, noteId'}
    BY <1>4, <2>2, CallMoves
  <2>4. noteId # 0 => noteId' = noteId
    <3>1. Names(j) => noteId = 0
      BY DEF Names
    <3>2. Loads(j) => noteId = 0
      BY <2>2 DEF Loads, MakerInv, Loading, InCall
    <3> QED BY <1>4, <3>1, <3>2 DEF Shape, Retypes, SavesScreen, Toggles, Asks, Removes, ReadsRow,
                      Summarizes, Ends, Rereads, Updates, KeepsNote, KeepsModel
  <2>5. \A k \in Jobs \ {j} : InCall(job'[k], Later) => About(job[k])'
    <3>1. \A k \in Jobs \ {j} : InCall(job'[k], Later) => About(job[k])
      BY <2>1, <2>2 DEF CallInv, Later
    <3> QED BY <2>1, <2>4, <3>1 DEF About
  <2>6. ASSUME NEW d \in Deletes, job'[d].pc = "back"
        PROVE  noteId' \notin DOMAIN rows'
    <3>1. CASE j = d
      <4>1. ~ReadsRow(j)
        BY <1>0, <3>1 DEF ReadsRow, ReadRow, DutyInv, Duty, Does, Pins, Deletes, Reads
      <4> QED BY <2>3, <2>6, <3>1, <4>1
    <3>2. CASE j # d
      <4>1. job[d].pc = "back"
        BY <1>0, <2>1, <2>6, <3>2
      <4>2. job[d].op = "delete"
        BY <1>0, <4>1 DEF DutyInv, Duty, Does, Pins, Deletes
      <4>3. noteId # 0 /\ noteId \notin DOMAIN rows
        BY <1>0, <2>2, <4>1, <4>2 DEF CallInv, InCall, About
      <4> QED BY <2>1, <2>4, <4>3
    <3> QED BY <3>1, <3>2
  <2>7. ASSUME NEW v \in Queued', v.by = "nobody"
        PROVE  v.id = noteId'
    <3>1. \/ v \in Queued
          \/ /\ v.op = "update" /\ job[j].pc = "call" /\ job[j].op = "update" /\ v.id = job[j].id
      BY <1>4, <2>7, QueueMoves
    <3>2. CASE v \in Queued
      <4>1. v.id = noteId
        BY <2>1, <2>2, <2>7, <3>2 DEF CallInv
      <4>2. v.op # "insert" /\ Waited(v)
        BY <2>2, <2>7, <3>2 DEF MakerInv, QueueInv, WaitInv
      <4>3. noteId # 0
        BY <4>1, <4>2 DEF Waited
      <4> QED BY <2>4, <4>1, <4>3
    <3>3. CASE job[j].pc = "call" /\ job[j].op = "update" /\ v.id = job[j].id
      <4>1. About(job[j])
        BY <2>2, <3>3 DEF CallInv, InCall
      <4> QED BY <2>4, <3>3, <4>1 DEF About
    <3> QED BY <3>1, <3>2, <3>3
  <2>8. \A k \in Jobs : InCall(job'[k], Later) => About(job[k])'
    BY <2>3, <2>5
  <2> QED BY <2>3, <2>6, <2>7, <2>8 DEF CallInv, Later
<1>5. CASE Pops
  BY <1>5, PopKeeps DEF WholeInv, Whole
<1> QED BY <1>1, <1>2, <1>3, <1>4, <1>5, StepShape

LEMMA WholeStep ==
  ASSUME Types, DutyInv, QueueInv, WholeInv, Next
  PROVE  WholeInv'
BY MakerStep, LoadStep, CallStep DEF WholeInv

-----------------------------------------------------------------------------
(* The opened note, and the deleted one.                                     *)

LEMMA VisitStep ==
  ASSUME Types, DutyInv, QueueInv, WholeInv, VisitInv, Next
  PROVE  VisitInv'
<1> SUFFICES ASSUME Undisturbed' PROVE OpenedInv'
  BY DEF VisitInv
<1>0. "load" \in Jobs /\ 0 \notin DOMAIN rows /\ opened < nextId /\ nextId \in Nat /\ opened \in Nat
  BY TypeFacts DEF Jobs
<1>1. CASE Opens
  <2>1. PICK id \in DOMAIN rows \cup {0} : Open(id)
    BY <1>1 DEF Opens
  <2>2. id \in Nat
    BY TypeFacts
  <2>3. job'["load"] = IF id # 0 THEN Call("load", id, Blank) ELSE Ended
    BY <2>1, <2>2, OpenFacts
  <2>4. rows' = rows /\ opened' = id /\ inserted' = {}
    BY <2>1 DEF Open, table
  <2>5. id # 0 => /\ Loading' /\ job'["load"].id = id /\ job'["load"].pc = "call"
                  /\ id \in DOMAIN rows
    BY <2>1, <2>3 DEF Loading, InCall, Call
  <2> QED BY <2>4, <2>5 DEF OpenedInv
<1>2. mishaps \subseteq mishaps' => Undisturbed /\ Whole /\ Whole' /\ OpenedInv
  BY DEF Undisturbed, Whole, VisitInv
<1>3. CASE Cleared
  <2>1. /\ UNCHANGED <<opened, inserted>> /\ open' = FALSE /\ job'["load"] = Ended
        /\ mishaps \subseteq mishaps'
    BY <1>0, <1>3, ClearedFacts
  <2> QED BY <1>2, <2>1 DEF OpenedInv, Loading, InCall, Ended
<1>4. CASE ExecuteWrite
  <2> DEFINE w == writes[1]
  <2>1. /\ w \in Queued /\ UNCHANGED <<noteId, open, opened>> /\ mishaps \subseteq mishaps'
        /\ \A k \in Jobs \ {w.by} : job'[k] = job[k]
        /\ w.by \in Jobs => job[w.by].pc = "call" /\ job[w.by].op = w.op /\ job[w.by].id = w.id
    BY <1>4, ExecuteFacts DEF ui, model
  <2>2. /\ w.op # "insert" => /\ inserted' = inserted
                              /\ w.op # "delete" => DOMAIN rows' = DOMAIN rows
                              /\ DOMAIN rows' \in {DOMAIN rows, DOMAIN rows \ {w.id}}
                              /\ \A i \in DOMAIN rows' : i # w.id => rows'[i] = rows[i]
                              /\ w.by = "left" /\ w.id = opened => "late" \in mishaps'
        /\ w.op = "insert" => /\ inserted' = IF w.by = "left" THEN inserted ELSE inserted \cup {nextId}
                              /\ DOMAIN rows' = DOMAIN rows \cup {nextId}
                              /\ \A i \in DOMAIN rows : rows'[i] = rows[i]
    BY <1>4, ExecuteFacts
  <2>3. MakerInv /\ CallInv /\ OpenedInv
    BY <1>2, <2>1 DEF WholeInv
  <2>4. w.op \in Writes /\ w.by \in Jobs \cup {"nobody", "left"} /\ Waited(w)
    BY <2>1, TypeFacts DEF Record, QueueInv, WaitInv
  <2>5. w.by # "load"
    BY <1>0, <2>1, <2>4 DEF DutyInv, Duty, Does, Pins, Deletes, Writes
  <2>6. job'["load"] = job["load"]
    BY <1>0, <2>1, <2>5
  <2>7. opened # 0 => inserted' = {}
    <3> SUFFICES ASSUME opened # 0, w.op = "insert", w.by # "left"
                 PROVE  FALSE
      BY <2>2, <2>3 DEF OpenedInv
    <3>1. w.by \in Jobs
      BY <2>1, <2>3, <2>4 DEF MakerInv
    <3>2. Making(w.by)
      BY <2>1, <3>1 DEF Making, InCall
    <3>3. noteId = 0 /\ ~Loading
      BY <2>3, <3>1, <3>2 DEF MakerInv
    <3>4. open
      BY <2>1, <3>1, QuietOutside
    <3> QED BY <2>3, <3>3, <3>4 DEF OpenedInv
  <2>8. ASSUME opened # 0, Loading
        PROVE  opened \in DOMAIN rows' /\ rows'[opened] = rows[opened]
    <3>1. opened \in DOMAIN rows /\ noteId = 0
      BY <2>3, <2>8 DEF OpenedInv, MakerInv
    <3>2. CASE w.op = "insert"
      BY <2>2, <3>1, <3>2
    <3>3. CASE w.op # "insert"
      <4>1. w.by \notin Jobs
        BY <2>1, <2>3, <2>4, <3>1, <3>3 DEF CallInv, InCall, About, Writes
      <4>2. w.by # "nobody"
        <5>1. open
          BY <1>0, <2>8, QuietOutside DEF Loading, InCall
        <5> QED BY <2>1, <2>3, <2>4, <3>1, <3>3, <5>1 DEF CallInv, Waited
      <4>3. w.id # opened
        BY <2>2, <2>4, <3>3, <4>1, <4>2 DEF Undisturbed
      <4> QED BY <2>2, <3>1, <3>3, <4>3
    <3> QED BY <3>2, <3>3
  <2> QED BY <2>1, <2>3, <2>6, <2>7, <2>8 DEF OpenedInv, Loading
<1>5. ASSUME NEW j \in Jobs, Moves(j), Shape(j)
      PROVE  OpenedInv'
  <2>1. /\ UNCHANGED <<rows, open, opened, inserted>> /\ mishaps \subseteq mishaps' /\ open
        /\ \A k \in Jobs \ {j} : job'[k] = job[k]
    BY <1>5 DEF Moves
  <2>2. MakerInv /\ OpenedInv /\ Whole'
    BY <1>2, <2>1 DEF WholeInv
  <2>3. \A k \in Jobs : Making(k) => noteId = 0
    BY <2>2 DEF MakerInv
  <2>4. /\ Loading' => Loading
        /\ ~Loads(j) => /\ Loading => Loading'
                        /\ ReadsRow("load") \/ job'["load"] = job["load"]
    BY <1>5, <2>2, <2>3, MakingMoves
  <2>5. CASE Loads(j)
    <3>1. Loading /\ noteId = 0 /\ ~Loading'
      BY <2>2, <2>5 DEF Loads, Loading, InCall, MakerInv, Ended
    <3>2. opened # 0 => noteId' = opened
      BY <2>2, <2>5, <3>1 DEF Loads, OpenedInv
    <3> QED BY <2>1, <2>2, <3>1, <3>2 DEF OpenedInv
  <2>6. CASE Names(j)
    <3>1. Making(j) /\ noteId = 0
      BY <2>6 DEF Names, Making, InCall
    <3>2. opened = 0
      <4>1. ~Loading
        BY <2>2, <3>1 DEF MakerInv
      <4> QED BY <1>0, <2>1, <2>2, <3>1, <4>1 DEF OpenedInv
    <3> QED BY <2>1, <3>2 DEF OpenedInv
  <2>7. CASE ~Loads(j) /\ ~Names(j)
    <3>1. noteId' = noteId
      BY <1>5, <2>7 DEF Shape, Retypes, SavesScreen, Toggles, Asks, Removes, ReadsRow, Summarizes,
                        Ends, Rereads, Updates, KeepsNote, KeepsModel
    <3>2. Loading' <=> Loading
      BY <2>4, <2>7
    <3>3. ASSUME opened # 0, Loading
          PROVE  job'["load"].id = opened /\ (job'["load"].pc = "back" => job'["load"].row = rows[opened])
      <4>1. /\ job["load"].id = opened /\ opened \in DOMAIN rows /\ job["load"].op = "load"
            /\ job["load"].pc = "back" => job["load"].row = rows[opened]
        BY <2>2, <3>3 DEF OpenedInv, Loading, InCall
      <4>2. CASE ReadsRow("load")
        <5>1. ReadRow("load")
          BY <4>2 DEF ReadsRow
        <5> QED BY <1>0, <4>1, <5>1, ReadFacts
      <4> QED BY <2>4, <2>7, <4>1, <4>2
    <3>4. opened # 0 /\ Loading => opened \in DOMAIN rows
      BY <2>2 DEF OpenedInv
    <3> QED BY <2>1, <2>2, <3>1, <3>2, <3>3, <3>4 DEF OpenedInv
  <2> QED BY <2>5, <2>6, <2>7
<1>6. CASE Pops
  BY <1>2, <1>6, PopKeeps
<1> QED BY <1>1, <1>3, <1>4, <1>5, <1>6, StepShape

LEMMA NoteStep ==
  ASSUME Types, DutyInv, QueueInv, WholeInv, DeleteInv, Clean', Next
  PROVE  NoteInv'
<1>0. 0 \notin DOMAIN rows /\ noteId < nextId /\ noteId \in Nat /\ nextId \in Nat
  BY TypeFacts
<1>1. CASE Opens
  <2>1. rows' = rows /\ noteId' = 0
    BY <1>1 DEF Opens, Open, table
  <2> QED BY <1>0, <2>1 DEF NoteInv
<1>2. CASE Cleared
  <2>1. open' = FALSE
    BY <1>2, ClearedFacts
  <2> QED BY <2>1 DEF NoteInv
<1>3. CASE ExecuteWrite
  <2> DEFINE w == writes[1]
  <2>1. /\ w \in Queued /\ UNCHANGED <<noteId, note, open>> /\ mishaps \subseteq mishaps'
        /\ \A k \in Jobs \ {w.by} : job'[k] = job[k]
        /\ w.by \in Jobs => job[w.by].pc = "call" /\ job[w.by].op = w.op
    BY <1>3, ExecuteFacts DEF ui, model
  <2>2. DOMAIN rows' \subseteq DOMAIN rows \cup {nextId}
    BY <1>3, ExecuteFacts
  <2>3. NoteInv
    BY <2>1 DEF DeleteInv, Clean
  <2>4. w.op \in Writes
    BY <2>1, TypeFacts DEF Record
  <2>5. \A k \in Jobs : InCall(job[k], {"reread"}) => InCall(job'[k], {"reread"})
    BY <2>1, <2>4 DEF InCall, Writes
  <2>6. noteId \in DOMAIN rows' => noteId \in DOMAIN rows
    BY <1>0, <2>2
  <2> QED BY <2>1, <2>3, <2>5, <2>6 DEF NoteInv, Rereading
<1>4. ASSUME NEW j \in Jobs, Moves(j), Shape(j)
      PROVE  NoteInv'
  <2>1. /\ UNCHANGED <<rows, open>> /\ mishaps \subseteq mishaps' /\ open
        /\ \A k \in Jobs \ {j} : job'[k] = job[k]
    BY <1>4 DEF Moves
  <2>2. NoteInv /\ MakerInv /\ CallInv /\ Whole' /\ "reread" \notin mishaps'
    BY <2>1 DEF DeleteInv, Clean, WholeInv, Whole
  <2>3. CASE Names(j)
    <3>1. InCall(job'[j], {"reread"})
      BY <2>3 DEF Names, InCall, Call
    <3> QED BY <3>1 DEF NoteInv, Rereading
  <2>4. CASE Loads(j)
    <3>1. noteId = 0
      BY <2>2, <2>4 DEF MakerInv, Loads, Loading, InCall
    <3> QED BY <1>0, <2>1, <2>4, <3>1 DEF NoteInv, Loads, KeepsModel
  <2>5. CASE Rereads(j)
    <3>1. About(job[j])
      BY <2>2, <2>5 DEF CallInv, Rereads, InCall
    <3> QED BY <2>1, <2>5, <3>1 DEF Rereads, NoteInv, About
  <2>6. CASE ~Names(j) /\ ~Loads(j) /\ ~Rereads(j)
    <3>1. UNCHANGED <<noteId, note>>
      BY <1>4, <2>6 DEF Shape, Retypes, SavesScreen, Toggles, Asks, Removes, ReadsRow, Summarizes,
                        Ends, Updates, KeepsNote, KeepsModel
    <3>2. InCall(job[j], {"reread"}) => InCall(job'[j], {"reread"})
      <4> SUFFICES ASSUME InCall(job[j], {"reread"})
                   PROVE  InCall(job'[j], {"reread"})
        OBVIOUS
      <4>1. ~(Retypes(j) \/ SavesScreen(j))
        BY <2>2 DEF Retypes, SavesScreen, Spares
      <4>2. ~(Toggles(j) \/ Asks(j) \/ Removes(j) \/ Summarizes(j) \/ Ends(j) \/ Updates(j))
        BY DEF Toggles, Asks, Removes, Summarizes, Ends, Updates, InCall
      <4>3. ReadsRow(j)
        BY <1>4, <2>6, <4>1, <4>2 DEF Shape
      <4> QED BY <4>3, ReadFacts DEF ReadsRow, InCall
    <3>3. \A k \in Jobs : InCall(job[k], {"reread"}) => InCall(job'[k], {"reread"})
      BY <2>1, <3>2
    <3> QED BY <2>1, <2>2, <3>1, <3>3 DEF NoteInv, Rereading
  <2> QED BY <2>3, <2>4, <2>5, <2>6
<1>5. CASE Pops
  BY <1>5, PopKeeps DEF DeleteInv, Clean
<1> QED BY <1>1, <1>2, <1>3, <1>4, <1>5, StepShape

LEMMA GoneStep ==
  ASSUME Types, DutyInv, QueueInv, WholeInv, DeleteInv, Clean', Next
  PROVE  GoneInv'
<1>0. /\ 0 \notin DOMAIN rows /\ nextId \notin inserted /\ opened < nextId
      /\ nextId \in Nat /\ opened \in Nat
  BY TypeFacts
<1>1. CASE Opens
  <2>1. deleting' = FALSE
    BY <1>1 DEF Opens, Open
  <2> QED BY <2>1 DEF GoneInv
<1>2. mishaps \subseteq mishaps' =>
        Whole /\ NoteInv /\ GoneInv /\ DoneInv /\ MakerInv /\ LoadInv /\ CallInv
  BY DEF DeleteInv, Clean, WholeInv, Whole
<1>3. CASE Cleared
  <2>1. UNCHANGED <<rows, opened, inserted, deleting>> /\ mishaps \subseteq mishaps'
    BY <1>3, ClearedFacts
  <2> QED BY <1>2, <2>1 DEF GoneInv
<1>4. CASE ExecuteWrite
  <2> DEFINE w == writes[1]
  <2>1. /\ w \in Queued /\ UNCHANGED <<open, opened, deleting>> /\ mishaps \subseteq mishaps'
        /\ w.by \in Jobs => job[w.by].pc = "call" /\ job[w.by].op = w.op
        /\ DOMAIN rows' \subseteq DOMAIN rows \cup {nextId}
    BY <1>4, ExecuteFacts DEF ui
  <2>2. inserted' = IF w.op = "insert" /\ w.by # "left" THEN inserted \cup {nextId} ELSE inserted
    BY <1>4, ExecuteFacts
  <2>3. ASSUME deleting, w.op = "insert", w.by # "left"
        PROVE  FALSE
    <3>1. w.by \in Jobs \cup {"nobody", "left"}
      BY <2>1, TypeFacts DEF Record
    <3>2. w.by \in Jobs
      BY <1>2, <2>1, <2>3, <3>1 DEF MakerInv
    <3>3. Making(w.by)
      BY <2>1, <2>3, <3>2 DEF Making, InCall
    <3>4. noteId = 0
      BY <1>2, <2>1, <3>2, <3>3 DEF MakerInv
    <3> QED BY <1>2, <2>1, <2>3, <3>2, <3>4 DEF DoneInv
  <2> QED BY <1>0, <1>2, <2>1, <2>2, <2>3 DEF GoneInv
<1>5. ASSUME NEW j \in Jobs, Moves(j)
      PROVE  GoneInv'
  <2>1. /\ UNCHANGED <<rows, opened, inserted>> /\ mishaps \subseteq mishaps' /\ open /\ Word(j)
    BY <1>5 DEF Moves
  <2>2. CASE j \in Deletes /\ job[j].pc = "back"
    <3>1. job[j].op = "delete"
      BY <2>2 DEF DutyInv, Duty, Does, Jobs, Pins, Deletes
    <3>2. noteId # 0 /\ noteId \notin DOMAIN rows
      BY <1>2, <2>1, <2>2, <3>1 DEF CallInv, InCall, About
    <3>3. inserted \subseteq {noteId} /\ opened \notin DOMAIN rows
      BY <1>2, <2>1, <3>2 DEF MakerInv, LoadInv
    <3> QED BY <2>1, <3>2, <3>3 DEF GoneInv
  <2>3. CASE ~(j \in Deletes /\ job[j].pc = "back")
    <3>1. deleting' => deleting
      BY <2>1, <2>3 DEF Word
    <3> QED BY <1>2, <2>1, <3>1 DEF GoneInv
  <2> QED BY <2>2, <2>3
<1>6. CASE Pops
  <2>1. UNCHANGED <<rows, opened, inserted>> /\ mishaps \subseteq mishaps' /\ open
    BY <1>6 DEF Pops
  <2>2. CASE deleting' = deleting
    BY <1>2, <2>1, <2>2 DEF GoneInv
  <2>3. CASE note = 0 /\ \A j \in Jobs : job[j].pc = "none"
    <3>1. (\A j \in Jobs : ~Making(j)) /\ ~Rereading /\ ~Loading
      BY <2>3 DEF Making, Rereading, Loading, InCall, Jobs
    <3>2. noteId \notin DOMAIN rows
      BY <1>0, <1>2, <2>1, <2>3, <3>1 DEF NoteInv
    <3>3. inserted \cap DOMAIN rows = {} /\ opened \notin DOMAIN rows
      BY <1>2, <2>1, <3>1, <3>2 DEF MakerInv, LoadInv
    <3> QED BY <2>1, <3>3 DEF GoneInv
  <2> QED BY <1>6, <2>2, <2>3 DEF Pops, Clean
<1> QED BY <1>1, <1>3, <1>4, <1>5, <1>6, StepShape

LEMMA DoneStep ==
  ASSUME Types, DutyInv, QueueInv, WholeInv, DeleteInv, Clean', Next
  PROVE  DoneInv'
<1>1. CASE Opens
  <2>1. deleting' = FALSE
    BY <1>1 DEF Opens, Open
  <2> QED BY <2>1 DEF DoneInv
<1>2. mishaps \subseteq mishaps' => DoneInv /\ MakerInv /\ CallInv
  BY DEF DeleteInv, Clean, WholeInv, Whole
<1>3. CASE Cleared
  <2>1. \A j \in Jobs : job'[j].pc = "none"
    BY <1>3, ClearedFacts DEF Ended
  <2> QED BY <2>1 DEF DoneInv
<1>4. CASE ExecuteWrite
  <2> DEFINE w == writes[1]
  <2>1. /\ UNCHANGED <<noteId, deleting>> /\ mishaps \subseteq mishaps'
        /\ \A k \in Jobs \ {w.by} : job'[k] = job[k]
        /\ w.by \in Jobs => job[w.by].pc = "call"
    BY <1>4, ExecuteFacts DEF model
  <2> QED BY <1>2, <2>1 DEF DoneInv
<1>5. ASSUME NEW j \in Jobs, Moves(j), Shape(j)
      PROVE  DoneInv'
  <2>1. mishaps \subseteq mishaps' /\ Word(j)
    BY <1>5 DEF Moves
  <2>2. DoneInv /\ MakerInv /\ CallInv
    BY <1>2, <2>1
  <2>3. noteId # 0 => noteId' = noteId
    <3>1. Names(j) => noteId = 0
      BY DEF Names
    <3>2. Loads(j) => noteId = 0
      BY <2>2 DEF Loads, MakerInv, Loading, InCall
    <3> QED BY <1>5, <3>1, <3>2 DEF Shape, Retypes, SavesScreen, Toggles, Asks, Removes, ReadsRow,
                      Summarizes, Ends, Rereads, Updates, KeepsNote, KeepsModel
  <2>4. deleting' => noteId # 0
    <3>1. CASE note # 0
      BY <2>2, <3>1 DEF CallInv
    <3>2. CASE deleting /\ job[j].pc # "none"
      BY <2>2, <3>2 DEF DoneInv
    <3>3. CASE j \in Deletes /\ job[j].pc = "back"
      <4>1. job[j].op = "delete"
        BY <3>3 DEF DutyInv, Duty, Does, Jobs, Pins, Deletes
      <4> QED BY <2>2, <3>3, <4>1 DEF CallInv, InCall, About
    <3> QED BY <2>1, <3>1, <3>2, <3>3 DEF Word
  <2> QED BY <2>3, <2>4 DEF DoneInv
<1>6. CASE Pops
  <2>1. UNCHANGED <<noteId, job>> /\ mishaps \subseteq mishaps'
    BY <1>6 DEF Pops
  <2>2. CASE deleting' = deleting
    BY <1>2, <2>1, <2>2 DEF DoneInv
  <2>3. CASE \A j \in Jobs : job[j].pc = "none"
    BY <2>1, <2>3 DEF DoneInv
  <2> QED BY <1>6, <2>2, <2>3 DEF Pops, Clean
<1> QED BY <1>1, <1>3, <1>4, <1>5, <1>6, StepShape

LEMMA DeleteStep ==
  ASSUME Types, DutyInv, QueueInv, WholeInv, DeleteInv, Next
  PROVE  DeleteInv'
BY NoteStep, GoneStep, DoneStep DEF DeleteInv

-----------------------------------------------------------------------------
(* What is on screen.                                                        *)

LEMMA MatchFacts ==
  ASSUME NEW a, NEW b, NEW c
  PROVE  Match(a, a) /\ (Match(a, b) => Match(b, a)) /\ (Match(a, b) /\ Match(b, c) => Match(a, c))
BY DEF Match

\* While the note has no row yet nobody works on it.
LEMMA NoRowYet ==
  ASSUME Types, DutyInv, MakerInv, CallInv, QueueInv, open, noteId = 0
  PROVE  /\ \A j \in Jobs : ~InCall(job[j], Later)
         /\ \A j \in Jobs : ~Saving(job[j]) /\ ~HasRead(job[j])
         /\ ~HasPin(writes)
         /\ \A w \in Queued : w.by # "nobody"
<1>1. \A j \in Jobs : ~InCall(job[j], Later)
  BY DEF CallInv, Later, About
<1>2. \A j \in Jobs : ~Saving(job[j]) /\ ~HasRead(job[j])
  BY <1>1 DEF Saving, HasRead, InCall, Later
<1>3. ~HasPin(writes)
  <2> SUFFICES ASSUME NEW i \in 1..Len(writes), writes[i].by \in Pins
               PROVE  FALSE
    BY DEF HasPin
  <2> DEFINE k == writes[i].by
  <2>1. k \in Jobs /\ writes[i] \in Queued
    BY DEF Jobs, Queued
  <2>2. job[k].pc = "call" /\ job[k].op = writes[i].op /\ writes[i].op \in Writes
    BY <2>1, TypeFacts DEF QueueInv, WaitInv, Waited, Record
  <2>3. Duty(k, job[k])
    BY <2>1 DEF DutyInv
  <2>4. job[k].op = "setPinned"
    <3>1. k = "pin1" \/ k = "pin2"
      BY DEF Pins
    <3>2. Does(k) = {"setPinned"}
      BY <3>1 DEF Does, Pins, Deletes
    <3> QED BY <2>2, <2>3, <3>2 DEF Duty
  <2> QED BY <1>1, <2>1, <2>2, <2>4 DEF InCall, Later
<1>4. \A w \in Queued : w.by # "nobody"
  BY DEF CallInv, MakerInv, QueueInv, WaitInv, Waited
<1> QED BY <1>1, <1>2, <1>3, <1>4

\* The write that is executed is about the note, unless it is the first.
LEMMA ExecuteAbout ==
  ASSUME Types, DutyInv, QueueInv, MakerInv, LoadInv, CallInv, open, noteId \in DOMAIN rows,
         NEW w \in Queued, w.op # "insert", w.by = "left" => w.id # opened
  PROVE  IF w.by = "left" THEN w.id # noteId ELSE w.id = noteId
<1>0. noteId # 0 /\ w.op \in Writes /\ w.by \in Jobs \cup {"nobody", "left"} /\ Waited(w)
  BY TypeFacts DEF Record, QueueInv, WaitInv
<1>1. CASE w.by = "left"
  BY <1>0, <1>1 DEF LoadInv, Waited
<1>2. CASE w.by = "nobody"
  BY <1>2 DEF CallInv
<1>3. CASE w.by \in Jobs
  <2>1. job[w.by].pc = "call" /\ job[w.by].op = w.op /\ job[w.by].id = w.id
    BY <1>0, <1>3 DEF Waited
  <2>2. InCall(job[w.by], {"existing", "reread", "summarized", "update", "setPinned", "delete"})
    BY <1>0, <2>1 DEF InCall, Writes
  <2>3. About(job[w.by])
    BY <1>3, <2>2 DEF CallInv
  <2>4. w.by # "left"
    BY <1>3 DEF Jobs, Pins, Deletes
  <2> QED BY <1>0, <2>1, <2>3, <2>4 DEF About
<1> QED BY <1>0, <1>1, <1>2, <1>3

\* The debounce that is pending goes on, or it is over and the screen is saved.
LEMMA PendingMoves ==
  ASSUME NEW j \in Jobs, Moves(j), Shape(j), Pending, ~SavesScreen(j)
  PROVE  Pending'
<1>1. CASE j = "autosave"
  <2>1. ~(Toggles(j) \/ Asks(j) \/ Removes(j) \/ Summarizes(j) \/ Loads(j))
    BY <1>1 DEF Toggles, Asks, Removes, Summarizes, Loads, Pins, Deletes
  <2>2. ~(ReadsRow(j) \/ Ends(j) \/ Names(j) \/ Rereads(j) \/ Updates(j))
    BY <1>1 DEF Pending, ReadsRow, ReadRow, Ends, Names, Rereads, Updates
  <2>3. Retypes(j)
    BY <2>1, <2>2 DEF Shape
  <2> QED BY <2>3 DEF Retypes, Pending
<1>2. CASE j # "autosave"
  BY <1>2 DEF Moves, Pending, Jobs
<1> QED BY <1>1, <1>2

LEMMA FirstStep ==
  ASSUME Types, DutyInv, QueueInv, WholeInv, ShownInv, open', Orderly', Next
  PROVE  FirstInv'
<1>0. nextId \in Nat /\ "autosave" \in Jobs
  BY TypeFacts DEF Jobs
<1>1. CASE Opens
  <2>1. PICK id \in DOMAIN rows \cup {0} : Open(id)
    BY <1>1 DEF Opens
  <2>2. id \in Nat
    BY TypeFacts
  <2>3. \A j \in Jobs : job'[j] = Ended \/ job'[j] = Call("load", id, Blank)
    BY <2>1, <2>2, OpenFacts
  <2> QED BY <2>3 DEF FirstInv, Making, InCall, Ended, Call
<1>2. CASE Cleared
  BY <1>2, ClearedFacts
<1>3. mishaps \subseteq mishaps' /\ open => FirstInv /\ MakerInv /\ CallInv /\ Whole'
  BY DEF Orderly, ShownInv, WholeInv, Whole
<1>4. CASE ExecuteWrite
  <2> DEFINE w == writes[1]
  <2>1. /\ w \in Queued /\ UNCHANGED <<noteId, open, opened, screen>> /\ mishaps \subseteq mishaps'
        /\ \A k \in Jobs \ {w.by} : job'[k] = job[k]
    BY <1>4, ExecuteFacts DEF ui, model
  <2>2. w.by \in Jobs =>
              /\ job[w.by].pc = "call" /\ job[w.by].op = w.op /\ job[w.by].id = w.id
              /\ job[w.by].row = w.row
              /\ \/ job'[w.by] = Ended /\ w.op # "insert"
                 \/ /\ job'[w.by].pc = "back" /\ job'[w.by].op = w.op /\ job'[w.by].row = w.row
                    /\ job'[w.by].id = IF w.op = "insert" THEN nextId ELSE w.id
    BY <1>4, ExecuteFacts
  <2>3. /\ w.op = "insert" => /\ DOMAIN rows' = DOMAIN rows \cup {nextId}
                              /\ rows'[nextId] = w.row /\ \A i \in DOMAIN rows : rows'[i] = rows[i]
        /\ w.op # "insert" => /\ DOMAIN rows' \in {DOMAIN rows, DOMAIN rows \ {w.id}}
                              /\ \A i \in DOMAIN rows' : i # w.id => rows'[i] = rows[i]
    BY <1>4, ExecuteFacts
  <2>4. FirstInv /\ MakerInv /\ CallInv
    BY <1>3, <2>1
  <2>5. Pending => Pending'
    BY <1>0, <2>1, <2>2 DEF Pending
  <2>6. w.op \in Writes /\ w.by \in Jobs \cup {"nobody", "left"} /\ Waited(w)
    BY <2>1, TypeFacts DEF Record, QueueInv, WaitInv
  <2> SUFFICES ASSUME NEW j \in Jobs, Making(j)'
               PROVE  /\ Match(job'[j].row, screen') \/ Pending'
                      /\ job'[j].row.pinned = screen'.pinned
                      /\ job'[j].pc = "back" => job'[j].id \in DOMAIN rows' /\ rows'[job'[j].id] = job'[j].row
    BY DEF FirstInv
  <2>7. CASE j = w.by
    <3>1. w.op = "insert" /\ Making(j)
      BY <2>2, <2>7 DEF Making, InCall, Ended
    <3>2. (Match(job[j].row, screen) \/ Pending) /\ job[j].row.pinned = screen.pinned
      BY <2>4, <3>1 DEF FirstInv
    <3> QED BY <2>1, <2>2, <2>3, <2>5, <2>7, <3>1, <3>2
  <2>8. CASE j # w.by
    <3>1. job'[j] = job[j] /\ Making(j)
      BY <2>1, <2>8 DEF Making
    <3>2. /\ Match(job[j].row, screen) \/ Pending
          /\ job[j].row.pinned = screen.pinned
          /\ job[j].pc = "back" => job[j].id \in DOMAIN rows /\ rows[job[j].id] = job[j].row
      BY <2>4, <3>1 DEF FirstInv
    <3>3. ASSUME job[j].pc = "back"
          PROVE  job[j].id \in DOMAIN rows' /\ rows'[job[j].id] = rows[job[j].id]
      <4>1. noteId = 0 /\ inserted = {job[j].id} /\ job[j].id \in DOMAIN rows
        BY <2>4, <3>1, <3>2, <3>3 DEF MakerInv
      <4>2. CASE w.op = "insert"
        BY <2>3, <4>1, <4>2
      <4>3. CASE w.op # "insert"
        <5>1. open
          BY <3>1, QuietOutside DEF Making, InCall
        <5>2. w.by = "left"
          <6>1. w.by # "nobody"
            BY <2>1, <4>1, <5>1, NoRowYet, <2>4
          <6>2. w.by \notin Jobs
            <7>1. \A k \in Jobs : ~InCall(job[k], Later)
              BY <2>4, <4>1, <5>1, NoRowYet
            <7> QED BY <2>2, <2>6, <4>3, <7>1 DEF InCall, Later, Writes
          <6> QED BY <2>6, <6>1, <6>2
        <5>3. w.id # job[j].id
          BY <2>6, <4>1, <5>2 DEF Waited
        <5> QED BY <2>3, <4>1, <4>3, <5>3
      <4> QED BY <4>2, <4>3
    <3> QED BY <2>1, <2>5, <3>1, <3>2, <3>3
  <2> QED BY <2>7, <2>8
<1>5. ASSUME NEW j \in Jobs, Moves(j), Shape(j)
      PROVE  FirstInv'
  <2>1. /\ UNCHANGED rows /\ mishaps \subseteq mishaps' /\ open
        /\ \A k \in Jobs \ {j} : job'[k] = job[k]
    BY <1>5 DEF Moves
  <2>2. FirstInv /\ MakerInv /\ CallInv /\ Whole'
    BY <1>3, <2>1
  <2>3. \A k \in Jobs : Making(k) => noteId = 0
    BY <2>2 DEF MakerInv
  <2>4. /\ \A k \in Jobs \ {j} : Making(k)' <=> Making(k)
        /\ ~(SavesScreen(j) /\ noteId = 0) => ~Making(j)'
    BY <1>5, <2>2, <2>3, MakingMoves
  <2> SUFFICES ASSUME NEW i \in Jobs, Making(i)'
               PROVE  /\ Match(job'[i].row, screen') \/ Pending'
                      /\ job'[i].row.pinned = screen'.pinned
                      /\ job'[i].pc = "back" => job'[i].id \in DOMAIN rows' /\ rows'[job'[i].id] = job'[i].row
    BY DEF FirstInv
  <2>5. CASE i = j
    <3>1. SavesScreen(j) /\ noteId = 0
      BY <2>4, <2>5
    <3>2. job'[i].row = screen' /\ job'[i].pc = "call"
      BY <2>5, <3>1 DEF SavesScreen, Call
    <3> QED BY <3>2, MatchFacts
  <2>6. CASE i # j
    <3>1. Making(i) /\ job'[i] = job[i] /\ noteId = 0
      BY <2>1, <2>3, <2>4, <2>6
    <3>2. /\ Match(job[i].row, screen) \/ Pending
          /\ job[i].row.pinned = screen.pinned
          /\ job[i].pc = "back" => job[i].id \in DOMAIN rows /\ rows[job[i].id] = job[i].row
      BY <2>2, <3>1 DEF FirstInv
    <3>3. ~SavesScreen(j)
      BY <2>2, <2>6, <3>1 DEF SavesScreen, Making, InCall
    <3>4. ~Toggles(j) /\ ~Loads(j)
      <4>1. note = 0
        BY <2>2, <3>1 DEF CallInv
      <4>2. ~Loading
        BY <2>2, <3>1 DEF MakerInv
      <4> QED BY <4>1, <4>2 DEF Toggles, Loads, Loading, InCall
    <3>5. CASE Retypes(j)
      <4>1. Pending' /\ screen'.pinned = screen.pinned
        BY <3>5 DEF Retypes, Pending
      <4> QED BY <2>1, <3>1, <3>2, <4>1
    <3>6. CASE ~Retypes(j)
      <4>1. screen' = screen
        BY <1>5, <3>3, <3>4, <3>6 DEF Shape, Asks, Removes, ReadsRow, Summarizes, Ends, Names,
                              Rereads, Updates, KeepsModel
      <4>2. Pending => Pending'
        BY <1>5, <3>3, PendingMoves
      <4> QED BY <2>1, <3>1, <3>2, <4>1, <4>2
    <3> QED BY <3>5, <3>6
  <2> QED BY <2>5, <2>6
<1>6. CASE Pops
  BY <1>3, <1>6, PopKeeps
<1> QED BY <1>1, <1>2, <1>4, <1>5, <1>6, StepShape

\* Nobody but the writer holds a copy of the note, or is to save it.
LEMMA Alone ==
  ASSUME CallInv, noteId \in DOMAIN rows, NEW w, w.id = noteId, ~Crossed(w), NEW k \in Jobs \ {w.by}
  PROVE  /\ ~HasRead(job[k]) /\ ~(job[k].op = "update" /\ job[k].pc = "call")
         /\ w.op = "update" => ~Saving(job[k])
<1>1. InCall(job[k], Later) => job[k].id = w.id
  BY DEF CallInv, Later, About
<1>2. /\ ~(job[k].id = w.id /\ InCall(job[k], {"update"}))
      /\ ~(job[k].id = w.id /\ InCall(job[k], {"existing", "summarized"}) /\ job[k].pc = "back")
      /\ w.op = "update" => ~(job[k].id = w.id /\ InCall(job[k], {"existing"}))
  BY CallingIs DEF Crossed
<1>3. ~HasRead(job[k])
  BY <1>1, <1>2 DEF HasRead, InCall, Later
<1>4. ~(job[k].op = "update" /\ job[k].pc = "call")
  BY <1>1, <1>2 DEF InCall, Later
<1>5. w.op = "update" => ~Saving(job[k])
  BY <1>1, <1>2 DEF Saving, InCall, Later
<1> QED BY <1>3, <1>4, <1>5

\* What a write does to the note that is on screen.
LEMMA ExecuteOnNote ==
  ASSUME Types, DutyInv, QueueInv, MakerInv, LoadInv, CallInv, ExecuteWrite, Orderly', open,
         noteId \in DOMAIN rows', NEW w, w = writes[1]
  PROVE  /\ noteId \in DOMAIN rows /\ UNCHANGED <<noteId, screen>>
         /\ \A v \in Queued' : v.by # "nobody"
         /\ \/ w.by = "left" /\ job' = job /\ rows'[noteId] = rows[noteId]
            \/ /\ w.by # "left" /\ w.id = noteId /\ ~Crossed(w)
               /\ \/ w.op = "update" /\ rows'[noteId] = w.row
                  \/ /\ w.op = "setPinned" /\ Match(rows'[noteId], rows[noteId])
                     /\ rows'[noteId].pinned = w.row.pinned
<1>1. /\ w \in Queued /\ UNCHANGED <<noteId, screen, opened>>
      /\ \A v \in Queued' : v.by # "nobody"
      /\ w.by \notin Jobs => job' = job
      /\ w.by \in Jobs => job[w.by].pc = "call" /\ job[w.by].op = w.op
  BY ExecuteFacts DEF ui, model
<1>2. /\ w.op = "insert" => /\ DOMAIN rows' = DOMAIN rows \cup {nextId}
                            /\ \A i \in DOMAIN rows : rows'[i] = rows[i]
      /\ w.op # "insert" =>
           /\ DOMAIN rows' = IF w.op = "delete" THEN DOMAIN rows \ {w.id} ELSE DOMAIN rows
           /\ \A i \in DOMAIN rows' : i # w.id => rows'[i] = rows[i]
           /\ w.op = "update" /\ w.id \in DOMAIN rows => rows'[w.id] = w.row
           /\ w.op = "setPinned" /\ w.id \in DOMAIN rows =>
                Match(rows'[w.id], rows[w.id]) /\ rows'[w.id].pinned = w.row.pinned
           /\ Crossed(w) => "crossed" \in mishaps'
           /\ w.by = "left" /\ w.id = opened => "late" \in mishaps'
  BY ExecuteFacts
<1>3. /\ noteId < nextId /\ noteId \in Nat /\ nextId \in Nat /\ 0 \notin DOMAIN rows
      /\ w.op \in Writes /\ w.by \in Jobs \cup {"nobody", "left"}
  BY <1>1, TypeFacts DEF Record
<1>4. noteId \in DOMAIN rows
  BY <1>2, <1>3
<1>5. CASE w.op = "insert"
  <2>1. w.by \notin Jobs
    BY <1>1, <1>3, <1>4, <1>5 DEF MakerInv, Making, InCall
  <2>2. w.by = "left"
    BY <1>1, <1>3, <1>5, <2>1 DEF MakerInv
  <2> QED BY <1>1, <1>2, <1>4, <1>5, <2>1, <2>2
<1>6. CASE w.op # "insert"
  <2>1. ~Crossed(w) /\ (w.by = "left" => w.id # opened)
    BY <1>2, <1>6 DEF Orderly
  <2>2. IF w.by = "left" THEN w.id # noteId ELSE w.id = noteId
    BY <1>1, <1>4, <1>6, <2>1, ExecuteAbout
  <2>3. CASE w.by = "left"
    BY <1>1, <1>2, <1>4, <1>6, <2>2, <2>3 DEF Jobs, Pins, Deletes
  <2>4. CASE w.by # "left"
    <3>1. w.op \in {"update", "setPinned"}
      BY <1>2, <1>3, <1>6, <2>2, <2>4 DEF Writes
    <3> QED BY <1>1, <1>2, <1>4, <1>6, <2>1, <2>2, <2>4, <3>1
  <2> QED BY <2>3, <2>4
<1> QED BY <1>5, <1>6

\* A move that has a row for its note keeps the note, or has just made it.
LEMMA NoteMoves ==
  ASSUME Types, DutyInv, QueueInv, MakerInv, LoadInv, CallInv, OpenedInv, FirstInv,
         NEW j \in Jobs, Moves(j), Shape(j), noteId' \in DOMAIN rows'
  PROVE  \/ noteId' = noteId /\ ~Names(j) /\ ~(Loads(j) /\ job[j].id # 0)
         \/ /\ Names(j) /\ noteId = 0 /\ screen' = screen /\ job[j].row = rows[noteId']
            /\ Match(job[j].row, screen) \/ Pending
            /\ job[j].row.pinned = screen.pinned
         \/ /\ Loads(j) /\ noteId = 0 /\ Match(screen', rows[noteId'])
            /\ screen'.pinned = rows[noteId'].pinned
<1>1. CASE Names(j)
  <2>1. Making(j) /\ job[j].pc = "back" /\ noteId = 0 /\ noteId' = job[j].id /\ screen' = screen
    BY <1>1 DEF Names, Making, InCall
  <2> QED BY <1>1, <2>1 DEF FirstInv
<1>2. CASE Loads(j) /\ job[j].id # 0
  <2>1. Loading /\ noteId = 0 /\ opened # 0 /\ noteId' = job[j].id
    BY <1>2 DEF Loads, Loading, InCall, MakerInv
  <2>2. job[j].row = rows[noteId']
    BY <1>2, <2>1 DEF Loads, OpenedInv
  <2> QED BY <1>2, <2>1, <2>2 DEF Loads
<1>3. CASE ~Names(j) /\ ~(Loads(j) /\ job[j].id # 0)
  BY <1>3 DEF Shape, Retypes, SavesScreen, Toggles, Asks, Removes, ReadsRow, Summarizes, Ends,
              Rereads, Updates, Loads, KeepsNote, KeepsModel
<1> QED BY <1>1, <1>2, <1>3

Copies(c, row) ==
  /\ HasRead(c) \/ (c.op = "update" /\ c.pc = "call") => c.row.pinned = row.pinned
  /\ HasRead(c) /\ c.op = "summarized" => Match(c.row, row)

LEMMA CopyStep ==
  ASSUME Types, DutyInv, QueueInv, WholeInv, VisitInv, ShownInv, open', Orderly', Next,
         noteId' \in DOMAIN rows'
  PROVE  CopyInv'
<1>1. CASE Opens
  <2>1. rows' = rows /\ noteId' = 0
    BY <1>1 DEF Opens, Open, table
  <2> QED BY <2>1, TypeFacts
<1>2. CASE Cleared
  BY <1>2, ClearedFacts
<1>3. mishaps \subseteq mishaps' /\ open =>
        /\ FirstInv /\ MakerInv /\ LoadInv /\ CallInv /\ OpenedInv /\ Whole'
        /\ noteId \in DOMAIN rows => CopyInv
  BY DEF Orderly, ShownInv, WholeInv, VisitInv, Whole, Undisturbed
<1>4. CASE ExecuteWrite
  <2> DEFINE w == writes[1]
  <2>1. /\ UNCHANGED <<noteId, open>> /\ mishaps \subseteq mishaps'
        /\ \A k \in Jobs \ {w.by} : job'[k] = job[k]
        /\ w.by \in Jobs => \/ job'[w.by] = Ended
                            \/ job'[w.by].pc = "back" /\ job'[w.by].op = w.op
    BY <1>4, ExecuteFacts DEF ui, model
  <2>2. FirstInv /\ MakerInv /\ LoadInv /\ CallInv
    BY <1>3, <2>1
  <2>3. /\ noteId \in DOMAIN rows
        /\ \A v \in Queued' : v.by # "nobody"
        /\ \/ w.by = "left" /\ job' = job /\ rows'[noteId] = rows[noteId]
           \/ w.by # "left" /\ w.id = noteId /\ ~Crossed(w) /\ w.op \in {"update", "setPinned"}
    BY <1>4, <2>1, <2>2, ExecuteOnNote
  <2>4. CopyInv
    BY <1>3, <2>1, <2>3
  <2>5. CASE w.by = "left" /\ job' = job /\ rows'[noteId] = rows[noteId]
    BY <2>1, <2>3, <2>4, <2>5 DEF CopyInv
  <2>6. CASE w.id = noteId /\ ~Crossed(w) /\ w.op \in {"update", "setPinned"}
    <3>1. \A k \in Jobs : ~HasRead(job'[k]) /\ ~(job'[k].op = "update" /\ job'[k].pc = "call")
      <4>1. \A k \in Jobs \ {w.by} : ~HasRead(job[k]) /\ ~(job[k].op = "update" /\ job[k].pc = "call")
        BY <2>2, <2>3, <2>6, Alone
      <4>2. w.by \in Jobs => /\ ~HasRead(job'[w.by])
                             /\ ~(job'[w.by].op = "update" /\ job'[w.by].pc = "call")
        BY <2>1, <2>6 DEF HasRead, InCall, Ended
      <4> QED BY <2>1, <4>1, <4>2
    <3> QED BY <2>3, <3>1 DEF CopyInv
  <2> QED BY <2>3, <2>5, <2>6
<1>5. ASSUME NEW j \in Jobs, Moves(j), Shape(j)
      PROVE  CopyInv'
  <2>1. /\ UNCHANGED rows /\ mishaps \subseteq mishaps' /\ open
        /\ \A k \in Jobs \ {j} : job'[k] = job[k]
    BY <1>5 DEF Moves
  <2>2. FirstInv /\ MakerInv /\ LoadInv /\ CallInv /\ OpenedInv /\ Whole'
        /\ (noteId \in DOMAIN rows => CopyInv)
    BY <1>3, <2>1
  <2>3. CASE noteId = 0
    <3>1. \A k \in Jobs : ~InCall(job[k], Later)
      BY <2>1, <2>2, <2>3, NoRowYet
    <3>2. Names(j) \/ Loads(j)
      <4>1. noteId' # 0
        BY <2>1, TypeFacts
      <4> QED BY <1>5, <2>2, <2>3, <4>1, NoteMoves
    <3>3. \A k \in Jobs : ~HasRead(job'[k]) /\ ~(job'[k].op = "update" /\ job'[k].pc = "call")
      <4>1. ~HasRead(job'[j]) /\ ~(job'[j].op = "update" /\ job'[j].pc = "call")
        BY <3>2 DEF Names, Loads, Call, Ended, HasRead, InCall
      <4>2. \A k \in Jobs \ {j} : ~HasRead(job[k]) /\ ~(job[k].op = "update" /\ job[k].pc = "call")
        BY <3>1 DEF HasRead, InCall, Later
      <4> QED BY <2>1, <4>1, <4>2
    <3>4. \A v \in Queued' : v.by # "nobody"
      <4>1. \A v \in Queued : v.by # "nobody"
        BY <2>1, <2>2, <2>3, NoRowYet
      <4>2. ~(job[j].pc = "call" /\ job[j].op = "update")
        BY <3>1 DEF InCall, Later
      <4> QED BY <1>5, <2>2, <4>1, <4>2, QueueMoves
    <3> QED BY <3>3, <3>4 DEF CopyInv
  <2>4. CASE noteId # 0
    <3>1. noteId' = noteId /\ noteId \in DOMAIN rows
      BY <1>5, <2>1, <2>2, <2>4, NoteMoves
    <3>2. CopyInv
      BY <2>2, <3>1
    <3>3. \A k \in Jobs : Copies(job[k], rows[noteId])
      BY <3>2 DEF CopyInv, Copies
    <3>4. Copies(job'[j], rows[noteId])
      <4>1. CASE ReadsRow(j)
        <5>1. ReadRow(j) /\ (InCall(job[j], Later) => job[j].id = noteId)
          BY <2>2, <3>1, <4>1 DEF ReadsRow, CallInv, About, Later
        <5> QED BY <3>1, <5>1, ReadFacts DEF Copies, HasRead, InCall, Later
      <4>2. CASE Updates(j)
        <5>1. HasRead(job[j]) /\ job'[j] = Call("update", job[j].id, job[j].row)
          BY <4>2 DEF Updates, HasRead, InCall
        <5>2. job'[j].row = job[j].row /\ job'[j].op = "update" /\ job'[j].pc = "call"
          BY <5>1 DEF Call
        <5> QED BY <3>3, <5>1, <5>2 DEF Copies, HasRead
      <4>3. CASE Retypes(j) \/ Asks(j)
        BY <4>3 DEF Retypes, Asks, Copies, HasRead, InCall
      <4>4. CASE SavesScreen(j) \/ Toggles(j) \/ Removes(j) \/ Summarizes(j)
        BY <4>4 DEF SavesScreen, Toggles, Removes, Summarizes, Call, Copies, HasRead, InCall
      <4>5. CASE Ends(j) \/ Names(j) \/ Rereads(j) \/ Loads(j)
        BY <4>5 DEF Ends, Names, Rereads, Loads, Call, Ended, Copies, HasRead, InCall
      <4> QED BY <1>5, <4>1, <4>2, <4>3, <4>4, <4>5 DEF Shape
    <3>5. \A v \in Queued' : v.by = "nobody" => v.row.pinned = rows[noteId].pinned
      <4> SUFFICES ASSUME NEW v \in Queued', v.by = "nobody"
                   PROVE  v.row.pinned = rows[noteId].pinned
        OBVIOUS
      <4>1. \/ v \in Queued
            \/ job[j].pc = "call" /\ job[j].op = "update" /\ v.row = job[j].row
        BY <1>5, <2>2, QueueMoves
      <4> QED BY <3>2, <4>1 DEF CopyInv
    <3>6. \A k \in Jobs : Copies(job'[k], rows[noteId])
      BY <2>1, <3>3, <3>4
    <3> QED BY <2>1, <3>1, <3>5, <3>6 DEF CopyInv, Copies
  <2> QED BY <2>3, <2>4
<1>6. CASE Pops
  BY <1>3, <1>6, PopKeeps
<1> QED BY <1>1, <1>2, <1>4, <1>5, <1>6, StepShape

\* What was last pinned goes on being so while the queue of pins does.
LEMMA PinHeldSame ==
  ASSUME PinHeld, SamePins(writes'), screen'.pinned = screen.pinned,
         rows'[noteId'].pinned = rows[noteId].pinned
  PROVE  PinHeld'
BY DEF PinHeld, SamePins

\* A write to the note that is on screen.
LEMMA ScreenExecute ==
  ASSUME Types, DutyInv, QueueInv, MakerInv, LoadInv, CallInv, ExecuteWrite, Orderly', open,
         noteId \in DOMAIN rows', CopyInv, Held, PinHeld
  PROVE  Held' /\ PinHeld'
<1> DEFINE w == writes[1]
<1>0. /\ "autosave" \in Jobs /\ "left" \notin Jobs /\ "nobody" \notin Jobs
      /\ Len(writes) \in Nat /\ writes # <<>>
  BY TypeFacts DEF Jobs, Pins, Deletes, ExecuteWrite
<1>1. /\ w \in Queued /\ \A k \in Jobs \ {w.by} : job'[k] = job[k]
      /\ w.by \notin Jobs => job' = job
      /\ w.by \in Jobs => /\ job[w.by].pc = "call" /\ job[w.by].op = w.op /\ job[w.by].row = w.row
                          /\ \/ job'[w.by] = Ended
                             \/ job'[w.by].pc = "back" /\ job'[w.by].op = w.op
  BY ExecuteFacts
<1>2. /\ noteId \in DOMAIN rows /\ UNCHANGED <<noteId, screen>>
      /\ \A v \in Queued' : v.by # "nobody"
  BY ExecuteOnNote
<1>3. \/ w.by = "left" /\ job' = job /\ rows'[noteId] = rows[noteId]
      \/ /\ w.by # "left" /\ w.id = noteId /\ ~Crossed(w)
         /\ \/ w.op = "update" /\ rows'[noteId] = w.row
            \/ /\ w.op = "setPinned" /\ Match(rows'[noteId], rows[noteId])
               /\ rows'[noteId].pinned = w.row.pinned
  BY ExecuteOnNote
<1>4. w.op \in Writes /\ w.by \in Jobs \cup {"nobody", "left"} /\ Waited(w)
  BY <1>1, TypeFacts DEF Record, QueueInv, WaitInv
<1>5. Pending => Pending'
  BY <1>0, <1>1 DEF Pending
<1>6. CASE w.by = "left" /\ job' = job /\ rows'[noteId] = rows[noteId]
  <2>1. ~LastPin(writes, 1)
    BY <1>0, <1>6 DEF LastPin, Jobs
  <2>2. SamePins(writes')
    BY <2>1, ExecutePins
  <2> QED BY <1>2, <1>5, <1>6, <2>2, PinHeldSame DEF Held
<1>7. CASE w.by # "left" /\ w.id = noteId /\ ~Crossed(w) /\ w.op = "update" /\ rows'[noteId] = w.row
  <2>1. \A k \in Jobs \ {w.by} : ~Saving(job[k])
    BY <1>2, <1>7, Alone
  <2>2. w.by \in Jobs => Saving(job[w.by]) /\ ~Saving(job'[w.by])
    BY <1>1, <1>7 DEF Saving, InCall, Ended
  <2>3. \A k \in Jobs : ~Saving(job'[k])
    BY <1>1, <2>1, <2>2
  <2>4. Held'
    <3>1. CASE \E j \in Jobs : Saving(job[j]) /\ Match(job[j].row, screen)
      <4>1. w.by \in Jobs /\ Match(job[w.by].row, screen)
        BY <2>1, <3>1
      <4>2. Match(rows'[noteId], screen)
        BY <1>1, <1>7, <4>1
      <4> QED BY <1>2, <2>3, <4>2 DEF Held
    <3>2. CASE (\A j \in Jobs : ~Saving(job[j])) /\ (\A v \in Queued : v.by # "nobody")
      BY <1>1, <1>4, <1>7, <2>2, <3>2
    <3> QED BY <1>5, <3>1, <3>2 DEF Held
  <2>5. PinHeld'
    <3>1. w.by \notin Pins
      BY <1>1, <1>7 DEF DutyInv, Duty, Does, Jobs, Pins, Deletes
    <3>2. SamePins(writes')
      BY <3>1, ExecutePins DEF LastPin
    <3>3. w.row.pinned = rows[noteId].pinned
      BY <1>1, <1>4, <1>7 DEF CopyInv
    <3> QED BY <1>2, <1>7, <3>2, <3>3, PinHeldSame
  <2> QED BY <2>4, <2>5
<1>8. CASE /\ w.by # "left" /\ w.id = noteId /\ ~Crossed(w)
           /\ w.op = "setPinned" /\ Match(rows'[noteId], rows[noteId])
           /\ rows'[noteId].pinned = w.row.pinned
  <2>1. w.by \in Pins /\ w.by \in Jobs
    <3>1. w.by \in Jobs
      BY <1>4, <1>8 DEF Waited
    <3> QED BY <1>1, <1>8, <3>1 DEF DutyInv, Duty, Does, Jobs, Pins, Deletes
  <2>2. \A k \in Jobs : (Saving(job'[k]) <=> Saving(job[k])) /\ (Saving(job[k]) => job'[k] = job[k])
    <3>1. ~Saving(job[w.by]) /\ ~Saving(job'[w.by])
      BY <1>1, <1>8, <2>1 DEF Saving, InCall, Ended
    <3> QED BY <1>1, <2>1, <3>1
  <2>3. Held'
    <3>1. CASE \E j \in Jobs : Saving(job[j]) /\ Match(job[j].row, screen)
      BY <1>2, <2>2, <3>1 DEF Held
    <3>2. CASE Match(rows[noteId], screen) /\ \A j \in Jobs : ~Saving(job[j])
      <4>1. Match(rows'[noteId], screen)
        BY <1>8, <3>2, MatchFacts
      <4> QED BY <1>2, <2>2, <3>2, <4>1 DEF Held
    <3> QED BY <1>5, <3>1, <3>2 DEF Held
  <2>4. PinHeld'
    <3>1. CASE SamePins(writes')
      <4>1. HasPin(writes')
        BY <1>0, <2>1, <3>1 DEF SamePins, HasPin
      <4> QED BY <1>2, <3>1, <4>1 DEF PinHeld, SamePins
    <3>2. CASE ~HasPin(writes') /\ 1 \in 1..Len(writes) /\ LastPin(writes, 1)
      <4>1. rows'[noteId'].pinned = screen'.pinned
        BY <1>2, <1>8, <3>2 DEF PinHeld
      <4>2. \A i \in 1..Len(writes') : ~LastPin(writes', i)
        BY <3>2 DEF HasPin, LastPin
      <4> QED BY <4>1, <4>2 DEF PinHeld
    <3> QED BY <3>1, <3>2, ExecutePins
  <2> QED BY <2>3, <2>4
<1> QED BY <1>3, <1>6, <1>7, <1>8

\* A step of a coroutine while its note has a row already.
LEMMA ScreenMove ==
  ASSUME Types, DutyInv, QueueInv, MakerInv, CallInv, Whole', NEW j \in Jobs, Moves(j), Shape(j),
         open, noteId \in DOMAIN rows, noteId' = noteId, ~Names(j), ~(Loads(j) /\ job[j].id # 0),
         CopyInv, Held, PinHeld
  PROVE  Held' /\ PinHeld'
<1>0. /\ UNCHANGED rows /\ \A k \in Jobs \ {j} : job'[k] = job[k]
      /\ "autosave" \in Jobs /\ noteId # 0
      /\ InCall(job[j], Later) => job[j].id = noteId
  BY TypeFacts DEF Moves, Jobs, CallInv, About, Later
<1>00. ~Toggles(j) /\ screen'.pinned = screen.pinned => PinHeld'
  BY <1>0, PinHeldSame DEF Moves
<1>1. CASE Retypes(j)
  <2>1. Pending' /\ screen'.pinned = screen.pinned /\ ~Toggles(j)
    BY <1>1 DEF Retypes, Pending, Toggles, Pins
  <2> QED BY <1>00, <2>1 DEF Held
<1>2. CASE SavesScreen(j)
  <2>1. /\ job'[j].pc = "call" /\ job'[j].op = "existing" /\ job'[j].row = screen'
        /\ screen'.pinned = screen.pinned /\ ~Toggles(j)
    BY <1>0, <1>2 DEF SavesScreen, Call, Toggles, Pins
  <2>2. Saving(job'[j]) /\ Match(job'[j].row, screen')
    BY <2>1, MatchFacts DEF Saving, InCall
  <2> QED BY <1>00, <2>1, <2>2 DEF Held
<1>3. Pending /\ ~SavesScreen(j) => Pending'
  BY PendingMoves
<1>4. ASSUME ~Retypes(j), ~SavesScreen(j), NEW v \in Queued', v.by = "nobody",
             \A k \in Jobs : ~Saving(job[k])
      PROVE  v \in Queued
  <2>1. ~(job[j].pc = "call" /\ job[j].op = "update")
    BY <1>4 DEF Saving
  <2> QED BY <1>4, <2>1, QueueMoves
<1>5. ASSUME ~Retypes(j), ~SavesScreen(j), ~Updates(j)
      PROVE  Match(screen', screen) /\ (~Toggles(j) => screen' = screen)
  BY <1>5, MatchFacts DEF Shape, Toggles, Asks, Removes, ReadsRow, Summarizes, Ends, Rereads, Loads,
                           KeepsModel
\* Those that do not save go on not saving, and those that do save the same.
<1>6. ASSUME ~Retypes(j), ~SavesScreen(j), ~Updates(j)
      PROVE  /\ Saving(job'[j]) => Saving(job[j])
             /\ Saving(job[j]) => Saving(job'[j]) /\ Match(job'[j].row, job[j].row)
  <2>1. CASE ReadsRow(j)
    <3>1. ReadRow(j)
      BY <2>1 DEF ReadsRow
    <3>2. /\ job[j].pc = "call" /\ job'[j].pc = "back" /\ job'[j].op = job[j].op /\ job[j].op # "update"
          /\ job[j].op = "existing" /\ job[j].id = noteId => Match(job'[j].row, job[j].row)
      BY <3>1, ReadFacts DEF Reads
    <3> QED BY <1>0, <3>2 DEF Saving, InCall, Later
  <2>2. CASE Toggles(j) \/ Removes(j) \/ Summarizes(j)
    <3>1. ~Saving(job'[j])
      BY <2>2 DEF Toggles, Removes, Summarizes, Call, Saving, InCall
    <3>2. ~Saving(job[j])
      BY <2>2 DEF Toggles, Removes, Summarizes, Saving, InCall
    <3> QED BY <3>1, <3>2
  <2>3. CASE Asks(j)
    BY <2>3 DEF Asks, Saving, InCall
  <2>4. CASE Ends(j) \/ Rereads(j) \/ Loads(j)
    <3>1. ~Saving(job'[j])
      BY <2>4 DEF Ends, Rereads, Loads, Ended, Saving, InCall
    <3>2. ~Saving(job[j])
      BY <1>0, <2>4 DEF Ends, Rereads, Loads, Saving, InCall, Later
    <3> QED BY <3>1, <3>2
  <2> QED BY <1>6, <2>1, <2>2, <2>3, <2>4 DEF Shape
<1>7. ASSUME ~Retypes(j), ~SavesScreen(j), ~Updates(j)
      PROVE  Held'
  <2>1. CASE Pending
    BY <1>3, <1>7, <2>1 DEF Held
  <2>2. CASE \E k \in Jobs : Saving(job[k]) /\ Match(job[k].row, screen)
    <3>1. PICK k \in Jobs : Saving(job[k]) /\ Match(job[k].row, screen)
      BY <2>2
    <3>2. Saving(job'[k]) /\ Match(job'[k].row, job[k].row)
      BY <1>0, <1>6, <1>7, <3>1, MatchFacts
    <3>3. Match(job'[k].row, screen')
      <4>1. Match(screen, screen')
        BY <1>5, <1>7, MatchFacts
      <4>2. Match(job'[k].row, screen)
        BY <3>1, <3>2, MatchFacts
      <4> QED BY <4>1, <4>2, MatchFacts
    <3> QED BY <3>2, <3>3 DEF Held
  <2>3. CASE /\ Match(rows[noteId], screen) /\ \A k \in Jobs : ~Saving(job[k])
             /\ \A w \in Queued : w.by # "nobody"
    <3>1. Match(rows'[noteId'], screen')
      <4>1. Match(screen, screen')
        BY <1>5, <1>7, MatchFacts
      <4> QED BY <1>0, <2>3, <4>1, MatchFacts
    <3>2. \A k \in Jobs : ~Saving(job'[k])
      BY <1>0, <1>6, <1>7, <2>3
    <3>3. \A w \in Queued' : w.by # "nobody"
      BY <1>4, <1>7, <2>3
    <3> QED BY <3>1, <3>2, <3>3 DEF Held
  <2> QED BY <2>1, <2>2, <2>3 DEF Held
<1>8. CASE Updates(j)
  <2>1. /\ job'[j].pc = "call" /\ job'[j].op = "update" /\ job'[j].row = job[j].row
        /\ screen' = screen /\ job[j].pc = "back" /\ job[j].op \in {"existing", "summarized"}
    BY <1>8 DEF Updates, KeepsModel, Call
  <2>2. Saving(job'[j])
    BY <2>1 DEF Saving
  <2>3. ~SavesScreen(j)
    BY <2>1 DEF SavesScreen, Call
  <2>4. Held'
    <3>1. CASE Pending
      BY <1>3, <2>3, <3>1 DEF Held
    <3>2. CASE \E k \in Jobs : Saving(job[k]) /\ Match(job[k].row, screen)
      <4>1. PICK k \in Jobs : Saving(job[k]) /\ Match(job[k].row, screen)
        BY <3>2
      <4>2. Saving(job'[k]) /\ Match(job'[k].row, screen')
        BY <1>0, <2>1, <2>2, <4>1
      <4> QED BY <4>2 DEF Held
    <3>3. CASE Match(rows[noteId], screen) /\ \A k \in Jobs : ~Saving(job[k])
      <4>1. job[j].op = "summarized" /\ HasRead(job[j])
        BY <2>1, <3>3 DEF Saving, HasRead, InCall
      <4>2. Match(job[j].row, rows[noteId])
        BY <4>1 DEF CopyInv
      <4>3. Match(job'[j].row, screen')
        BY <2>1, <3>3, <4>2, MatchFacts
      <4> QED BY <2>2, <4>3 DEF Held
    <3> QED BY <3>1, <3>2, <3>3 DEF Held
  <2>5. PinHeld'
    <3>1. ~Toggles(j)
      BY <2>1 DEF Toggles
    <3> QED BY <1>00, <2>1, <3>1
  <2> QED BY <2>4, <2>5
<1>9. ASSUME ~Retypes(j), ~SavesScreen(j), ~Updates(j)
      PROVE  PinHeld'
  <2>1. CASE Toggles(j)
    BY <2>1 DEF Toggles, PinHeld
  <2>2. CASE ~Toggles(j)
    BY <1>00, <1>5, <1>9, <2>2
  <2> QED BY <2>1, <2>2
<1> QED BY <1>1, <1>2, <1>7, <1>8, <1>9

LEMMA ScreenStep ==
  ASSUME Types, DutyInv, QueueInv, WholeInv, VisitInv, ShownInv, open', Orderly', Next,
         noteId' \in DOMAIN rows'
  PROVE  ScreenInv'
<1>1. CASE Opens
  <2>1. rows' = rows /\ noteId' = 0
    BY <1>1 DEF Opens, Open, table
  <2> QED BY <2>1, TypeFacts
<1>2. CASE Cleared
  BY <1>2, ClearedFacts
<1>3. mishaps \subseteq mishaps' /\ open =>
        /\ FirstInv /\ MakerInv /\ LoadInv /\ CallInv /\ OpenedInv /\ Whole'
        /\ noteId \in DOMAIN rows => CopyInv /\ Held /\ PinHeld
  BY DEF Orderly, ShownInv, WholeInv, VisitInv, Whole, Undisturbed, ScreenInv
<1>4. CASE ExecuteWrite
  <2>1. open /\ mishaps \subseteq mishaps' /\ noteId' = noteId
    BY <1>4, ExecuteFacts DEF ui, model
  <2>2. FirstInv /\ MakerInv /\ LoadInv /\ CallInv
    BY <1>3, <2>1
  <2>3. noteId \in DOMAIN rows
    BY <1>4, <2>1, <2>2, ExecuteOnNote
  <2> QED BY <1>3, <1>4, <2>1, <2>2, <2>3, ScreenExecute DEF ScreenInv
<1>5. ASSUME NEW j \in Jobs, Moves(j), Shape(j)
      PROVE  ScreenInv'
  <2>1. /\ UNCHANGED rows /\ mishaps \subseteq mishaps' /\ open
        /\ \A k \in Jobs \ {j} : job'[k] = job[k]
    BY <1>5 DEF Moves
  <2>2. FirstInv /\ MakerInv /\ LoadInv /\ CallInv /\ OpenedInv /\ Whole'
        /\ (noteId \in DOMAIN rows => CopyInv /\ Held /\ PinHeld)
    BY <1>3, <2>1
  <2>3. CASE noteId' = noteId /\ ~Names(j) /\ ~(Loads(j) /\ job[j].id # 0)
    BY <1>5, <2>1, <2>2, <2>3, ScreenMove DEF ScreenInv
  <2>4. CASE noteId = 0 /\ (Names(j) \/ Loads(j))
    <3>1. \A k \in Jobs : ~InCall(job[k], Later) /\ ~Saving(job[k])
      BY <2>1, <2>2, <2>4, NoRowYet
    <3>2. \A k \in Jobs : ~Saving(job'[k])
      <4>1. ~Saving(job'[j])
        BY <2>4 DEF Names, Loads, Call, Ended, Saving, InCall
      <4> QED BY <2>1, <3>1, <4>1
    <3>3. \A v \in Queued' : v.by # "nobody"
      <4>1. \A v \in Queued : v.by # "nobody"
        BY <2>1, <2>2, <2>4, NoRowYet
      <4>2. ~(job[j].pc = "call" /\ job[j].op = "update")
        BY <3>1 DEF InCall, Later
      <4> QED BY <1>5, <2>2, <4>1, <4>2, QueueMoves
    <3>4. ~HasPin(writes')
      <4>1. ~HasPin(writes)
        BY <2>1, <2>2, <2>4, NoRowYet
      <4>2. \A v \in Queued : v.by \notin Pins
        BY <4>1 DEF HasPin, Queued
      <4>3. j \notin Pins
        BY <2>4 DEF Names, Loads, DutyInv, Duty, Does, Pins
      <4>4. \A v \in Queued' : v.by \notin Pins
        BY <1>5, <4>2, <4>3 DEF Moves, Orphan, Pins
      <4> QED BY <4>4 DEF HasPin, Queued
    <3>44. rows'[noteId'].pinned = screen'.pinned => PinHeld'
      BY <3>4 DEF PinHeld, LastPin, HasPin
    <3>5. CASE Names(j)
      <4>1. ~(Loads(j) /\ noteId = 0 /\ Match(screen', rows[noteId']))
        BY <3>5 DEF Names, Loads
      <4>2. /\ screen' = screen /\ job[j].row = rows[noteId']
            /\ Match(job[j].row, screen) \/ Pending
            /\ job[j].row.pinned = screen.pinned
        BY <1>5, <2>1, <2>2, <3>5, <4>1, NoteMoves
      <4>3. ~SavesScreen(j)
        BY <2>2, <3>5 DEF SavesScreen, Spares, Names, Making, InCall
      <4>4. Pending => Pending'
        BY <1>5, <4>3, PendingMoves
      <4>5. Held'
        BY <2>1, <3>2, <3>3, <4>2, <4>4 DEF Held
      <4> QED BY <2>1, <3>44, <4>2, <4>5 DEF ScreenInv
    <3>6. CASE Loads(j)
      <4>1. CASE job[j].id = 0
        BY <2>1, <2>4, <3>6, <4>1, TypeFacts DEF Loads, KeepsModel
      <4>2. CASE job[j].id # 0
        <5>1. ~Names(j)
          BY <3>6 DEF Names, Loads
        <5>2. Match(screen', rows[noteId']) /\ screen'.pinned = rows[noteId'].pinned
          BY <1>5, <2>1, <2>2, <3>6, <4>2, <5>1, NoteMoves
        <5>3. Held'
          BY <2>1, <3>2, <3>3, <5>2, MatchFacts DEF Held
        <5> QED BY <2>1, <3>44, <5>2, <5>3 DEF ScreenInv
      <4> QED BY <4>1, <4>2
    <3> QED BY <2>4, <3>5, <3>6
  <2> QED BY <1>5, <2>1, <2>2, <2>3, <2>4, NoteMoves
<1>6. CASE Pops
  BY <1>3, <1>6, PopKeeps DEF ScreenInv
<1> QED BY <1>1, <1>2, <1>4, <1>5, <1>6, StepShape

LEMMA ShownStep ==
  ASSUME Types, DutyInv, QueueInv, WholeInv, VisitInv, ShownInv, Next
  PROVE  ShownInv'
BY FirstStep, CopyStep, ScreenStep DEF ShownInv

-----------------------------------------------------------------------------
(* The invariant.                                                            *)

LEMMA Start == Init => IInv
<1> SUFFICES ASSUME Init PROVE IInv
  OBVIOUS
<1> DEFINE first == [Blank EXCEPT !.text = 1]
<1>1. first \in Row /\ Blank \in Row /\ Ended \in Coroutine
  BY BlankIsRow DEF Blank, Row
<1>2. DOMAIN rows = {1} /\ rows \in [DOMAIN rows -> Row] /\ nextId = 2
  BY <1>1 DEF Init
<1>3. writes = <<>> /\ writes \in Seq(Record) /\ Len(writes) = 0 /\ Queued = {}
  BY DEF Init, Queued
<1>4. job \in [Jobs -> Coroutine] /\ \A j \in Jobs : job[j] = Ended
  BY <1>1 DEF Init
<1>5. /\ ~open /\ popped = FALSE /\ visits = 0 /\ opened = 0 /\ noteId = 0 /\ note = 0 /\ screen = Blank
      /\ edits = 0 /\ inserted = {} /\ deleting = FALSE /\ mishaps = {}
  BY DEF Init
<1>6. Types
  <2>1. 0 \in 0..MaxVisits /\ 0 \in 0..(MaxEdits + 1)
    BY EditorAssumption
  <2>2. nextId \in Nat \ {0} /\ DOMAIN rows \subseteq 1..(nextId - 1) /\ 0 \in 0..(nextId - 1)
    BY <1>2
  <2>3. \A j \in Jobs :
       /\ job[j].pc \in {"none", "delay", "thinking", "call", "back"}
       /\ job[j].op \in Reads \cup {"none", "summarize", "suggestTags", "insert", "update",
                                    "setPinned", "delete"}
       /\ job[j].id \in 0..(nextId - 1) /\ job[j].row \in Row
    BY <1>1, <1>4, <2>2 DEF Ended
  <2>4. \A i \in DOMAIN writes : writes[i].by \in Jobs \cup {"nobody", "left"}
    BY <1>3
  <2>5. \A i \in DOMAIN rows : rows[i] \in Row
    BY <1>2
  <2>6. /\ open \in BOOLEAN /\ popped \in BOOLEAN /\ visits \in 0..MaxVisits
        /\ {noteId, note, opened} \subseteq 0..(nextId - 1)
        /\ screen \in Row /\ edits \in 0..(MaxEdits + 1)
        /\ inserted \subseteq 1..(nextId - 1) /\ deleting \in BOOLEAN /\ mishaps \subseteq Mishaps
    <3>1. open \in BOOLEAN
      BY DEF Init
    <3> QED BY <1>1, <1>5, <2>1, <2>2, <3>1
  <2>7. TypeOK
    BY <2>2, <2>3, <2>4, <2>5, <2>6 DEF TypeOK
  <2> QED BY <1>2, <1>3, <1>4, <2>7 DEF Types
<1>7. DutyInv
  BY <1>4, <1>5 DEF DutyInv, Duty, Ended, Blank
<1>8. QueueInv
  BY <1>3 DEF QueueInv, WaitInv, InTurn
<1>9. \A j \in Jobs, ops \in SUBSET Ops : ~InCall(job[j], ops)
  BY <1>4 DEF InCall, Ended
<1>10. MakerInv /\ LoadInv
  <2>1. (\A j \in Jobs : ~Making(j)) /\ ~Loading
    BY <1>4 DEF Making, Loading, InCall, Ended, Jobs
  <2> QED BY <1>3, <1>5, <2>1 DEF MakerInv, LoadInv
<1>11. CallInv
  <2>1. \A j \in Jobs : job[j].pc = "none"
    BY <1>4 DEF Ended
  <2>2. \A d \in Deletes : job[d].pc # "back"
    BY <2>1 DEF Jobs
  <2> QED BY <1>3, <1>5, <2>1, <2>2 DEF CallInv, InCall
<1>12. OpenedInv /\ NoteInv /\ GoneInv /\ DoneInv
  BY <1>5 DEF OpenedInv, NoteInv, GoneInv, DoneInv
<1> QED BY <1>5, <1>6, <1>7, <1>8, <1>10, <1>11, <1>12
        DEF IInv, WholeInv, VisitInv, DeleteInv, ShownInv

LEMMA Stutter ==
  ASSUME IInv, UNCHANGED vars
  PROVE  IInv'
<1> USE DEF vars, table, ui, model, history
<1>1. Types'
  BY DEF IInv, Types, TypeOK
<1>2. DutyInv' /\ QueueInv'
  BY DEF IInv, DutyInv, QueueInv, WaitInv, Waited, Queued
<1>3. WholeInv'
  BY DEF IInv, WholeInv, Whole, MakerInv, LoadInv, CallInv, Making, Loading, About, Queued
<1>4. VisitInv' /\ DeleteInv'
  BY DEF IInv, VisitInv, Undisturbed, OpenedInv, DeleteInv, Clean, NoteInv, GoneInv, DoneInv,
         Loading, Rereading
<1>5. ShownInv'
  BY DEF IInv, ShownInv, Orderly, FirstInv, CopyInv, ScreenInv, Held, PinHeld, HasPin, LastPin,
         Making, Pending, Queued
<1> QED BY <1>1, <1>2, <1>3, <1>4, <1>5 DEF IInv

LEMMA Inductive == Spec => []IInv
<1>1. Init => IInv
  BY Start
<1>2. IInv /\ [Next]_vars => IInv'
  <2> SUFFICES ASSUME IInv, [Next]_vars PROVE IInv'
    OBVIOUS
  <2>1. CASE Next
    <3>1. Types' /\ DutyInv' /\ QueueInv' /\ WholeInv'
      BY <2>1, TypesStep, DutyStep, QueueStep, WholeStep DEF IInv
    <3>2. VisitInv' /\ DeleteInv' /\ ShownInv'
      BY <2>1, VisitStep, DeleteStep, ShownStep DEF IInv
    <3> QED BY <3>1, <3>2 DEF IInv
  <2> QED BY <2>1, Stutter
<1> QED BY <1>1, <1>2, PTL DEF Spec

-----------------------------------------------------------------------------
(* The theorems.                                                             *)

(* The view model's fields, what its coroutines hold and the writes that     *)
(* Room has not executed yet are always of their types.                      *)
THEOREM TypeCorrect == Spec => []TypeOK
<1>1. IInv => TypeOK
  BY DEF IInv, Types
<1> QED BY <1>1, Inductive, PTL

(* However many saves the debounce, the tag buttons and the language model   *)
(* issue, a new note becomes one row and an opened one none: unless an       *)
(* insert was cut short or doubled, only one coroutine inserts, and the      *)
(* others wait until the editor knows the row.                               *)
THEOREM OneRowHolds == Spec => []OneRowPerNote
<1>1. IInv => OneRowPerNote
  <2> SUFFICES ASSUME IInv, Undisturbed
               PROVE  Cardinality(inserted) <= (IF opened = 0 THEN 1 ELSE 0)
    BY DEF OneRowPerNote, Undisturbed
  <2>1. MakerInv /\ OpenedInv
    BY DEF IInv, WholeInv, VisitInv, Undisturbed, Whole
  <2>2. CASE inserted = {}
    <3>1. Cardinality(inserted) = 0
      BY <2>2, FS_EmptySet
    <3> QED BY <3>1
  <2>3. CASE inserted # {}
    <3>1. PICK i \in inserted : TRUE
      BY <2>3
    <3>2. inserted = {i}
      BY <2>1, <3>1 DEF MakerInv
    <3>3. Cardinality(inserted) = 1
      BY <3>2, FS_Singleton
    <3>4. opened = 0
      BY <2>1, <2>3 DEF OpenedInv
    <3> QED BY <3>3, <3>4
  <2> QED BY <2>2, <2>3
<1> QED BY <1>1, Inductive, PTL

(* Once the delete button was the last word no row of the note is left, and  *)
(* no save that runs while the editor slides out makes one: a delete that    *)
(* found a note knows the row of every save there is, and one that found     *)
(* none, with no coroutine at work, leaves nobody to make one.               *)
THEOREM DeletedIsGoneHolds == Spec => []DeletedIsGone
<1>1. IInv => DeletedIsGone
  BY DEF IInv, DeleteInv, Clean, GoneInv, DeletedIsGone
<1> QED BY <1>1, Inductive, PTL

(* Once the editor is at rest its screen is what is stored: every edit has   *)
(* been saved by the last coroutine that saves, and no write issued before   *)
(* it, nor one that the summary or the pin issues, takes it back.            *)
THEOREM ScreenIsStoredHolds == Spec => []ScreenIsStored
<1>1. IInv => ScreenIsStored
  <2> SUFFICES ASSUME IInv, open, Quiet, noteId \in DOMAIN rows, Orderly
               PROVE  [rows[noteId] EXCEPT !.summary = 0] = screen
    BY DEF ScreenIsStored, Orderly
  <2>1. ScreenInv /\ rows[noteId] \in Row /\ screen \in Row /\ screen.summary = 0
    BY TypeFacts DEF IInv, ShownInv, DutyInv
  <2>2. \A j \in Jobs : job[j].pc = "none"
    BY DEF Quiet, Active
  <2>3. ~Pending /\ ~HasPin(writes) /\ \A j \in Jobs : ~Saving(job[j])
    <3>1. writes = <<>>
      BY DEF Quiet
    <3> QED BY <2>2, <3>1 DEF Pending, Saving, InCall, Jobs, HasPin
  <2>4. Match(rows[noteId], screen) /\ rows[noteId].pinned = screen.pinned
    BY <2>1, <2>3 DEF ScreenInv, Held, PinHeld
  <2> DEFINE row == rows[noteId]
  <2>5. row \in Row /\ row.text = screen.text /\ row.tags = screen.tags /\ row.pinned = screen.pinned
    BY <2>1, <2>4 DEF Match
  <2> HIDE DEF row
  <2>6. [row EXCEPT !.summary = 0] = screen
    BY <2>1, <2>5 DEF Row
  <2> QED BY <2>6 DEF row
<1> QED BY <1>1, Inductive, PTL
=============================================================================
