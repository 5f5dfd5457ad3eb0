-------------------------- MODULE EntryStore_proofs --------------------------
(* Proofs about EntryStore for any set of concurrent repository calls and   *)
(* any number of days.                                                      *)
EXTENDS EntryStore, TLAPS

(* dao.update keeps what a row is: the operations never edit kind or day.   *)
LEMMA EditedType ==
  ASSUME NEW j \in Job, NEW o \in NoteEdit \cup PageEdit \cup {"appendToToday"},
         NEW entry \in Entry
  PROVE  /\ Edited(j, o, entry) \in Entry
         /\ Edited(j, o, entry).kind = entry.kind
         /\ Edited(j, o, entry).dayIndex = entry.dayIndex
         /\ DOMAIN Edited(j, o, entry) = DOMAIN entry
         /\ \A f \in DOMAIN entry : f \notin Edits[o] => Edited(j, o, entry)[f] = entry[f]
<1> DEFINE e == Edited(j, o, entry)
<1>1. DOMAIN entry = {"kind", "dayIndex", "body", "tags", "mood", "summary", "pinned",
                      "archived"}
  BY DEF Entry
<1>2. Edits[o] \in SUBSET {"body", "tags", "mood", "summary"}
  BY DEF Edits, NoteEdit, PageEdit
<1>3. DOMAIN e = DOMAIN entry /\ e = [f \in DOMAIN e |-> e[f]]
  BY DEF Edited
<1>4. /\ e["kind"] = entry["kind"] /\ e["dayIndex"] = entry["dayIndex"]
      /\ e["pinned"] = entry["pinned"] /\ e["archived"] = entry["archived"]
  BY <1>1, <1>2 DEF Edited
<1>5. e["body"] \in SUBSET Job
  BY <1>1 DEF Edited, Entry
<1>6. e["tags"] \in Writer /\ e["mood"] \in Writer /\ e["summary"] \in Writer
  BY <1>1 DEF Edited, Entry, Writer
<1>7. e = [kind |-> e["kind"], dayIndex |-> e["dayIndex"], body |-> e["body"],
           tags |-> e["tags"], mood |-> e["mood"], summary |-> e["summary"],
           pinned |-> e["pinned"], archived |-> e["archived"]]
  BY <1>1, <1>3
<1>8. e \in Entry
  BY <1>4, <1>5, <1>6, <1>7 DEF Entry
<1> QED BY <1>3, <1>4, <1>8, <1>1 DEF Edited

ReadWrite == NoteEdit \cup PageEdit

(* What a job that waits for a DAO call is about to do, and that the ids it *)
(* knows have been generated.                                               *)
CallInv ==
  /\ \A j \in Job :
       /\ at[j] = "write" => op[j] \in ReadWrite \cup {"appendToToday"}
       /\ at[j] = "read" => op[j] \in ReadWrite
       /\ at[j] = "flag" => op[j] \in Flag
       /\ at[j] = "insert" => op[j] = "upsertNote" /\ row[j] = 0
       /\ at[j] = "delete" => op[j] = "delete"
       /\ at[j] \in {"find", "create"} => op[j] \in TodayOp /\ row[j] = 0
       /\ at[j] \in {"read", "write", "flag", "delete"} => row[j] \in 1..(nextId - 1)
  /\ deleted \subseteq 1..(nextId - 1)

(* A copy waiting to be written is the row itself, unless the row was       *)
(* contended, and even then it is of the same kind and day.                 *)
CopyInv ==
  \A j \in Job : at[j] = "write" /\ row[j] \in DOMAIN rows =>
    /\ rows[row[j]].kind = copy[j].kind /\ rows[row[j]].dayIndex = copy[j].dayIndex
    /\ row[j] \notin contended => rows[row[j]] = copy[j]

(* A job about to create the page of a day that was not raced is alone, and *)
(* the day still has none.                                                  *)
CreateInv ==
  \A j \in Job : at[j] = "create" /\ day[j] \notin raced =>
    /\ \A id \in DOMAIN rows :
         rows[id].kind = "JOURNAL_ENTRY" => rows[id].dayIndex # day[j]
    /\ \A k \in Job : at[k] = "create" /\ day[k] = day[j] => k = j

IInv == TypeOK /\ CallInv /\ CopyInv /\ CreateInv
        /\ SecondPageOnlyByRace /\ DeletedStaysDeleted

-----------------------------------------------------------------------------
LEMMA BeginStep ==
  ASSUME IInv, NEW j \in Job, NEW o, NEW id, NEW call, Begin(j, o, id, call),
         \/ o \in ReadWrite /\ id \in 1..(nextId - 1) /\ call = "read"
         \/ o \in Flag /\ id \in 1..(nextId - 1) /\ call = "flag"
         \/ o = "delete" /\ id \in 1..(nextId - 1) /\ call = "delete"
         \/ o \in TodayOp /\ id = 0 /\ call = "find"
         \/ o = "upsertNote" /\ id = 0 /\ call = "insert"
  PROVE  IInv'
<1> USE DEF Begin, table, history, IInv
<1>1. TypeOK'
  BY DEF TypeOK, ReadWrite, NoteEdit
<1>2. CallInv'
  BY DEF TypeOK, CallInv
<1>3. CopyInv'
  BY DEF TypeOK, CopyInv
<1>4. CreateInv'
  BY DEF TypeOK, CreateInv
<1>5. SecondPageOnlyByRace' /\ DeletedStaysDeleted'
  BY DEF SecondPageOnlyByRace, DeletedStaysDeleted
<1> QED BY <1>1, <1>2, <1>3, <1>4, <1>5

LEMMA CallStep ==
  ASSUME IInv, NEW j \in Job, CreateNote(j) \/ EditNote(j) \/ EditPage(j) \/ OpenToday(j)
  PROVE  IInv'
<1>1. DOMAIN rows \cup deleted \subseteq 1..(nextId - 1)
  BY DEF IInv, TypeOK, CallInv
<1>2. CASE CreateNote(j)
  BY <1>2, BeginStep DEF CreateNote
<1>3. CASE EditNote(j)
  BY <1>1, <1>3, BeginStep DEF EditNote, ReadWrite
<1>4. CASE EditPage(j)
  BY <1>1, <1>4, BeginStep DEF EditPage, ReadWrite
<1>5. CASE OpenToday(j)
  BY <1>5, BeginStep DEF OpenToday
<1> QED BY <1>2, <1>3, <1>4, <1>5

LEMMA ReadStep ==
  ASSUME IInv, NEW j \in Job, ReadRow(j)
  PROVE  IInv'
<1> USE DEF ReadRow, table, history, IInv
<1>1. TypeOK'
  BY DEF TypeOK
<1>2. CallInv'
  BY DEF TypeOK, CallInv
<1>3. CopyInv'
  BY DEF TypeOK, CopyInv
<1>4. CreateInv'
  BY DEF TypeOK, CreateInv
<1>5. SecondPageOnlyByRace' /\ DeletedStaysDeleted'
  BY DEF SecondPageOnlyByRace, DeletedStaysDeleted
<1> QED BY <1>1, <1>2, <1>3, <1>4, <1>5

LEMMA DeleteStep ==
  ASSUME IInv, NEW j \in Job, DeleteRow(j)
  PROVE  IInv'
<1> USE DEF DeleteRow, IInv
<1>1. TypeOK'
  BY DEF TypeOK
<1>2. CallInv'
  BY DEF TypeOK, CallInv
<1>3. CopyInv'
  BY DEF TypeOK, CopyInv
<1>4. CreateInv'
  BY DEF TypeOK, CreateInv
<1>5. SecondPageOnlyByRace' /\ DeletedStaysDeleted'
  BY DEF TypeOK, SecondPageOnlyByRace, DeletedStaysDeleted
<1> QED BY <1>1, <1>2, <1>3, <1>4, <1>5

(* Writing one row, by an update or a flag, as far as both agree.           *)
LEMMA WriteStep ==
  ASSUME IInv, NEW j \in Job, WriteRow(j) \/ WriteFlag(j)
  PROVE  IInv'
<1> DEFINE r == row[j]
<1>1. PICK entry : /\ rows' = [i \in DOMAIN rows |-> IF i = r THEN entry ELSE rows[i]]
                   /\ r \in DOMAIN rows =>
                        /\ entry \in Entry
                        /\ entry.kind = rows[r].kind /\ entry.dayIndex = rows[r].dayIndex
  <2>1. CASE WriteRow(j)
    <3>1. op[j] \in NoteEdit \cup PageEdit \cup {"appendToToday"} /\ copy[j] \in Entry
      BY <2>1 DEF WriteRow, IInv, CallInv, TypeOK, ReadWrite
    <3>2. r \in DOMAIN rows => /\ rows[r].kind = copy[j].kind
                               /\ rows[r].dayIndex = copy[j].dayIndex
      BY <2>1 DEF WriteRow, IInv, CopyInv
    <3> QED BY <2>1, <3>1, <3>2, EditedType DEF WriteRow, Update
  <2>2. CASE WriteFlag(j)
    <3> DEFINE e == [rows[r] EXCEPT ![op[j]] = j]
    <3>1. op[j] = "pinned" \/ op[j] = "archived"
      BY <2>2 DEF WriteFlag, IInv, CallInv, Flag
    <3>2. r \in DOMAIN rows => rows[r] \in Entry
      BY DEF IInv, TypeOK
    <3>3. r \in DOMAIN rows =>
            e \in Entry /\ e.kind = rows[r].kind /\ e.dayIndex = rows[r].dayIndex
      BY <3>1, <3>2 DEF Entry, Writer
    <3> QED BY <2>2, <3>3 DEF WriteFlag
  <2> QED BY <2>1, <2>2
<1>2. /\ at[j] \in {"write", "flag"} /\ at' = [at EXCEPT ![j] = "done"]
      /\ Touch(j, r)
      /\ UNCHANGED <<nextId, today, op, row, day, copy, deleted, raced>>
  BY DEF WriteRow, WriteFlag
<1>3. /\ DOMAIN rows' = DOMAIN rows /\ rows' \in [DOMAIN rows' -> Entry]
      /\ \A i \in DOMAIN rows :
           /\ rows'[i].kind = rows[i].kind /\ rows'[i].dayIndex = rows[i].dayIndex
           /\ i # r => rows'[i] = rows[i]
  BY <1>1 DEF IInv, TypeOK
<1>4. contended' \subseteq Nat /\ contended \subseteq contended'
  BY <1>2 DEF Touch, IInv, TypeOK
<1>5. TypeOK'
  BY <1>2, <1>3, <1>4 DEF IInv, TypeOK
<1>6. CallInv'
  BY <1>2 DEF IInv, TypeOK, CallInv
<1>7. CopyInv'
  <2> SUFFICES ASSUME NEW k \in Job, at'[k] = "write", row[k] \in DOMAIN rows
               PROVE  /\ rows'[row[k]].kind = copy[k].kind
                      /\ rows'[row[k]].dayIndex = copy[k].dayIndex
                      /\ row[k] \notin contended' => rows'[row[k]] = copy[k]
    BY <1>2, <1>3 DEF CopyInv
  <2>1. k # j /\ at[k] = "write"
    BY <1>2 DEF IInv, TypeOK
  <2>2. row[k] = r => row[k] \in contended'
    BY <1>2, <2>1 DEF Touch
  <2> QED BY <1>3, <1>4, <2>1, <2>2 DEF IInv, CopyInv
<1>8. CreateInv'
  BY <1>2, <1>3 DEF IInv, TypeOK, CreateInv
<1>9. SecondPageOnlyByRace' /\ DeletedStaysDeleted'
  BY <1>2, <1>3 DEF IInv, SecondPageOnlyByRace, DeletedStaysDeleted
<1> QED BY <1>5, <1>6, <1>7, <1>8, <1>9 DEF IInv

(* What inserting under a generated id leaves of the table.                 *)
LEMMA Inserted ==
  ASSUME TypeOK, NEW entry \in Entry, Insert(entry)
  PROVE  /\ nextId' = nextId + 1 /\ nextId \in Nat \ {0} /\ nextId \notin DOMAIN rows
         /\ DOMAIN rows' = DOMAIN rows \cup {nextId} /\ DOMAIN rows' \subseteq 1..nextId
         /\ rows'[nextId] = entry
         /\ \A id \in DOMAIN rows : rows'[id] = rows[id]
         /\ rows' \in [DOMAIN rows' -> Entry]
  BY DEF TypeOK, Insert

LEMMA InsertStep ==
  ASSUME IInv, NEW j \in Job, InsertNote(j)
  PROVE  IInv'
<1> USE DEF InsertNote, IInv
<1>1. /\ NewNote(j) \in Entry /\ NewNote(j).kind = "NOTE"
      /\ NewNote(j).dayIndex = None
  BY DEF NewNote, Empty, Entry, Writer
<1>2. /\ nextId' = nextId + 1 /\ nextId \in Nat \ {0} /\ nextId \notin DOMAIN rows
      /\ DOMAIN rows' = DOMAIN rows \cup {nextId} /\ DOMAIN rows' \subseteq 1..nextId
      /\ rows'[nextId].kind = "NOTE"
      /\ \A id \in DOMAIN rows : rows'[id] = rows[id]
      /\ rows' \in [DOMAIN rows' -> Entry]
  BY <1>1, Inserted
<1>3. TypeOK'
  BY <1>2 DEF TypeOK, history
<1>4. CallInv'
  BY <1>2 DEF TypeOK, CallInv, history
<1>5. CopyInv'
  BY <1>2 DEF TypeOK, CopyInv, CallInv, history
<1>6. CreateInv'
  BY <1>2 DEF TypeOK, CreateInv, history
<1>7. SecondPageOnlyByRace' /\ DeletedStaysDeleted'
  BY <1>2 DEF SecondPageOnlyByRace, DeletedStaysDeleted, history, CallInv
<1> QED BY <1>3, <1>4, <1>5, <1>6, <1>7

LEMMA FindStep ==
  ASSUME IInv, NEW j \in Job, FindPage(j)
  PROVE  IInv'
<1> USE DEF FindPage, IInv, Found, Pages, table
<1>1. AfterToday(j) \in {"write", "done"} /\ (AfterToday(j) = "write" => op[j] = "appendToToday")
  BY DEF AfterToday
<1>2. TypeOK'
  <2>1. \A id \in DOMAIN rows : id \in Nat /\ rows[id] \in Entry
    BY DEF TypeOK
  <2>2. copy' \in [Job -> Entry] /\ row' \in [Job -> Nat]
    BY <2>1 DEF TypeOK
  <2>3. /\ raced' \subseteq 0..MaxDay
        /\ at' = [at EXCEPT ![j] = AfterToday(j)] \/ at' = [at EXCEPT ![j] = "create"]
    BY DEF TypeOK
  <2> QED BY <1>1, <2>2, <2>3 DEF TypeOK
<1>3. CallInv'
  BY <1>1 DEF TypeOK, CallInv
<1>4. CopyInv'
  BY DEF TypeOK, CopyInv
<1>5. CreateInv'
  <2>1. raced \subseteq raced'
    OBVIOUS
  <2>2. CASE at'[j] = "create"
    BY <2>1, <2>2, <1>1 DEF TypeOK, CreateInv
  <2>3. CASE at'[j] # "create"
    BY <2>1, <2>3, <1>1 DEF TypeOK, CreateInv
  <2> QED BY <2>2, <2>3
<1>6. SecondPageOnlyByRace' /\ DeletedStaysDeleted'
  BY DEF SecondPageOnlyByRace, DeletedStaysDeleted
<1> QED BY <1>2, <1>3, <1>4, <1>5, <1>6

LEMMA CreateStep ==
  ASSUME IInv, NEW j \in Job, CreatePage(j)
  PROVE  IInv'
<1> DEFINE page == NewPage(day[j])
<1> USE DEF CreatePage, IInv
<1>1. page \in Entry /\ page.kind = "JOURNAL_ENTRY" /\ page.dayIndex = day[j]
  BY DEF NewPage, Empty, Entry, Writer, TypeOK
<1>2. /\ nextId' = nextId + 1 /\ nextId \in Nat \ {0} /\ nextId \notin DOMAIN rows
      /\ DOMAIN rows' = DOMAIN rows \cup {nextId} /\ DOMAIN rows' \subseteq 1..nextId
      /\ rows'[nextId] = page
      /\ \A id \in DOMAIN rows : rows'[id] = rows[id]
      /\ rows' \in [DOMAIN rows' -> Entry]
  BY <1>1, Inserted
<1>3. AfterToday(j) \in {"write", "done"} /\ (AfterToday(j) = "write" => op[j] = "appendToToday")
  BY DEF AfterToday
<1>4. /\ at[j] = "create" /\ at' = [at EXCEPT ![j] = AfterToday(j)]
      /\ row' = [row EXCEPT ![j] = nextId] /\ copy' = [copy EXCEPT ![j] = page]
      /\ UNCHANGED <<today, op, day, deleted, raced, contended>>
  BY DEF history
<1>5. TypeOK'
  BY <1>1, <1>2, <1>3, <1>4 DEF TypeOK
<1>6. CallInv'
  BY <1>2, <1>3, <1>4 DEF TypeOK, CallInv
<1>7. CopyInv'
  <2> SUFFICES ASSUME NEW k \in Job, at'[k] = "write", row'[k] \in DOMAIN rows'
               PROVE  /\ rows'[row'[k]].kind = copy'[k].kind
                      /\ rows'[row'[k]].dayIndex = copy'[k].dayIndex
                      /\ row'[k] \notin contended' => rows'[row'[k]] = copy'[k]
    BY DEF CopyInv
  <2>1. CASE k = j
    BY <2>1, <1>2, <1>4 DEF TypeOK
  <2>2. CASE k # j
    <3>1. at[k] = "write" /\ row'[k] = row[k] /\ copy'[k] = copy[k]
      BY <2>2, <1>4 DEF TypeOK
    <3>2. row[k] # nextId
      BY <3>1, <1>2 DEF CallInv
    <3> QED BY <3>1, <3>2, <1>2, <1>4 DEF CopyInv
  <2> QED BY <2>1, <2>2
<1>8. CreateInv'
  <2> SUFFICES ASSUME NEW k \in Job, at'[k] = "create", day[k] \notin raced
               PROVE  /\ \A id \in DOMAIN rows' :
                           rows'[id].kind = "JOURNAL_ENTRY" => rows'[id].dayIndex # day[k]
                      /\ \A l \in Job : at'[l] = "create" /\ day[l] = day[k] => l = k
    BY <1>4 DEF CreateInv
  <2>1. k # j /\ at[k] = "create"
    BY <1>3, <1>4 DEF TypeOK
  <2>2. day[j] # day[k]
    BY <2>1, <1>4 DEF CreateInv
  <2>3. \A l \in Job : at'[l] = "create" => at[l] = "create"
    BY <1>3, <1>4 DEF TypeOK
  <2> QED BY <1>1, <1>2, <2>1, <2>2, <2>3 DEF CreateInv
<1>9. SecondPageOnlyByRace'
  <2>1. day[j] \notin raced =>
          \A id \in DOMAIN rows : rows[id].kind = "JOURNAL_ENTRY" => rows[id].dayIndex # day[j]
    BY <1>4 DEF CreateInv
  <2> QED BY <1>1, <1>2, <1>4, <2>1 DEF SecondPageOnlyByRace
<1>10. DeletedStaysDeleted'
  BY <1>2, <1>4 DEF DeletedStaysDeleted, CallInv
<1> QED BY <1>5, <1>6, <1>7, <1>8, <1>9, <1>10

LEMMA Inductive ==
  ASSUME IInv, [Next]_vars
  PROVE  IInv'
<1>1. CASE \E j \in Job : CreateNote(j) \/ EditNote(j) \/ EditPage(j) \/ OpenToday(j)
  BY <1>1, CallStep
<1>2. CASE \E j \in Job : InsertNote(j) \/ ReadRow(j) \/ WriteRow(j) \/ WriteFlag(j)
                         \/ DeleteRow(j) \/ FindPage(j) \/ CreatePage(j)
  BY <1>2, InsertStep, ReadStep, WriteStep, DeleteStep, FindStep, CreateStep
<1>3. CASE Midnight \/ UNCHANGED vars
  <2>1. today' \in 0..MaxDay /\ UNCHANGED <<table, jobs, history>>
    BY <1>3, StoreAssumption DEF Midnight, vars, IInv, TypeOK
  <2> QED
    BY <2>1 DEF table, jobs, history, IInv, TypeOK, CallInv, CopyInv, CreateInv,
                SecondPageOnlyByRace, DeletedStaysDeleted
<1> QED BY <1>1, <1>2, <1>3 DEF Next

LEMMA Initially == Init => IInv
<1> SUFFICES ASSUME Init PROVE IInv
  OBVIOUS
<1>1. Empty \in Entry
  BY DEF Empty, Entry, Writer
<1>2. TypeOK
  BY <1>1, StoreAssumption DEF Init, TypeOK
<1>3. CallInv /\ CopyInv /\ CreateInv /\ SecondPageOnlyByRace /\ DeletedStaysDeleted
  BY DEF Init, CallInv, CopyInv, CreateInv, SecondPageOnlyByRace, DeletedStaysDeleted
<1> QED BY <1>2, <1>3 DEF IInv

(* The inductive invariant holds in every reachable state.                  *)
THEOREM Invariance == Spec => []IInv
  BY Initially, Inductive, PTL DEF Spec

(* The table and the calls in flight hold values of their types.            *)
THEOREM TypeCorrect == Spec => []TypeOK
<1>1. IInv => TypeOK BY DEF IInv
<1> QED BY <1>1, Invariance, PTL

(* todayEntry makes a second page of a day only when two calls of it had    *)
(* both found none before either inserted.                                  *)
THEOREM OnePageUnlessRaced == Spec => []SecondPageOnlyByRace
<1>1. IInv => SecondPageOnlyByRace BY DEF IInv
<1> QED BY <1>1, Invariance, PTL

(* No update, however late, brings back a note that delete removed.         *)
THEOREM NoResurrection == Spec => []DeletedStaysDeleted
<1>1. IInv => DeletedStaysDeleted BY DEF IInv
<1> QED BY <1>1, Invariance, PTL

(* The whole-row update of an edit keeps every column that is not its own,  *)
(* unless the row was written between its read and its write.               *)
THEOREM EditsKeepOtherColumns == Spec => EditsOwnColumns
<1> DEFINE Kept == \A j \in Job : at[j] = "write" /\ at'[j] = "done" =>
       \A id \in DOMAIN rows : id \notin contended /\ id \in DOMAIN rows' =>
         \A f \in DOMAIN rows[id] : f \notin Edits[op[j]] => rows'[id][f] = rows[id][f]
<1>1. IInv /\ [Next]_vars => [Kept]_vars
  <2> SUFFICES ASSUME IInv, Next, NEW j \in Job, at[j] = "write", at'[j] = "done",
                      NEW id \in DOMAIN rows, id \notin contended, id \in DOMAIN rows',
                      NEW f \in DOMAIN rows[id], f \notin Edits[op[j]]
               PROVE  rows'[id][f] = rows[id][f]
    OBVIOUS
  <2>1. WriteRow(j)
    <3>1. ASSUME NEW k \in Job, CreateNote(k) \/ EditNote(k) \/ EditPage(k) \/ OpenToday(k)
          PROVE  FALSE
      BY <3>1 DEF IInv, TypeOK, CreateNote, EditNote, EditPage, OpenToday, Begin
    <3>2. ASSUME NEW k \in Job, InsertNote(k) \/ ReadRow(k) \/ WriteFlag(k)
          PROVE  FALSE
      BY <3>2 DEF IInv, TypeOK, InsertNote, ReadRow, WriteFlag
    <3>3. ASSUME NEW k \in Job, DeleteRow(k) \/ FindPage(k) \/ CreatePage(k)
          PROVE  FALSE
      BY <3>3 DEF IInv, TypeOK, DeleteRow, FindPage, CreatePage
    <3>4. ASSUME NEW k \in Job, WriteRow(k) PROVE k = j
      BY <3>4 DEF IInv, TypeOK, WriteRow
    <3>5. ~Midnight
      BY DEF Midnight, jobs
    <3> QED BY <3>1, <3>2, <3>3, <3>4, <3>5 DEF Next
  <2>2. op[j] \in NoteEdit \cup PageEdit \cup {"appendToToday"} /\ copy[j] \in Entry
    BY DEF IInv, CallInv, TypeOK, ReadWrite
  <2>3. CASE id = row[j]
    <3>1. rows[id] = copy[j] /\ rows'[id] = Edited(j, op[j], copy[j])
      BY <2>1, <2>3 DEF IInv, CopyInv, WriteRow, Update
    <3> QED BY <2>2, <3>1, EditedType
  <2>4. CASE id # row[j]
    BY <2>1, <2>4 DEF WriteRow, Update
  <2> QED BY <2>3, <2>4
<1> QED BY <1>1, Invariance, PTL DEF Spec, EditsOwnColumns

-----------------------------------------------------------------------------
(* The refinement of Book.  What the DAO call of job j does to its phase.   *)
LEMMA PhaseStep ==
  ASSUME TypeOK, NEW j \in Job, NEW c, at' = [at EXCEPT ![j] = c]
  PROVE  /\ Phase' = [Phase EXCEPT ![j] = IF c \in {"idle", "done"} THEN c ELSE "called"]
         /\ Phase[j] = IF at[j] \in {"idle", "done"} THEN at[j] ELSE "called"
  BY DEF TypeOK, Phase

(* From one DAO call to the next it stays called.                           *)
LEMMA SamePhase ==
  ASSUME TypeOK, NEW j \in Job, NEW c, at' = [at EXCEPT ![j] = c],
         c \notin {"idle", "done"}, at[j] \notin {"idle", "done"}
  PROVE  Phase[j] = "called" /\ Phase' = Phase
  BY DEF TypeOK, Phase

(* A job that waits for a DAO call is called.                               *)
LEMMA Waiting ==
  ASSUME TypeOK, NEW j \in Job, at[j] \notin {"idle", "done"}
  PROVE  Phase[j] = "called"
  BY DEF TypeOK, Phase

(* The operations of Book are those of the repository.                      *)
LEMMA SameEdits ==
  /\ DOMAIN Promise!Owned = ReadWrite \cup {"appendToToday"}
  /\ \A o \in ReadWrite \cup {"appendToToday"} :
       /\ Promise!Owned[o] = Edits[o]
       /\ Edits[o] \subseteq {"body", "tags", "mood", "summary"}
  /\ Promise!Flags = Flag /\ Promise!ForToday = TodayOp
  BY DEF Promise!Owned, Promise!Flags, Promise!ForToday, ReadWrite, NoteEdit, PageEdit,
         Edits, Flag, TodayOp

LEMMA BeginIsCall ==
  ASSUME IInv, NEW j \in Job, NEW o, NEW id, NEW call, Begin(j, o, id, call),
         call \notin {"idle", "done"},
         \/ o \in ReadWrite \cup Flag \cup {"delete"} /\ id \in DOMAIN rows \cup deleted
         \/ o \in TodayOp \cup {"upsertNote"} /\ id = 0
  PROVE  Promise!Call(j)
<1>1. /\ op' = [op EXCEPT ![j] = o] /\ row' = [row EXCEPT ![j] = id]
      /\ day' = [day EXCEPT ![j] = today] /\ at' = [at EXCEPT ![j] = call]
      /\ at[j] = "idle" /\ UNCHANGED <<rows, today, deleted, raced, contended>>
  BY DEF Begin, table, history
<1>2. Phase[j] = "idle" /\ Phase' = [Phase EXCEPT ![j] = "called"]
  BY <1>1, PhaseStep DEF IInv
<1>3. CASE o \in TodayOp \cup {"upsertNote"} /\ id = 0
  BY <1>1, <1>2, <1>3, SameEdits DEF Promise!Call
<1>4. CASE o \in ReadWrite \cup Flag \cup {"delete"} /\ id \in DOMAIN rows \cup deleted
  <2>1. o \in (DOMAIN Promise!Owned \cup Promise!Flags \cup {"delete"}) \ Promise!ForToday
    BY <1>4, SameEdits DEF ReadWrite, NoteEdit, PageEdit, Flag, TodayOp
  <2> QED BY <1>1, <1>2, <1>4, <2>1 DEF Promise!Call
<1> QED BY <1>3, <1>4

LEMMA CallIsCall ==
  ASSUME IInv, NEW j \in Job, CreateNote(j) \/ EditNote(j) \/ EditPage(j) \/ OpenToday(j)
  PROVE  Promise!Call(j)
<1>1. CASE CreateNote(j)
  BY <1>1, BeginIsCall DEF CreateNote
<1>2. CASE EditNote(j)
  BY <1>2, BeginIsCall DEF EditNote, ReadWrite
<1>3. CASE EditPage(j)
  BY <1>3, BeginIsCall DEF EditPage, ReadWrite
<1>4. CASE OpenToday(j)
  BY <1>4, BeginIsCall DEF OpenToday
<1> QED BY <1>1, <1>2, <1>3, <1>4

(* The last DAO call of j answers it.                                       *)
LEMMA DoneAnswers ==
  ASSUME TypeOK, NEW j \in Job, at[j] \notin {"idle", "done"},
         at' = [at EXCEPT ![j] = "done"], UNCHANGED <<today, op, day, deleted, raced>>
  PROVE  Promise!Answer(j)
  BY PhaseStep DEF Promise!Answer

(* A write contends with those that have read the row and not written it.   *)
LEMMA TouchContends ==
  ASSUME TypeOK, NEW j \in Job, Touch(j, row[j])
  PROVE  Promise!Contend(j)
<1>1. CASE UNCHANGED contended
  BY <1>1 DEF Promise!Contend
<1>2. CASE ~ UNCHANGED contended
  <2>1. /\ contended' = contended \cup {row[j]}
        /\ \E k \in Job \ {j} : at[k] = "write" /\ row[k] = row[j]
    BY <1>2 DEF Touch
  <2> QED BY <2>1, Waiting DEF Promise!Contend
<1> QED BY <1>1, <1>2

LEMMA ReadIsEdit ==
  ASSUME IInv, NEW j \in Job, ReadRow(j), at'[j] # "write"
  PROVE  Promise!Edit(j)
<1>1. /\ at[j] = "read" /\ row[j] \notin DOMAIN rows /\ at' = [at EXCEPT ![j] = "done"]
      /\ UNCHANGED <<rows, today, op, row, day, deleted, raced, contended>>
  BY DEF ReadRow, table, history, IInv, TypeOK
<1>2. Promise!Answer(j)
  BY <1>1, DoneAnswers DEF IInv
<1>3. op[j] \in DOMAIN Promise!Owned /\ row[j] # 0
  BY <1>1, SameEdits DEF IInv, CallInv, TypeOK
<1>4. rows = [id \in DOMAIN rows |-> rows[id]]
  BY DEF IInv, TypeOK
<1>5. rows' = [id \in DOMAIN rows |-> IF id = row[j] THEN rows'[id] ELSE rows[id]]
  BY <1>1, <1>4
<1> QED BY <1>1, <1>2, <1>3, <1>5 DEF Promise!Edit, Promise!Rewrite, Promise!Contend

LEMMA WriteIsEdit ==
  ASSUME IInv, NEW j \in Job, WriteRow(j)
  PROVE  Promise!Edit(j)
<1> DEFINE r == row[j]
           new == Edited(j, op[j], copy[j])
<1>1. /\ at[j] = "write" /\ at' = [at EXCEPT ![j] = "done"]
      /\ Touch(j, r) /\ UNCHANGED <<today, op, row, day, deleted, raced>>
      /\ rows' = [i \in DOMAIN rows |-> IF i = r THEN new ELSE rows[i]]
  BY DEF WriteRow, Update
<1>2. op[j] \in ReadWrite \cup {"appendToToday"} /\ r # 0 /\ copy[j] \in Entry
  BY <1>1 DEF IInv, CallInv, TypeOK
<1>3. Promise!Answer(j) /\ Promise!Contend(j)
  BY <1>1, DoneAnswers, TouchContends DEF IInv
<1>4. Promise!Rewrite(j)
  BY <1>1, <1>3 DEF Promise!Rewrite
<1>5. ASSUME r \in DOMAIN rows PROVE Promise!Edited(j, rows[r], new)
  <2>1. /\ rows[r] \in Entry
        /\ rows[r].kind = copy[j].kind /\ rows[r].dayIndex = copy[j].dayIndex
        /\ r \notin contended => rows[r] = copy[j]
    BY <1>1, <1>5 DEF IInv, CopyInv, TypeOK
  <2>2. DOMAIN new = DOMAIN rows[r] /\ DOMAIN new = DOMAIN copy[j]
    BY <1>2, <2>1 DEF Edited, Entry
  <2>3. /\ {"body", "tags", "mood", "summary"} \subseteq DOMAIN copy[j]
        /\ Promise!Owned[op[j]] = Edits[op[j]]
        /\ Edits[op[j]] \subseteq {"body", "tags", "mood", "summary"}
    BY <1>2, SameEdits DEF Entry
  <2>4. \A f \in Edits[op[j]] : Promise!Written(j, f, rows[r][f], new[f])
    BY <2>1, <2>3 DEF Promise!Written, Edited
  <2>5. \A f \in DOMAIN copy[j] \ Edits[op[j]] : new[f] = copy[j][f]
    BY DEF Edited
  <2>6. \A f \in DOMAIN rows[r] \ Edits[op[j]] :
          new[f] = rows[r][f] \/ (f \notin {"kind", "dayIndex"} /\ r \in contended)
    BY <2>1, <2>2, <2>5
  <2> QED BY <2>2, <2>3, <2>4, <2>6 DEF Promise!Edited
<1>6. r \in DOMAIN rows => Promise!Edited(j, rows[r], rows'[r])
  BY <1>1, <1>5
<1> QED BY <1>2, <1>3, <1>4, <1>6, SameEdits DEF Promise!Edit

LEMMA FlagIsSetFlag ==
  ASSUME IInv, NEW j \in Job, WriteFlag(j)
  PROVE  Promise!SetFlag(j)
<1>1. /\ at[j] = "flag" /\ at' = [at EXCEPT ![j] = "done"]
      /\ Touch(j, row[j]) /\ UNCHANGED <<today, op, row, day, deleted, raced>>
      /\ rows' = [i \in DOMAIN rows |->
                    IF i = row[j] THEN [rows[i] EXCEPT ![op[j]] = j] ELSE rows[i]]
  BY DEF WriteFlag
<1>2. Promise!Answer(j) /\ Promise!Contend(j) /\ op[j] \in Promise!Flags
  BY <1>1, DoneAnswers, TouchContends, SameEdits DEF IInv, CallInv
<1>3. Promise!Rewrite(j)
  BY <1>1, <1>2 DEF Promise!Rewrite
<1>4. row[j] \in DOMAIN rows => rows'[row[j]] = [rows[row[j]] EXCEPT ![op[j]] = j]
  BY <1>1
<1> QED BY <1>2, <1>3, <1>4 DEF Promise!SetFlag

LEMMA DeleteIsDelete ==
  ASSUME IInv, NEW j \in Job, DeleteRow(j)
  PROVE  Promise!Delete(j)
<1>1. /\ at[j] = "delete" /\ at' = [at EXCEPT ![j] = "done"]
      /\ rows' = [i \in DOMAIN rows \ {row[j]} |-> rows[i]]
      /\ deleted' = deleted \cup {row[j]}
      /\ UNCHANGED <<today, op, row, day, raced, contended>>
  BY DEF DeleteRow
<1>2. Phase[j] = "called" /\ Phase' = [Phase EXCEPT ![j] = "done"] /\ op[j] = "delete"
  BY <1>1, PhaseStep DEF IInv, CallInv
<1> QED BY <1>1, <1>2 DEF Promise!Delete, Promise!call

(* The generated id is one no row has or had.                               *)
LEMMA InsertEnters ==
  ASSUME IInv, NEW j \in Job, NEW entry, Insert(entry), row' = [row EXCEPT ![j] = nextId]
  PROVE  Promise!Enter(j, entry)
<1>1. nextId \notin {0} \cup DOMAIN rows \cup deleted /\ row'[j] = nextId
  BY DEF IInv, TypeOK, CallInv
<1>2. rows' = [i \in DOMAIN rows \cup {nextId} |-> IF i = nextId THEN entry ELSE rows[i]]
  BY DEF Insert
<1> QED BY <1>1, <1>2 DEF Promise!Enter

LEMMA InsertIsAdd ==
  ASSUME IInv, NEW j \in Job, InsertNote(j)
  PROVE  Promise!Add(j)
<1>1. /\ at[j] = "insert" /\ at' = [at EXCEPT ![j] = "done"]
      /\ Insert(NewNote(j)) /\ row' = [row EXCEPT ![j] = nextId]
      /\ UNCHANGED <<today, op, day, deleted, raced, contended>>
  BY DEF InsertNote, history
<1>2. Promise!Answer(j) /\ op[j] = "upsertNote" /\ row[j] = 0
  BY <1>1, DoneAnswers DEF IInv, CallInv
<1>3. Promise!Enter(j, NewNote(j))
  BY <1>1, InsertEnters
<1>4. NewNote(j) = [Promise!Blank EXCEPT !.body = {j}, !.tags = j, !.pinned = j]
  BY DEF NewNote, Empty, Promise!Blank
<1> QED BY <1>1, <1>2, <1>3, <1>4 DEF Promise!Add

(* What todayEntry returns ends its own call; appendToToday goes on.        *)
LEMMA TodayGiven ==
  ASSUME IInv, NEW j \in Job, at[j] \in {"find", "create"},
         at' = [at EXCEPT ![j] = AfterToday(j)],
         UNCHANGED <<today, op, day, deleted, raced, contended>>
  PROVE  Promise!Given(j)
<1>1. op[j] \in TodayOp /\ row[j] = 0
  BY DEF IInv, CallInv
<1>2. CASE op[j] = "todayEntry"
  <2>1. Phase[j] = "called" /\ Phase' = [Phase EXCEPT ![j] = "done"]
    BY <1>2, PhaseStep DEF IInv, AfterToday
  <2> QED BY <1>1, <1>2, <2>1, SameEdits DEF Promise!Given
<1>3. CASE op[j] = "appendToToday"
  <2>1. at' = [at EXCEPT ![j] = "write"]
    BY <1>3 DEF AfterToday
  <2>2. "write" \notin {"idle", "done"} /\ at[j] \notin {"idle", "done"} /\ TypeOK
    BY DEF IInv
  <2>3. Phase[j] = "called" /\ Phase' = Phase
    BY <2>1, <2>2, SamePhase, Zenon
  <2> QED BY <1>1, <1>3, <2>3, SameEdits DEF Promise!Given
<1> QED BY <1>1, <1>2, <1>3 DEF TodayOp

LEMMA FindIsFindOrRace ==
  ASSUME IInv, NEW j \in Job, FindPage(j)
  PROVE  Promise!Find(j) \/ Promise!Race(j) \/ UNCHANGED Promise!vars
<1>1. at[j] = "find" /\ UNCHANGED <<rows, today, op, day, deleted, contended>>
  BY DEF FindPage, table
<1>2. CASE at'[j] # "create"
  <2>1. PICK id \in Pages(day[j]) :
          /\ row' = [row EXCEPT ![j] = id] /\ at' = [at EXCEPT ![j] = AfterToday(j)]
          /\ UNCHANGED raced
    BY <1>2 DEF FindPage, Found, IInv, TypeOK
  <2>2. Promise!Given(j)
    BY <1>1, <2>1, TodayGiven
  <2>3. Pages(day[j]) = Promise!PagesOf(day[j])
    BY DEF Pages, Promise!PagesOf
  <2> QED BY <1>1, <2>1, <2>2, <2>3 DEF Promise!Find
<1>3. CASE at'[j] = "create"
  <2>1. /\ at' = [at EXCEPT ![j] = "create"] /\ UNCHANGED row
        /\ \/ UNCHANGED raced
           \/ /\ \E k \in Job : at[k] = "create" /\ day[k] = day[j]
              /\ raced' = raced \cup {day[j]}
    BY <1>3 DEF FindPage, AfterToday, IInv, TypeOK
  <2>2. Phase' = Phase
    BY <1>1, <2>1, SamePhase DEF IInv
  <2>3. CASE UNCHANGED raced
    BY <1>1, <2>1, <2>2, <2>3 DEF Promise!vars, Promise!call
  <2>4. ASSUME NEW k \in Job, at[k] = "create", day[k] = day[j], raced' = raced \cup {day[j]}
        PROVE  Promise!Race(j)
    <3>1. /\ k # j /\ Phase[j] = "called" /\ Phase[k] = "called"
          /\ op[j] \in TodayOp /\ op[k] \in TodayOp /\ row[j] = 0 /\ row[k] = 0
      BY <1>1, <2>4, Waiting DEF IInv, CallInv
    <3> QED BY <1>1, <2>1, <2>2, <2>4, <3>1, SameEdits DEF Promise!Race, Promise!call
  <2> QED BY <2>1, <2>3, <2>4
<1> QED BY <1>2, <1>3

LEMMA CreateIsOpen ==
  ASSUME IInv, NEW j \in Job, CreatePage(j)
  PROVE  Promise!Open(j)
<1>1. /\ at[j] = "create" /\ at' = [at EXCEPT ![j] = AfterToday(j)]
      /\ Insert(NewPage(day[j])) /\ row' = [row EXCEPT ![j] = nextId]
      /\ UNCHANGED <<today, op, day, deleted, raced, contended>>
  BY DEF CreatePage, history
<1>2. Promise!Given(j) /\ Promise!Enter(j, NewPage(day[j]))
  BY <1>1, TodayGiven, InsertEnters
<1>3. Promise!PagesOf(day[j]) = {} \/ day[j] \in raced
  BY <1>1 DEF IInv, CreateInv, Promise!PagesOf
<1>4. NewPage(day[j]) = [Promise!Blank EXCEPT !.kind = "JOURNAL_ENTRY", !.dayIndex = day[j]]
  BY DEF NewPage, Empty, Promise!Blank
<1> QED BY <1>2, <1>3, <1>4 DEF Promise!Open

(* Every DAO call is an operation of the book, or nothing it knows of.      *)
LEMMA BookStep == ASSUME IInv, [Next]_vars PROVE [Promise!Next]_(Promise!vars)
<1>1. ASSUME NEW j \in Job, CreateNote(j) \/ EditNote(j) \/ EditPage(j) \/ OpenToday(j)
      PROVE  Promise!Next
  BY <1>1, CallIsCall DEF Promise!Next
<1>2. ASSUME NEW j \in Job, InsertNote(j) \/ WriteRow(j) \/ WriteFlag(j) \/ DeleteRow(j)
                            \/ CreatePage(j)
      PROVE  Promise!Next
  BY <1>2, InsertIsAdd, WriteIsEdit, FlagIsSetFlag, DeleteIsDelete, CreateIsOpen
     DEF Promise!Next
<1>3. ASSUME NEW j \in Job, ReadRow(j) PROVE [Promise!Next]_(Promise!vars)
  <2>1. CASE at'[j] # "write"
    BY <1>3, <2>1, ReadIsEdit DEF Promise!Next
  <2>2. CASE at'[j] = "write"
    <3>1. at[j] = "read" /\ at' = [at EXCEPT ![j] = "write"]
      BY <1>3, <2>2 DEF ReadRow, IInv, TypeOK
    <3>2. Phase' = Phase
      BY <3>1, SamePhase DEF IInv
    <3> QED BY <1>3, <3>2 DEF ReadRow, table, history, Promise!vars, Promise!call
  <2> QED BY <2>1, <2>2
<1>4. ASSUME NEW j \in Job, FindPage(j) PROVE [Promise!Next]_(Promise!vars)
  BY <1>4, FindIsFindOrRace DEF Promise!Next
<1>5. CASE Midnight
  <2>1. Phase' = Phase
    BY <1>5 DEF Midnight, jobs, Phase
  <2> QED BY <1>5, <2>1 DEF Midnight, table, jobs, history, Promise!Next, Promise!Midnight,
                            Promise!call
<1>6. CASE UNCHANGED vars
  BY <1>6 DEF vars, table, jobs, history, Phase, Promise!vars, Promise!call
<1> QED BY <1>1, <1>2, <1>3, <1>4, <1>5, <1>6 DEF Next

(* The repository keeps the book: whatever calls run together, each takes   *)
(* effect at one instant, on its own columns, but for the two concessions.  *)
THEOREM Implementation == Spec => KeepsBook
<1>1. Init => Promise!Init
  BY DEF Init, Empty, Phase, Promise!Init, Promise!Blank
<1> QED BY Invariance, <1>1, BookStep, PTL DEF Spec, KeepsBook, Promise!Spec
=============================================================================
