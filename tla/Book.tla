-------------------------------- MODULE Book --------------------------------
(***************************************************************************)
(* What the repository promises its callers: each call takes effect at one *)
(* instant.  An edit finds its row gone and does nothing, or changes its   *)
(* own columns; a call for today's page gets the day's page, or makes it   *)
(* when there is none.  Two concessions: another column may be put back,   *)
(* once another call was under way on the row while it was written, and a  *)
(* day may get a second page, once two calls for it raced.                 *)
(***************************************************************************)
EXTENDS Integers

CONSTANTS Job,     \* the calls
          None,    \* nobody, as the writer of a column
          MaxDay   \* bound on the days that pass

VARIABLES rows,        \* the entries by id
          today,       \* the day
          phase,       \* is a call idle, called or done?
          op, row, day,  \* what it asks for, of which row, since which day
          deleted,     \* the ids that were deleted
          raced,       \* the days two calls raced for
          contended    \* the rows written during another call on them

call == <<op, row, day>>
vars == <<rows, today, phase, call, deleted, raced, contended>>

(* The columns an edit is about.                                           *)
Owned == [upsertNote |-> {"body", "tags"}, setTags |-> {"tags"},
          setSummary |-> {"summary"}, saveJournalText |-> {"body"},
          saveJournalMood |-> {"mood"}, appendToToday |-> {"body"}]
Flags == {"pinned", "archived"}
ForToday == {"todayEntry", "appendToToday"}

Blank == [kind |-> "NOTE", dayIndex |-> None, body |-> {}, tags |-> None,
          mood |-> None, summary |-> None, pinned |-> None, archived |-> None]

Init ==
  /\ rows = [id \in {} |-> Blank] /\ today = 0
  /\ phase = [j \in Job |-> "idle"] /\ op = [j \in Job |-> "none"]
  /\ row = [j \in Job |-> 0] /\ day = [j \in Job |-> 0]
  /\ deleted = {} /\ raced = {} /\ contended = {}

(* A call names a row that is, or was, in the book, or none when it is for *)
(* a new note or for today's page.                                         *)
Call(j) ==
  /\ phase[j] = "idle"
  /\ \/ \E o \in (DOMAIN Owned \cup Flags \cup {"delete"}) \ ForToday,
           id \in DOMAIN rows \cup deleted :
          op' = [op EXCEPT ![j] = o] /\ row' = [row EXCEPT ![j] = id]
     \/ \E o \in ForToday \cup {"upsertNote"} :
          op' = [op EXCEPT ![j] = o] /\ row' = [row EXCEPT ![j] = 0]
  /\ day' = [day EXCEPT ![j] = today]
  /\ phase' = [phase EXCEPT ![j] = "called"]
  /\ UNCHANGED <<rows, today, deleted, raced, contended>>

(* The instant at which a call takes effect, and returns.                  *)
Answer(j) == /\ phase[j] = "called"
             /\ phase' = [phase EXCEPT ![j] = "done"]
             /\ UNCHANGED <<today, op, day, deleted, raced>>

(* A row becomes contended when it is written while another call holds it. *)
Contend(j) ==
  \/ UNCHANGED contended
  \/ /\ \E k \in Job \ {j} : phase[k] = "called" /\ row[k] = row[j]
     /\ contended' = contended \cup {row[j]}

(* Only the row of j changes, if there is one.                             *)
Rewrite(j) ==
  /\ rows' = [id \in DOMAIN rows |-> IF id = row[j] THEN rows'[id] ELSE rows[id]]
  /\ UNCHANGED row
  /\ Contend(j)

Written(j, f, old, new) ==
  \/ f # "body" /\ new = j
  \/ f = "body" /\ op[j] # "appendToToday" /\ new = {j}
  \/ f = "body" /\ op[j] = "appendToToday" /\ j \in new
     /\ (new = old \cup {j} \/ row[j] \in contended)

(* Its own columns are written and the others kept; a contended row may    *)
(* lose what others wrote, but stays the note, or the page of the day, it  *)
(* is.                                                                     *)
Edited(j, old, new) ==
  /\ DOMAIN new = DOMAIN old
  /\ \A f \in Owned[op[j]] : Written(j, f, old[f], new[f])
  /\ \A f \in DOMAIN old \ Owned[op[j]] :
       new[f] = old[f] \/ (f \notin {"kind", "dayIndex"} /\ row[j] \in contended)

Edit(j) ==
  /\ op[j] \in DOMAIN Owned /\ row[j] # 0
  /\ Answer(j) /\ Rewrite(j)
  /\ row[j] \in DOMAIN rows => Edited(j, rows[row[j]], rows'[row[j]])

(* A flag is a column by itself, contended or not.                         *)
SetFlag(j) ==
  /\ op[j] \in Flags
  /\ Answer(j) /\ Rewrite(j)
  /\ row[j] \in DOMAIN rows => rows'[row[j]] = [rows[row[j]] EXCEPT ![op[j]] = j]

Delete(j) ==
  /\ op[j] = "delete" /\ phase[j] = "called"
  /\ rows' = [id \in DOMAIN rows \ {row[j]} |-> rows[id]]
  /\ deleted' = deleted \cup {row[j]}
  /\ phase' = [phase EXCEPT ![j] = "done"]
  /\ UNCHANGED <<today, call, raced, contended>>

(* j gets a row under an id that no row ever had.                          *)
Enter(j, entry) ==
  \E id \in {row'[j]} \ ({0} \cup DOMAIN rows \cup deleted) :
    /\ row' = [row EXCEPT ![j] = id]
    /\ rows' = [i \in DOMAIN rows \cup {id} |-> IF i = id THEN entry ELSE rows[i]]

Add(j) ==
  /\ op[j] = "upsertNote" /\ row[j] = 0 /\ Answer(j)
  /\ Enter(j, [Blank EXCEPT !.body = {j}, !.tags = j, !.pinned = j])
  /\ UNCHANGED contended

(* Today's page is all todayEntry asks for; appendToToday has yet to write.*)
Given(j) ==
  /\ op[j] \in ForToday /\ row[j] = 0 /\ phase[j] = "called"
  /\ phase' = IF op[j] = "todayEntry" THEN [phase EXCEPT ![j] = "done"] ELSE phase
  /\ UNCHANGED <<today, op, day, deleted, raced, contended>>

PagesOf(d) == {id \in DOMAIN rows : rows[id].kind = "JOURNAL_ENTRY" /\ rows[id].dayIndex = d}

Find(j) ==
  /\ Given(j)
  /\ \E id \in PagesOf(day[j]) : row' = [row EXCEPT ![j] = id]
  /\ UNCHANGED rows

Open(j) ==
  /\ Given(j)
  /\ PagesOf(day[j]) = {} \/ day[j] \in raced
  /\ Enter(j, [Blank EXCEPT !.kind = "JOURNAL_ENTRY", !.dayIndex = day[j]])

(* Two calls for the same day's page, neither of which has it yet.         *)
Race(j) ==
  /\ \E k \in Job \ {j} : \A i \in {j, k} :
       phase[i] = "called" /\ op[i] \in ForToday /\ row[i] = 0 /\ day[i] = day[j]
  /\ raced' = raced \cup {day[j]}
  /\ UNCHANGED <<rows, today, phase, call, deleted, contended>>

Midnight ==
  /\ today < MaxDay
  /\ today' = today + 1
  /\ UNCHANGED <<rows, phase, call, deleted, raced, contended>>

Next ==
  \/ \E j \in Job : \/ Call(j) \/ Edit(j) \/ SetFlag(j) \/ Delete(j) \/ Add(j)
                    \/ Find(j) \/ Open(j) \/ Race(j)
  \/ Midnight

Spec == Init /\ [][Next]_vars
=============================================================================
