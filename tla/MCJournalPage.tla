---- MODULE MCJournalPage ----
EXTENDS JournalPage

\* The saves of selectDay differ in nothing but their names.
FlushSymmetry == Permutations(Flushes)

\* What a later step reads: of revisions only whether the page is still the one
\* that is shown or found, of a save that has read its page only that page.
Unrevised(page) == [page EXCEPT !.rev = 0]
Remembered(c) ==
  IF c.op # "update" THEN [c EXCEPT !.page.rev = 0]
  ELSE IF c.pc = "back" THEN [c EXCEPT !.page = NoPage, !.text = {}]
  ELSE [c EXCEPT !.page.rev = 0, !.text = {}]
Current(page) == page.id # 0 => page.rev = rows[page.id].rev
PageRead ==
  <<[i \in DOMAIN rows |-> Unrevised(rows[i])],
    [i \in DOMAIN writes |-> [writes[i] EXCEPT !.page.rev = 0]],
    today, selected, text, dirty, counts, seen, mishaps,
    [j \in Jobs |-> Remembered(job[j])],
    Unrevised(entry), Current(entry),
    [i \in DOMAIN answer |-> <<Unrevised(answer[i]), Current(answer[i]), answer[i] = entry>>]>>
====
