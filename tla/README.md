# Nothing Journal: verification

TLA+ models of the parts of Nothing Journal that are hard to test: dictation,
the entry store, the note editor and the journal page over it, the on-device
engines and the thread pool they compute on, the orb's GL thread, and the
Markdown field. TLC checks them on small instances; TLAPS proves every
invariant, every action property and the three refinements for every instance,
so that only liveness rests on the instances alone. Paths below are relative to
`app/src/main/java/com/nothingjournal/` unless they start with `app/`;
`PROJECT.json` holds the run list, the definition-to-line map, the hazards, the
findings and the theorem list in machine-readable form.

    tlc -workers 2 -config MCSpeechManager.cfg MCSpeechManager
    tlapm SpeechManager_proofs.tla

Contents: 1 inventory, 2 modules, 3 runs, 4 bounds, 5 fairness, 6 proofs,
7 findings, 8 what is not modelled, 9 plan.

## 1. Inventory

The app is one Android process: a main thread (Compose, view models, service
callbacks), coroutines on `Dispatchers.Default` and `IO`, one GL thread per orb,
a Room database, and the native threads of ggml while whisper infers. Nothing
leaves the device.

| component | state it keeps | operations |
|---|---|---|
| capture loop (`speech/SpeechRecognizerManager.kt` 157-296) | room estimate, `pendingBuf`, voiced/quiet counters, lead-in window | one microphone frame at a time: measure, gate, append, flush |
| `SpeechManager` (same file) | `state`, `partialText`, `finalResult`, `lastError`, mic level, `recording`, `cancelPending`, `sink`, the recognizer, the TTS engine | start, stop, cancel, clear, speak, consumeError; capture loops, delayed publishers, recognizer and TTS callbacks |
| dictation flow (`AssistantViewModel.kt`, the screens, `MainActivity.kt`) | the screen on top, the claimed sink, the collector's suspension | taps on orbs and menus, navigation, the result collector, the editor's insertion |
| entry repository (`data/EntryRepository.kt`, `data/local/EntryDao.kt`) | the `entries` table | upsert, tags, summary, pin, archive, delete, today's page, journal text and mood, append |
| note editor (`ui/screen/editor/NoteEditorViewModel.kt`) | note id, `_note`, text, tags, pin, autosave job, AI jobs | load, type, save, tag, pin, delete, summarize, suggest tags, leave |
| journal page (`ui/screen/journal/JournalViewModel.kt`) | selected day, mirrored entry, text, debounced save | type, pick a day, mood, summarize; dictation beside it |
| whisper transcriber (`ai/WhisperTranscriber.kt`, `app/src/main/cpp/journal_whisper.cpp`) | model files, native context, mutex | sweep, stage, load once, transcribe, warm up |
| language model (`ai/LocalAiClient.kt`, `ai/AiAvailability.kt`) | model file, engine, sticky unavailability | stage, load on GPU or CPU, generate, poll |
| ggml thread pool (`app/src/main/cpp/ggml/src/ggml-cpu/ggml-cpu.c`) | stop, pause, graph counter, barrier, chunk counter, abort, status; a program counter per thread | kick off, compute with the workers, barrier, poll, sleep, pause, resume, free |
| orb view (`ui/orb/OrbRenderer.kt` 229-415) | texture, EGL surface, frame-callback chain, message queue | texture up/down, reduce motion, halt; GL-thread messages, frames |
| Markdown (`ui/markdown/`) and the body field (`ui/screen/editor/NoteEditorScreen.kt`) | text and caret | toolbar wraps and prefixes, parsing, live preview and its offset mapping, typing, taps |
| home, insights, tags, moods, templates, settings, theme | flows and tables | display |

How they interact. Every screen holds the same `SpeechManager` singleton. A
screen's orb claims a sink and calls `startListening`; the capture loop runs on
`Dispatchers.Default`, calls whisper between frames, and after the loop has
closed launches a publisher that waits `FINAL_AFTER_STOP_S` (1.4 s) and sets
`finalResult`. Two consumers watch `finalResult` on the main thread: the
collector in `AssistantViewModel`, which saves by the sink *it reads then*
through a suspending repository call, and the effect of an open note editor,
which inserts *any* result. Both acknowledge with `clearFinalResult`. The
repository is called by every view model, each in its own coroutine; Room
answers the observers again after every write. Whisper's encoder and decoder
steps are graphs that the JNI thread computes with a pool of workers.

What is hard, and what makes each part correct:

- *Capture loop.* Three places reset five counters. Correct: the buffer never
  clips, a real burst of speech is never lost whole, calibration cannot be
  mistaken for speech.
- *SpeechManager.* `recording` and `cancelPending` are shared by all sessions,
  a new session can start while an older one drains or waits to publish, state
  is settled by whichever thread comes last, loops may throw. Correct: a tap is
  refused only while dictating, a recording microphone is always shown, a
  cancelled text never becomes final, nothing is published twice, what was
  transcribed comes out.
- *Dictation flow.* The sink is read at delivery, the collector suspends and
  clears whatever the result has become, two consumers compete, the user
  navigates. Correct: text lands once, where the screen that started it said,
  never after a cancel, and always after a stop.
- *Entry repository.* No operation is a transaction: query-then-insert,
  read-then-write-the-whole-row. Correct: one page per day, deleted notes stay
  deleted, an edit changes its own columns.
- *Note editor.* Every keystroke cancels the pending autosave, wherever it is
  suspended; buttons and the model write the same row in coroutines of their
  own; the delete button reads `_note`, the saves read `noteId`. Correct: one
  row per note, the screen is what is stored, a deleted note is gone.
- *Journal page.* The text is a copy, saved by two paths, overwritten by a
  query whose answers arrive late; the selected day changes under all of them.
  Correct: text is stored under its day, nothing on a page is lost, the screen
  comes to rest on the page.
- *Engines.* The process may die between any two steps of staging, the disk may
  be full of the other engine's partial file, a failed load is remembered.
  Correct: a model file is absent or whole, the native context has one user,
  an answer is missing only for a reason, every request is answered.
- *Thread pool.* Lock-free counters beside a mutex: a worker may poll, sleep or
  be paused when work comes, may still be leaving the last barrier when the
  next graph is published, and a graph may be aborted while others compute.
  Correct: the pool computes what one thread would, and calls return.
- *Orb view.* Surfaces go while messages and frame callbacks are under way.
  Correct: no drawing on a released texture, one chain of callbacks, every
  texture released, the visible one drawn.
- *Markdown.* Offsets are translated between the text and a preview that hides
  markers; toggles move the caret. Correct: the caret stays on visible text, a
  second press undoes the first, a prefix stays on its line.

## 2. Modules

    CaptureGate     SpeechManager     NoteEditor    JournalPage
      |     |          |     |          |    |         |    |
      MC  _proofs      MC  Dictation    MC _proofs     MC _proofs
                             |   |
                             MC  SpeechManager_proofs

    EntryStore --Promise--> Book    ModelEngines --Store--> ModelStore
      |     |                         |     |
      MC  _proofs                     MC  _proofs

    ThreadPool --Eval--> GraphEval  OrbView            Markdown
      |     |                         |    \               |
      MC  _proofs                     MC    \         MarkdownField
                                             \         /         |
                                             Views_proofs        MC

Lines downward are EXTENDS; the labelled arrows are `INSTANCE ... WITH`
refinement mappings, checked by TLC as PROPERTYs and proved in the `_proofs`
modules.

**CaptureGate** is `captureLoop` frame by frame. `calibFrames`, `roomLevel`,
`pendingLen`, `pendingVoiced`, `leadIn`, `voicedFrames` and `quietFrames` are the
loop's locals; audio is counted in frames and the energy of a frame is a member
of `RmsLevels`. The three branches of the loop body are `VoicedFrame`,
`TrailingFrame` and `LeadInFrame`, each with its flush and reset inside;
`Stop` is the other thread clearing `recording` and `Leave` the tail flush after
the loop. The threshold is the code's (`max(SPEECH_RMS, 2.5 * room)`). The
weighted mean by which the room follows quiet frames is abstracted to any level
between the two operands, a superset of what the float arithmetic yields.
`burst`, `hush` and `sent` are history: they follow the speech, not the
counters, so that a wrong reset shows.

**SpeechManager** has one action per public operation, callback and coroutine
step. A *session* is a `startListening` that passed its guards; a text is a
sequence of session numbers, one per utterance, which is all the properties
need to tell whose speech went where. `main` splits `startListening` at opening
the microphone (`StartListening`, then `OpenCapture` and `ShowListening`, or
`FallBack` to the platform recognizer), because the loop already runs when the
main thread writes LISTENING. Each loop goes `reading`, `transcribing`, `tail`,
`closing`, `done`; an action ends where the code blocks (a read,
`whisper.transcribe`, `delay`). `pending` abstracts the buffer to "holds enough
voiced audio", the condition CaptureGate works out; `Hear` fills it, `Flush`,
`SeeStop` and `Transcribed` empty it. `Fail` is an exception in the loop body,
`Close` its `finally`. The delayed publisher is two steps on its own thread:
`WakePublisher` tests `recording` and `cancelPending` and takes the transcript,
`Publish` sets the result; a start, a cancel or a clear of the main thread may come
between (`publishing` holds what is in hand). `ClearFinalResult` may come at any
time: the clients call it after a suspension, whatever the result and the partial
text have become. The histories `late` and `wiped` name the sessions to which the
one or the other has happened. The platform recognizer
and the TTS engine are external: the code fixes only which callbacks exist, and
the model lets them come in any order the Android contract allows (a busy
recognizer answers ERROR_BUSY, an unbound engine accepts nothing).

**Dictation** EXTENDS SpeechManager and composes it with the screens. `TapStarts`
and `TapRefused` claim the sink and then call `StartListening` or the refused
paths, as the code does in that order; `TapStop` and `TapCancel` have the guards
of the screens (which orb states start, which menu has a cancel). `Navigate`
moves between home, journal and assistant at any time, while dictating too: the
journal composes its navigation bar over the dictation menu, the assistant shows
it under its orb, and system Back pops to any screen the present one was reached
from. The editor opens from home, whose menu hides the button, and leaves by
Back; `LeaveDictating` is its arrow while it dictates, which stops and leaves in
one tap. Back on the last screen, which leaves the app, is not modelled.
`Collect` and `Saved` are the two halves of the collector around its suspension;
`EditorInsert` is the editor's effect. `Background` is everything SpeechManager
does by itself. History records which screen started a session, where its text
belongs, where it landed, and three disturbances: `discarded` (cancelled before
the collector or the publisher's last step had its text), `crowded` (another tap
while text was on its way) and `strayed` (an editor opened over it, or was left).
The properties hold *except* for exactly those sessions; section 7 shows that the
exceptions are real. An editor that is sliding out is still composed and may
take a result: what is on its way then has strayed already, and a whisper dictation
begun later is published 1.4 s after its stop, when the transition is over.

**EntryStore** is the repository at the granularity of its DAO calls. A job is
one call of a suspend function: it waits at `read`, `write`, `find`, `create`,
`insert`, `flag` or `delete`, and any other job may run in between; Room
serialises single calls. A row's columns hold the job that wrote them, `body` the
set of jobs whose text it holds, so a lost update is a column that went back.
`Midnight` may fall between any two steps; `todayEntry` takes its day first, as
in the code. Time stamps and the source column are left out. **Book** is what the
repository promises its callers: a call takes effect at one instant. `Edit` finds
its row gone and does nothing, or writes its own columns and keeps the others;
`SetFlag`, `Delete` and `Add` are as they read; `Find` gives today's page and
`Open` makes it when there is none. There are two concessions, each with the
condition under which alone it is made: `Contend` marks a row that is written
while another call is under way on it, whose other columns may go back, and
`Race` a day for which two calls look together, which may get a second page.
`Promise` maps a job to `called` from its call to its last DAO call, and forgets
the copies, the queries and the id generator.

**NoteEditor** is the editor's view model with its coroutines (`Jobs`: load,
autosave, one AI job, and one for every tap on the pin and on delete, `Pins` and
`Deletes`). They run on `Dispatchers.Main.immediate`, so they interleave only
where they are suspended: in the debounce (`delay`), in the language model
(`thinking`), or in a DAO call, which first waits for the database (`call`) and
then for the main thread (`back`). Room executes writes one at a time in the
order issued (`writes`), reads whenever it likes. `Type` cancels the autosave
wherever it is; cancelling drops a write that waits its turn but not one being
executed. `Back` and the end of a delete only pop the screen (`popped`): the view
model, its coroutines and the screen's input live on until the exit transition
has ended (`Cleared`, which cancels viewModelScope), so a debounce can fire and
insert while the screen slides out. The next editor opens after that; what a
second pop does to the screen below is not modelled. A text is the number of the
edit that made it. The history `mishaps` names what came between two steps of a
coroutine -- an insert cancelled or doubled, a row inserted and not read back, a
delete that found `_note` null while a coroutine was at work, a write crossed by
another, a write of an earlier visit -- and every property says which of them it
excepts. The third (`unread`) is a wide one: the code promises nothing there,
because a delete on a note that is about to be inserted or loaded simply goes
back.

**JournalPage** is built the same way: the debounced save, a save for every call of
`selectDay` (`Flushes`), a coroutine for every mood or summary (`Marks`), the append
of a dictation, and a mirror of the selected day's query that Room re-runs after
every write (`Query`, `Mirror`). A text is the set of edits it holds, each with the
day that was selected when it was made, so that text under a wrong day shows. Its
`mishaps` say when something was done, never with what text: a save begun before
the mirror has shown the day picked last (`unseen`), a day picked whose page equals
the value shown before, so that the text stays (`alike`), a save begun before the
mirror had shown what is on the page (`behind`), a page written while another
coroutine was about to (`crossed`).

**ModelEngines** has one action per system call of the staging path: `Check`,
`Sweep` (files of previous generations), `Open`, `Copy`, `CopyFails`, `Measure`,
`Rename`, then `Load` or `LoadGpu`, and `Infer`. Files are lengths in blocks, the
disk is finite and shared by both engines, the coroutine mutexes are fair queues.
`Cancel` ends a waiting request, or one that was handed the mutex and has not
resumed, which passes it on. `Die` is the end of the process, also by what the
constructor of a conversation throws: files survive and nothing else does. Up to
`MaxFaults` calls fail: the sweep's listing or a delete in it, opening the asset
or creating the copy, the copy itself, the delete of a copy that is too short,
the rename (whose result the code ignores too), a load. What a sweep could not
delete is remembered in `missed`. A full disk needs no fault, and neither does an
inference that gives null (`failed`, after which the engine is kept).
**ModelStore** is the promise: `Stage` and `Load` are atomic, a model is absent
or whole. `Store` maps `out` to its `file`, and staging, partial files and deaths
to stutters.

**ThreadPool** is `ggml_graph_compute` with its pool as the app builds it (OpenMP
off). The calling thread is thread 0. A mutex section is one step, every access
of an atomic is one, local computation is folded into the step before. `Kickoff`
publishes the graph under the mutex and broadcasts; workers are at `top`, `poll`,
`lock`, `asleep` (on the condition variable) or `doze` (paused), and may wake
without cause. `ComputeStep` is the node loop: enter the barrier, arrive, release
or spin; `quantize` fills a thread's slice of the work buffer, `compute` a chunk,
`claim` takes the next from `currentChunk`. Thread 0 may set `abort` after a
node; `Free` and `Join` end the pool. **GraphEval** is its specification: node by
node, each part once, success only when everything is computed, an aborted call a
whole prefix. `Eval` maps a thread at `compute` to the part it is doing.

**OrbView** has the main thread's callbacks (`SurfaceTextureAvailable`,
`SurfaceTextureDestroyed`, `SetReduceMotion`, `Halt`), each of which posts a
message, and the GL thread: `Deliver` handles the next message, `DoFrame` a frame
callback. `drawing` is the texture of the EGL surface, which `startRender` and
`stopRender` set and clear as one; `frames` counts the callbacks posted to the
choreographer. `mishaps`: the loop stopped by one message and restarted by
another between two vsyncs (`stopped` remembers the first), or started without a
surface, EGL failed, a texture destroyed after the looper quit.

**Markdown** holds the pure functions as operators over sequences of characters;
those that go through a text match by match or line by line (`Spans`,
`BodyPreview`, `LivePreview`) are recursive functions on its offsets. "a" is any
letter, and the three characters of "[ ]" and "[x]" are one. **MarkdownField** is
the body field they act on: text and caret, `Type`, `Erase`, `Dictate`, `Tap`
(through the preview's offset mapping), `Wrap`, `Prefix`, and `Throw` for the
press that throws.

The `MC*` modules only give constants their values. Operators headed "Mutant:"
in the components are plausible bugs of the definition that follows them (a
dropped reset, an off-by-one, an unseen cancel); no specification uses them.
Each is put in place of that definition to confirm that the property it is
listed with in `PROJECT.json` can fail.

## 3. Runs

Sizes are distinct states. Where a run has a VIEW it leaves out what no later step
and no property of the run reads (histories of other properties, levels, revision
numbers that no comparison can meet), and where it has SYMMETRY the values differ in
nothing but their names; neither is used where liveness is checked.

| run | configuration | what it checks and shows |
|---|---|---|
| `gate` | `MCCaptureGate.cfg`, 32 k | With the shipped frame counts and five energies: `NoAudioTruncated`, so `appendFrame`'s silent clipping never happens; `SpeechReachesWhisper`, no burst of `MIN_VOICED_FRAMES` voiced frames is lost whole, however pauses, live flushes and the stop cut it; `CalibrationIsDeaf`, nothing in the first second can open the gate. |
| `speech` | `MCSpeechManager.cfg`, 1.79 M | Two dictations, either engine, the loop of the first may throw, cancels, clears, speech output: `RefusedOnlyWhileDictating`, `RecordingIsShown`, `CancelledNeverFinal`, `PublishedOnce`, the action property `StateSettlesFirst`, and `TranscriptSettles`: a loop told to stop settles and everything it had transcribed comes out, unless cancelled, overlapped or cleared meanwhile. `CancelledNeverFinal` excepts what the publisher had in hand when the cancel came. |
| `dictation` | `MCDictation.cfg`, 4.3 M (VIEW) | Two whisper dictations from every screen with one visit of the editor: `LandsWhereClaimed`, `LandsOnce`, `CancelledNeverLands`. |
| `dictation_liveness` | `MCDictationLiveness.cfg`, 91 k | Either engine, a loop that may throw. `StopSaves`: a stopped dictation of up to two utterances lands in full at its place. |
| `entries` | `MCEntryStore.cfg`, 287 k up to symmetry | Four concurrent calls over a midnight: `SecondPageOnlyByRace`, `DeletedStaysDeleted`, and `KeepsBook` (EntryStore implements Book: each call takes effect at one instant, on its own columns, but for the two concessions; without either of them TLC finds a counterexample). |
| `editor` | `MCNoteEditor.cfg`, 1.08 M | Two visits, each living on until its transition has ended: `OneRowPerNote`, `ScreenIsStored` (at rest, the screen is the row), `DeletedIsGone` (no late save, and none that runs while the screen slides out, brings a deleted note back), and `TypedIsStored` (what was typed is stored in the end, or the view model is gone). |
| `delete` | `MCNoteEditorDelete.cfg`, a counterexample | `DeleteDeletes`, the comment on `delete` as written: section 7. |
| `journal` | `MCJournalPage.cfg`, 9.5 M (VIEW, SYMMETRY) | Typing, two days picked, a mood, a dictation, a midnight: `TextUnderItsDay`, `ScreenSettles`, and the action property `PageKeepsText`. |
| `models` | `MCModelEngines.cfg`, 318 k | Two whisper requests and one of the language model, deaths, cancellations, failing calls, a disk with room for the two models alone: `OneContext`, `NoOldGeneration` (an old model stays only if the last sweep could not delete it), `NullIsExplained` (a request that never reaches its engine), `StagesWhole` (ModelEngines implements ModelStore), `Answered`. |
| `orb` | `MCOrbView.cfg`, 269 k | `NeverOnReleased`, `OneChain`, `LoopIsCarried`, and the liveness of `ShownIsDrawn` and `TextureIsReleased`. |
| `threadpool` | `MCThreadPool.cfg`, 169 k | Three threads, two graphs: `WorkBufferIsWhole`, `CallerOwnsParameters`, `EvaluatesGraphs` (ThreadPool implements GraphEval), `CallReturns` (a published graph is computed and a free ends: no lost wake-up). |
| `markdown` | `MCMarkdownField.cfg`, 125 k | `PreviewIsAnchored` (both directions of the offset mapping, against the text), `PressTakesBack`, `PrefixKeepsLine`. |

Deadlock is checked wherever the system must be able to go on: in `speech`,
`dictation`, `dictation_liveness`, `models` and `threadpool`. It is off for
`gate`, whose loop ends when the user stops; for `entries`, whose jobs are a
bounded number of calls; for `editor`, `delete` and `journal`, whose users come
to the end of their bounds; for `orb`, where a halted view stops for good; and
for `markdown`, where a press that throws ends the app.

## 4. Bounds

- *CaptureGate* uses the shipped counts (100 ms frames): calibration 10, end
  silence 5, live flush 15, minimum 3, lead-in 3, buffer 100. The five energies
  put a level on each side of `SPEECH_RMS` and of the gate of each room level.
  The proofs remove both bounds.
- `MaxSessions = 2`: two sessions are the smallest number in which one starts
  while the other drains, waits to publish, is refused or has failed; every
  finding needs two at most. With three, 190 million simulated states of the
  `speech` properties found nothing more, and the proved invariants hold for
  any number.
- `MaxUtterances = 1` where sessions overlap (a second utterance of a session
  repeats the first's steps) and `2` where delivery in full is the question.
  `MaxVisits = 1`: an editor that was left is already different from an editor
  that is open.
- `dictation` uses whisper alone; the platform engine, whose result is
  published by a callback without a publisher, is in `speech` and in
  `dictation_liveness`. Loops that throw (`FailingLoops`) are those of the
  first session in `speech` and `dictation_liveness`, for size, and none in `dictation`;
  the proofs of the invariants hold for any.
- `entries` has four jobs: one makes a row, and the races need at most three
  more (two finders and a writer; a reader, a flag and a delete). Two days.
  Jobs are interchangeable, so symmetry is sound; no liveness is checked there.
- `editor`: three edits, one delete more and two visits; two pins and two deletes at
  work at a time. A race needs an edit, one that cuts it
  short, and one that finds the damage; a second visit is where a coroutine of
  the first can still write.
- `journal`: two texts, one mood or summary, two days picked, four of these in all,
  two saves of `selectDay` and two coroutines in DAO calls at a time, two days with
  the midnight between them. Two coroutines are what a crossing needs, and two days
  picked what brings the second save in beside the first.
- `models`: `Size = 2` blocks, so that a copy can be cut in the middle, and
  `MinValid = 0`; bundled models absent, too short or whole; a room of 4, which
  the two models fill, so that an old generation or a left-over copy is in the
  way (the proofs hold for every room); two faults, so that a recovery can fail
  too. Two whisper requests contend for the context.
- `orb`: three textures, five toggles of the motion setting, one EGL failure.
- `threadpool`: `N = 3` with any number of threads used per graph; two graphs,
  so that a worker can be left behind by one when the next is published; four
  nodes, of which one is a no-op and two are multiplications whose 8 chunks are
  claimed one by one on one or two threads and re-split on three. The proofs
  remove all of these bounds.
- `markdown`: all texts of up to four characters over letter, star, space and
  newline, and all notes of two lines out of eight that hold headings, quotes,
  bullets, boxes, code and nested markers; taps anywhere, one edit, and then in
  the properties up to four more presses. A marker has at most two characters, so
  that four hold every way in which a marker, a neighbour and a caret can meet.
- Recorded counters (`heard`, `landed`, `published`) are bounded by the sessions
  and utterances, not by guards of their own.

## 5. Fairness

Weak fairness is assumed only for steps the runtime owes.

- *SpeechManager, Dictation*: a coroutine on `Dispatchers.Default` whose
  transcription or delay has ended is resumed (`LoopStep`, `WakePublisher`,
  `Publish`), the main thread finishes the `startListening` it is in
  (`OpenCapture \/ FallBack`,
  `ShowListening`) and runs continuations and recompositions (`Collect`,
  `EditorInsert`), and a repository call returns (`Saved`). None for the user,
  for the platform recognizer, whose callbacks may never come, for the TTS
  engine, or for a failure. `TranscriptSettles` therefore says nothing of a
  session served by the platform recognizer, and `StopSaves` begins where a
  capture loop is told to stop.
- *NoteEditor*: Room executes what was issued, a debounce fires, the language
  model answers, a coroutine that can go on is dispatched. None for the user, nor
  for the end of a transition.
- *ModelEngines*: a request that can take its next step takes it (`Serve`), and the
  poll of `AiAvailability` is a loop. None for deaths, cancellations or failures.
- *OrbView*: the GL looper delivers, and the display refreshes.
- *ThreadPool*: the scheduler runs every thread that can go on. Whether the
  caller computes, pauses, resumes or frees is its choice, but what it has begun
  it ends. The graphs are bounded by `MaxGraphs`, in the guard of the caller
  alone, so the bound cannot make a call return.
- CaptureGate, EntryStore, JournalPage and MarkdownField state no fairness and
  no liveness.

## 6. What is proved

Every theorem below is checked by tlapm for all values of the constants that
meet the named assumptions of the component (and every leaf of every lemma).

**CaptureGate_proofs.** Assumptions: `LevelsAssumption`, `FramesAssumption`,
`CapacityAssumption` -- the last says the buffer holds
`LEAD_IN + LIVE_FLUSH + (LIVE_FLUSH - 1)(END_SILENCE - 1)` frames, which is 74
of 100 in the shipped code and the constraint to keep when a constant is
tuned. `IInv` strengthens the properties by `BufferInv` (the two voiced
counters agree, an empty utterance has an empty buffer, an open one is within
a budget linear in its voiced frames: neither bound is inductive without the
other) and `SpeechInv` (how the counters follow the burst). Theorems:
`TypeCorrect`, `BufferNeverClips`, `SpeechIsSent`; and from `DeafInv`, an
invariant of its own, `NothingHeardWhileCalibrating`.

**SpeechManager_proofs**, for SpeechManager. Assumption: `SpeechAssumption`
only, so any number of sessions and utterances, either engine, failing loops.
`IInv` is `TypeOK`, `ControlInv`, `RecordingIsShown`, `PublisherInv` and `TextInv`.
`RecordingIsShown` is not inductive: a loop that closes sets IDLE, so one must
know that whoever can still settle is the recording session itself or overlapped
it. That is `OverlapInv` (a session that met none unsettled has only settled ones
before it), with `RecordInv` (only the latest session records, and the platform
engine has no part in it) and `FreshInv` (a session being opened is known to
nobody). `PublisherInv` says that each publisher is launched once, by a loop that
has left the state settled, and `TextInv` whose utterances the texts hold: what a
session has said and not made final is in `partialText` alone and counted by
nobody else, and as long as a cancelled session has anything there or is still
under way, the flag is up. Theorems: `TypeCorrect`, `RefusalMeansDictating`,
`MicrophoneIsShown`, `CancelIsKept`, `PublicationIsOnce`, and the action property
`StateIsSettled`.

**SpeechManager_proofs**, for Dictation, which extends SpeechManager and whose
steps are its steps: the flow is proved on top of the same invariant, so both are
in one module. Assumption: `VisitAssumption` beside the other. `DInv` adds
`ServedInv` and `HeardInv` (the platform engine says one thing of a session, and
nothing is transcribed that was not heard), `SaidInv` (nothing is delivered that
was not published), `RouteInv` (while a text of an undisturbed session is on its
way, the sink and the editor are still those its screen had, so that either
consumer takes it home, whichever of the other screens the user has gone to),
`LandInv` (what has landed and what is on its way are together no more than what
was published: the collector's copy and `finalResult` are not both counted,
although both hold the text while the repository works) and `DiscardInv`.
Theorems: `FlowTypeCorrect`, `ResultIsRouted`, `ResultLandsOnce`,
`CancelDiscardsUnsaved`.

**EntryStore_proofs.** Assumption: `StoreAssumption`; any set of jobs, any number
of days. `CallInv` says what a waiting job is about to do, `CopyInv` that a copy
waiting to be written is the row itself unless the row is contended, `CreateInv`
that a job about to create the page of an unraced day is alone and the day is
still empty. Theorems: `TypeCorrect`, `OnePageUnlessRaced`, `NoResurrection`,
`EditsKeepOtherColumns` (an action property, about the write of a copy in terms of
EntryStore alone), and `Implementation`: `Spec => KeepsBook`. There is one lemma per
DAO call, from `WriteIsEdit` to `CreateIsOpen`, which names the step of Book it is;
a read that finds its row and a query that finds no page are stutters, or a `Race`.
The mapping needs all of the invariant: that a stale copy is only written to a
contended row is `CopyInv`, that a page is only made twice on a raced day is
`CreateInv`, and that a generated id was never a deleted one is `CallInv`.

**NoteEditor_proofs.** Assumption: `EditorAssumption`; any number of edits and
visits. The invariant speaks of the view model, which lives on after the pop, so
that a debounce which fires while the screen slides out is a step like any other.
Every part of `IInv` is under the exceptions of the property it serves. `DutyInv`
and `QueueInv` say which calls a coroutine can be in and that a queued write is
that of the coroutine waiting for it, except for the one at the head, which may
outlive it: cancelling takes a write out of Room's queue unless it is being
executed. `MakerInv`, `LoadInv` and `CallInv` (while no insert was cut short or
doubled) say that one coroutine at most makes the row of the visit and every
other works on the row it made; `OpenedInv` that a note being loaded has not been
touched; `NoteInv` and `GoneInv` that `_note` is the note, or being read, while
there is one, so that the delete button finds it; `FirstInv`, `CopyInv` and
`ScreenInv` where the text on screen is: in the debounce, in the last save of
Room's order, or in the row with no save left to undo it. Theorems:
`TypeCorrect`, `OneRowHolds`, `DeletedIsGoneHolds`, `ScreenIsStoredHolds`.

**JournalPage_proofs.** Assumption: `PageAssumption`; any days, edits and
switches, and any number of coroutines under way. `LinkInv`, `FlowInv` and
`QueueInv` say that every copy of a page -- the mirror's, a coroutine's, a queued
write's -- is of a page that is stored, and of the first of its day where the
query gave it; `DayInv` that all of them, and the screen once the mirror has
shown the day picked last, hold text of their own day, which needs `SeenInv`: the
page shown is then of the day that is selected; `KeepInv` that what waits to be
written holds all that is on its page; `FreshInv` that the mirror shows the page
unless the query is due again; `ScreenInv` that a text which is not that of the
page shown is held by a debounce or a save heading for that page, or the page has
been written since. Theorems: `TypeCorrect`, `TextStaysUnderItsDay`,
`ScreenSettlesHolds`, and the action property `PageKeepsTextHolds`.

**ModelEngines_proofs.** Assumption: `EnginesAssumption`; any requests (none of
them named like an engine), sizes, disks and number of faults. `IInv` is `Types`,
`LockInv` (a request that stages or loads, or that infers on whisper's context,
holds its engine's mutex), `FileInv` (a model file is absent or whole, the
temporary file is what its writer has copied, and whole when it is about to be
renamed), `SweepInv` (who is past the sweep has left no older generation, unless
a delete was `missed`), `RoomInv` and `HurtInv`. The file invariant needs the
lock: a second writer would truncate the file the first is about to rename. That
a request is only refused for a reason is an account of the disk: `RoomInv` says
that an engine with a model has no temporary file and only one without stages, so
each takes the room of one model, and a copy that finds the disk full either has
no room for two and what a sweep has missed, or met an earlier fault, which
`HurtInv` remembers. Theorems: `OneContextHolds`, `NoOldGenerationHolds`,
`NullIsExplainedHolds`, and `Implementation`: `Spec => StagesWhole`, where every
step is a step of ModelStore or a stutter. The fair queues of the mutexes have an
invariant of their own, `MutexInv`: a mutex that somebody waits for is held, by a
request of its engine that is at work, and who waits either holds it already or
stands in its queue, once. Theorems: `MutexIsNeverLost` (no cancellation of a
waiting request, wherever it stands, loses the mutex or leaves a request behind)
and `TypeCorrect`.

**Views_proofs**, for OrbView. Assumption: `OrbAssumption`. `ChainInv` adds to
the two properties that a loop that is on has a surface too, and that a callback
which is left over from a loop that was stopped is gone with the next vsync, so
that only a restart before that (`rushed`) can add a second; `PostedInv` that the
messages under way name textures the view has been given. `SurfaceInv` and its
part `OrderInv` are about the order of the queue: a start is posted before its
texture is given up and delivered before that, so no start can follow the release
of its texture, and none is obeyed after the halt. Theorems: `TypeCorrect`,
`OneChainHolds`, `LoopIsCarriedHolds`, `NeverOnReleasedHolds`.

**Views_proofs**, for Markdown and MarkdownField. Assumption: `FieldAssumption`. The
three properties are about any text and caret, however they came about, so
the invariant is the type of both (`FieldTypeCorrect`, which needs that a press and
a tap leave the caret inside the text) and the work is in lemmas about the
operators. `LeastOf` and `GreatestOf` say that the positions the code finds with
`indexOf` and `lastIndexOf` exist, from the well-founded order of the subsets of a
finite set; `Backwards` and `Forwards` turn them into induction over the offsets of
a text, stated for a *set* of offsets because the library's induction theorems
take an operator and cannot be used here. A recursive function is unfolded by
`BodyUnfold` and its like, which build it from the end of the text and so show that
its equation has a solution. On these rest:

- `PressStaysOnLine`, from what a line is (`LineEndFacts`, `LineStartFacts`) and
  where each character of a changed text comes from (`SplicedIs`);
- `PressReversible`: `WordsSpliced` (only marker characters are touched),
  `PlainTakesBack`, `HeadingTakesBack` (three levels up and off again) and
  `WrapTakesBack` (what the runs of stars on both sides of a word are);
- `PreviewAnchored`: the preview shows what the reader would, each shown character
  at its own column, and no tap ends inside a hidden marker. It is proved for the
  matches of a line (`BodyAnchored`), a line with the prefix it hides
  (`LineAnchored`) and the text (`LiveAnchored`).

**ThreadPool_proofs.** Assumption: `PoolAssumption`; any number of threads, any
graph, any number of graphs. The argument is about the barrier: `TeamInv` says
who takes part in the current graph and who is elsewhere (a worker that has not
seen the new graph number, or was left out of its thread count, can only be
waiting or leaving), `BarrierInv` that its counter is the number of threads
it holds and that it lets nobody go before the last, `Lockstep` that the whole
team is in one half of one node -- before or after the barrier inside a
multiplication -- with what that half has filled of the work buffer and computed
of the node, and `ResultInv` what a call has achieved when its last barrier lets
the caller go. None is inductive alone: the counter of a barrier means
nothing unless nobody outside the team can touch it, and the team is only
separated from the last one by its last barrier. Theorems: `TypeCorrect`,
`BufferIsWhole`, `ParametersAreOwned`, and `PoolEvaluatesGraphs`:
`Spec => EvaluatesGraphs`.

Every invariant, action property and refinement of the passing runs is proved.
Only model-checked: liveness (`TranscriptSettles`, `StopSaves`, `TypedIsStored`,
`Answered`, `ShownIsDrawn`, `TextureIsReleased`, `CallReturns`), which with its
fairness (ENABLED) is out of the prover's reach. The type invariants are in no run:
TLC checked them while the modules were built, and each is a theorem.

## 7. Findings

The run `delete` ends in a short counterexample. After the first save of a new
note, `save` takes the id and then suspends to read the row into `_note`; a
keystroke in that moment cancels it, `_note` stays null, and for the rest of the
visit `delete` goes back without deleting. The comment says "Deletes the note if
it exists; new unsaved notes simply go back."
(`ui/screen/editor/NoteEditorViewModel.kt:132`).

These sentences are stated as definitions too and TLC refutes each; to see it,
put the definition as the INVARIANT into the component's `.cfg`. They are in no run
of their own, because the passing runs hold the same behaviour as exceptions.

| definition | what the code does | what a comment or the README says |
|---|---|---|
| `CancelDiscards` (SpeechManager) | a cancel followed at once by a start: `cancelPending` is cleared under the cancelled loop, which then transcribes and publishes; or a cancel between the publisher's test and its write | "discards everything transcribed so far" (`speech/SpeechRecognizerManager.kt:318`) |
| `SpeakingIsAudible` (SpeechManager) | the first `speak` comes before the engine is bound; it is refused and SPEAKING never ends by itself | "the SPEAKING state drives the orb" (`:413`) |
| `OnePerDay` (EntryStore) | two `todayEntry` calls both find no page and both insert | "The one-per-day invariant lives here" (`data/EntryRepository.kt:98`) |
| `RoutedToClaimedSink` (Dictation) | a note dictated on Home is inserted into an editor opened before it is published | "the result is routed to that sink" (`README.md:168`) |
| `ReviewIsNotSaved` (Dictation) | the assistant screen claims no sink, so the text is saved under the previous screen's | "keeps the explicit save/append buttons" (`speech/SpeechRecognizerManager.kt:41`) |
| `StopOnHomeCreatesNote` (Dictation) | a second tap within the publisher's delay discards the first note | "stop on Home creates a note" (`README.md:168`) |
| `GivenUpIsReleased` (OrbView) | a texture destroyed after `halt` has quit the looper is never released: the message is dropped | "then release it ourselves (returning false promises this)" (`ui/orb/OrbRenderer.kt`) |
| `SecondPressUnwraps` (MarkdownField) | after bold on a word the caret stands behind the markers, where a second press wraps again: `say **hello**` becomes `say **hello******` | "A second press on already-wrapped text unwraps it" (`ui/markdown/Markdown.kt:130`) |

The exceptions written into the passing properties are behaviour of the code too:
a loop that throws leaves `recording` set and refuses every later tap until a
stop (`sessions \in failed`); `speak` during a dictation replaces LISTENING over
an open microphone (`spokenOver`); a platform result that arrives after a cancel
is published all the same (`loop[s] = "none"`); an older session's publisher can
publish a later one's text early, and an older loop's `finally` can set IDLE
under it (`overlapped`); a cancel comes too late for a text the publisher has
taken (`late`); a collector that comes back from the repository clears the result
and the partial text of the dictation then under way (`wiped`); in the editor, a
keystroke that cancels the first insert can leave a second row, and a visit's
last write can land in the next (`mishaps`); on the journal page, a text saved in
the moment between picking a day and seeing its page is stored under that day
(`unseen`), a text typed on a day without a page stays on screen when another day
without one is picked, and can be stored under that (`alike`), and typing over a
page whose dictation has not reached the screen drops it (`behind`); an older
whisper model that could not be deleted stays beside the new one and is not
looked at again while that one is good (`missed`).

Seen while modelling, without a property: text typed on a past day that has no
page is never stored; `selectDay` does not cancel the debounce; the language
model's left-over `.tmp` is never removed and can leave whisper no room to
stage; `journal_whisper.cpp:61` releases the language string that the later
`whisper_full` still points to; the one or two voiced frames that follow a live
flush are dropped as a blip; the platform engine's end leaves the microphone
level set. In Markdown: a press with the caret before a newline that begins the
text throws (`Markdown.kt:161`); removing a prefix from under the caret carries
the caret to the line before; "every selected line" is one line; italic on bold
text strips one star of each pair; a tap on a quote bar or bullet ornament puts
the caret at the end of the line before.

## 8. Not modelled

- `shutdown` of SpeechManager, `nativeFree` of whisper, `toggleCheckbox` and
  `isCheckLine`: nothing calls them.
- The observing queries, search and aggregates of the DAO, but for the journal
  page's query: they only read.
- The assistant screen's save, append and summarize buttons: they do not touch
  the speech state, and the repository calls they make are jobs of EntryStore.
- The orb-state mirror of `AssistantViewModel`: the screens are modelled as
  reading `state` itself.
- The mirror of the body between the editor's view model and its field
  (`NoteEditorScreen.kt:92`): NoteEditor has the view model's text alone,
  MarkdownField the field's.
- Samples, transcripts, prompts, layout, shaders and the eased parameters of
  `OrbEngine`: data and floating point.
- Tags, moods and templates: stateless tables with unit tests. The streak: one
  loop over a set of days with unit tests. Settings and onboarding: two atomic
  DataStore edits.
- whisper.cpp and ggml beyond the CPU thread pool. The tree under
  `app/src/main/cpp` has some 400 000 lines, of which most are backends the app
  never builds (OpenCL, Vulkan, SYCL, Hexagon, CUDA, Metal, kernels for other
  processors), and of what it does build nearly all is arithmetic: tensor
  kernels, quantisation, the model's layers, log-mel spectra. Their control
  state is in the pool, which is modelled; the share of the tree's lines
  that the map covers is small for that reason and will stay so.

## 9. Plan

Done: all modules of section 2, checked, and proved as section 6 says.

Left, the most important first:

1. NoteEditor and JournalPage over Book: their queued writes are calls of it, so
   the concessions a screen can meet could be read off their mishaps.
2. An abstract *dictation* -- a text is taken, then lands once or is discarded --
   that the dictation flow implements for sessions that met nothing.
3. The field mirror of the editor screen, composing MarkdownField with NoteEditor.
4. ggml's graph allocator (`ggml-alloc.c`: tensors that share memory are not
   live together), and the seek loop of `whisper_full`.
