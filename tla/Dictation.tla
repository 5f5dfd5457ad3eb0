------------------------------ MODULE Dictation ------------------------------
(* The dictation flow: the screens that start, stop and cancel a dictation, *)
(* the sink they claim, and the two consumers of the final result -- the    *)
(* collector of AssistantViewModel and the effect of an open note editor -- *)
(* composed with SpeechManager.                                             *)
(*                                                                          *)
(* The screens read the assistant state directly: the orb state is a mirror *)
(* of it kept by the main thread.  Text lands at a place: a new note, the   *)
(* journal page of today, or the note open in the v-th visit of the editor. *)
(* The buttons of the assistant screen that save a result leave the speech  *)
(* state alone and are not actions here; speaking aloud is left to the runs *)
(* of SpeechManager.                                                        *)
EXTENDS SpeechManager

CONSTANT MaxVisits      \* bound on the times the note editor is opened

ASSUME VisitAssumption == MaxVisits \in Nat

VARIABLES
  screen,        \* the screen on top
  visit,         \* how often the editor has been opened
  sink,          \* SpeechManager.sink: DictationSink
  seen,          \* the value of finalResult the collector handled last
  saving         \* what the collector is suspended in: a place and its text

VARIABLES
  claim,         \* history: the sink of the screen that started the session
  home,          \* history: the place its text belongs to
  landed,        \* history: how often an utterance of it landed at a place
  discarded,     \* history: sessions cancelled before their text was taken
  crowded,       \* history: sessions that shared the flow with another tap
  strayed        \* history: sessions whose text met another editor, or none

flow == <<screen, visit, sink, seen, saving>>
flowHistory == <<claim, home, landed, discarded, crowded, strayed>>
dvars == <<vars, flow, flowHistory>>

Screen        == {"home", "journal", "assistant", "editor"}
DictationSink == {"HOME_NOTE", "JOURNAL_APPEND", "ASSISTANT_REVIEW", "EDITOR_CURSOR"}
EditorNote    == {<<"editor", v>> : v \in 1..MaxVisits}
Place         == {<<"note", 0>>, <<"journal", 0>>} \cup EditorNote
Nowhere       == <<"none", 0>>

(* The sink a screen stands for; AssistantScreen is the one that reviews.   *)
SinkOf == [home |-> "HOME_NOTE", journal |-> "JOURNAL_APPEND",
           assistant |-> "ASSISTANT_REVIEW", editor |-> "EDITOR_CURSOR"]

(* The place the text of a screen's dictation belongs to.                   *)
PlaceOf(scr) ==
  CASE scr = "home"      -> <<"note", 0>>
    [] scr = "journal"   -> <<"journal", 0>>
    [] scr = "assistant" -> Nowhere
    [] scr = "editor"    -> <<"editor", visit>>

NotSaving == [place |-> Nowhere, text |-> <<>>]

DInit ==
  /\ Init
  /\ screen = "home" /\ visit = 0
  /\ sink = "ASSISTANT_REVIEW"
  /\ seen = <<>> /\ saving = NotSaving
  /\ claim = [s \in Session |-> "none"]
  /\ home = [s \in Session |-> Nowhere]
  /\ landed = [s \in Session |-> [p \in Place |-> 0]]
  /\ discarded = {} /\ crowded = {} /\ strayed = {}

(* Sessions that may still have text on its way to a place.  A result left  *)
(* for review on the assistant screen waits for nobody.                     *)
InResult(s)  == Contains(finalResult, s)
BeingSaved(s) == Contains(saving.text, s)
Undelivered  ==
  {s \in 1..sessions :
     ~Settled(s) \/ BeingSaved(s) \/ (InResult(s) /\ claim[s] # "ASSISTANT_REVIEW")}

(* Their text is in the hands of the collector or of a publisher.           *)
Taken(s) == BeingSaved(s) \/ \E p \in publishing : Contains(p.text, s)

(* Sessions whose text loses its way when an editor opens over it, or when  *)
(* the editor it was meant for is left.                                     *)
Adrift == {s \in 1..sessions : s \in Undelivered \/ InResult(s)}

Land(text, place) ==
  landed' = [s \in Session |->
    [landed[s] EXCEPT ![place] = @ + Occurrences(text, s)]]

-----------------------------------------------------------------------------
(* Taps.                                                                    *)

(* Mutant: no screen claims its sink.                                       *)
ClaimNothing(scr) == UNCHANGED sink

(* Mutant: a screen does not take over the sink an earlier one has claimed. *)
ClaimIfFree(scr) ==
  sink' = IF scr = "assistant" \/ sink # "ASSISTANT_REVIEW" THEN sink ELSE SinkOf[scr]

(* The sink a tap leaves behind: AssistantScreen calls the startListening   *)
(* that does not set one.                                                   *)
ClaimSink(scr) == sink' = IF scr = "assistant" THEN sink ELSE SinkOf[scr]

(* The orb of a screen, when its state says nobody is dictating -- and on   *)
(* the assistant screen also while THINKING.                                *)
OrbStarts(scr) ==
  /\ main = "ready" /\ screen = scr
  /\ IF scr = "assistant" THEN state \notin {"LISTENING", "SPEAKING"} ELSE ~Dictating
  /\ ClaimSink(scr)

(* The tap gets through to a new session.                                   *)
TapStarts(scr) ==
  /\ OrbStarts(scr)
  /\ StartListening
  /\ claim' = [claim EXCEPT ![sessions + 1] = SinkOf[scr]]
  /\ home' = [home EXCEPT ![sessions + 1] = PlaceOf(scr)]
  /\ crowded' = IF Undelivered = {} THEN crowded
                ELSE crowded \cup Undelivered \cup {sessions + 1}
  /\ UNCHANGED <<screen, visit, seen, saving, landed, discarded, strayed>>

(* The tap is refused, by the permission or because a session is recording, *)
(* but the sink has been claimed already.                                   *)
TapRefused(scr) ==
  /\ OrbStarts(scr)
  /\ StartDenied \/ (recording /\ UNCHANGED vars)
  /\ crowded' = crowded \cup Undelivered
  /\ UNCHANGED <<screen, visit, seen, saving, claim, home, landed, discarded, strayed>>

(* Stop: the orb or the menu of a dictating screen, and the editor's Back.  *)
TapStop ==
  /\ IF screen = "assistant" THEN state = "LISTENING" ELSE Dictating
  /\ StopListening
  /\ UNCHANGED <<flow, flowHistory>>

(* Cancel: the menu is on screen while dictating, and on home it can still  *)
(* be tapped while it fades out.                                            *)
TapCancel ==
  /\ screen # "assistant"
  /\ Dictating \/ (screen = "home" /\ (publishers # <<>> \/ publishing # {}))
  /\ CancelListening
  /\ discarded' = discarded \cup {s \in Undelivered : ~Taken(s)}
  /\ UNCHANGED <<flow, claim, home, landed, crowded, strayed>>

(* The navigation bar and system Back move between the three screens at any *)
(* time: over the menu of the journal and on the assistant screen the bar   *)
(* can be tapped, and Back pops home too, to a screen it was reached from.  *)
(* The editor opens from home, whose menu hides the button; its Back stops  *)
(* a dictation instead of leaving.                                          *)
CanGo(from, to) ==
  \/ /\ from \in {"home", "journal", "assistant"} \ {to}
     /\ to \in {"home", "journal", "assistant"}
  \/ from = "home" /\ to = "editor" /\ ~Dictating
  \/ from = "editor" /\ to = "home" /\ ~Dictating

(* A screen comes up or is left.                                            *)
Navigate(to) ==
  /\ main = "ready"
  /\ CanGo(screen, to)
  /\ to = "editor" => visit < MaxVisits
  /\ screen' = to
  /\ visit' = IF to = "editor" THEN visit + 1 ELSE visit
  /\ strayed' = IF "editor" \in {screen, to} THEN strayed \cup Adrift ELSE strayed
  /\ UNCHANGED <<vars, sink, seen, saving, claim, home, landed, discarded, crowded>>

(* The arrow of a dictating editor: it stops and leaves in one tap.         *)
LeaveDictating ==
  /\ screen = "editor" /\ Dictating
  /\ StopListening
  /\ screen' = "home"
  /\ strayed' = strayed \cup Adrift
  /\ UNCHANGED <<visit, sink, seen, saving, claim, home, landed, discarded, crowded>>

-----------------------------------------------------------------------------
(* The consumers, both on the main thread.                                  *)

(* Mutant: whatever is not reviewed becomes a note.                         *)
NoteUnlessReviewed == CASE sink = "ASSISTANT_REVIEW" -> Nowhere
                        [] sink = "JOURNAL_APPEND"   -> <<"journal", 0>>
                        [] OTHER                     -> <<"note", 0>>

(* Where the collector saves, by the sink it reads on delivery.             *)
SinkPlace == CASE sink = "HOME_NOTE"      -> <<"note", 0>>
               [] sink = "JOURNAL_APPEND" -> <<"journal", 0>>
               [] OTHER                   -> Nowhere

(* The collector of AssistantViewModel is resumed with the latest value.    *)
(* For a sink of its own it suspends in the repository, else it goes on.    *)
Collect ==
  /\ main = "ready"
  /\ saving = NotSaving
  /\ finalResult # seen
  /\ seen' = finalResult
  /\ saving' = IF finalResult # <<>> /\ SinkPlace # Nowhere
               THEN [place |-> SinkPlace, text |-> finalResult] ELSE NotSaving
  /\ UNCHANGED <<vars, screen, visit, sink, flowHistory>>

(* The note is inserted or the page appended to, and the result cleared.    *)
Saved ==
  /\ saving # NotSaving
  /\ Land(saving.text, saving.place)
  /\ ClearFinalResult
  /\ saving' = NotSaving
  /\ UNCHANGED <<screen, visit, sink, seen, claim, home, discarded, crowded, strayed>>

(* The effect of an open editor inserts any result at the cursor.           *)
EditorInsert ==
  /\ screen = "editor" /\ finalResult # <<>>
  /\ Land(finalResult, <<"editor", visit>>)
  /\ ClearFinalResult
  /\ UNCHANGED <<flow, claim, home, discarded, crowded, strayed>>

-----------------------------------------------------------------------------
(* What SpeechManager does by itself.                                       *)
Background ==
  /\ \/ OpenCapture \/ ShowListening \/ FallBack
     \/ \E s \in Session : Hear(s) \/ LoopStep(s) \/ Fail(s)
     \/ WakePublisher \/ \E p \in publishing : Publish(p)
     \/ Recognition
  /\ UNCHANGED <<flow, flowHistory>>

DNext ==
  \/ \E scr \in Screen : TapStarts(scr) \/ TapRefused(scr) \/ Navigate(scr)
  \/ TapStop \/ TapCancel \/ LeaveDictating
  \/ Collect \/ Saved \/ EditorInsert
  \/ Background

(* The main thread runs its continuations, the repository answers.          *)
DFairness ==
  /\ \A s \in Session : WF_dvars(LoopStep(s) /\ UNCHANGED <<flow, flowHistory>>)
  /\ WF_dvars(WakePublisher /\ UNCHANGED <<flow, flowHistory>>)
  /\ WF_dvars((\E p \in publishing : Publish(p)) /\ UNCHANGED <<flow, flowHistory>>)
  /\ WF_dvars((OpenCapture \/ FallBack) /\ UNCHANGED <<flow, flowHistory>>)
  /\ WF_dvars(ShowListening /\ UNCHANGED <<flow, flowHistory>>)
  /\ WF_dvars(Collect) /\ WF_dvars(Saved) /\ WF_dvars(EditorInsert)

DSpec == DInit /\ [][DNext]_dvars /\ DFairness

-----------------------------------------------------------------------------
(* Every variable of the flow holds a value of its type.                    *)
FlowTypeOK ==
  /\ TypeOK
  /\ screen \in Screen /\ visit \in 0..MaxVisits
  /\ sink \in DictationSink
  /\ seen \in Seq(Session)
  /\ saving \in [place : Place \cup {Nowhere}, text : Seq(Session)]
  /\ claim \in [Session -> DictationSink \cup {"none"}]
  /\ home \in [Session -> Place \cup {Nowhere}]
  /\ landed \in [Session -> [Place -> Nat]]
  /\ discarded \subseteq Session /\ crowded \subseteq Session /\ strayed \subseteq Session

(* Sessions to which the promises about delivery apply: started from a      *)
(* screen that claims a sink, with no other tap and no editor in the way.   *)
Undisturbed(s) ==
  claim[s] # "ASSISTANT_REVIEW" /\ s \notin crowded \cup strayed

(* The result is routed to the sink of the screen that started the          *)
(* dictation and to no other place, though the sink is read only when the   *)
(* result is delivered and two consumers watch it.                          *)
LandsWhereClaimed ==
  \A s \in Session, p \in Place :
    landed[s][p] > 0 /\ Undisturbed(s) => p = home[s]

(* The platform engine returns one utterance, whisper those it heard.       *)
Spoken(s) == IF loop[s] = "none" THEN 1 ELSE heard[s]

(* No utterance is delivered twice by the two consumers, the suspension in  *)
(* the repository and the clearing of the result: neither to one place nor  *)
(* to two.                                                                  *)
LandsOnce ==
  \A s \in Session, p, q \in Place :
    landed[s][p] > 0 /\ Undisturbed(s) =>
      landed[s][p] <= Spoken(s) /\ (q # p => landed[s][q] = 0)

(* A cancelled dictation is saved nowhere, unless the collector or the last *)
(* step of the publisher already had its text when the cancel came; and not *)
(* when sessions were crowded.                                              *)
CancelledNeverLands ==
  \A s \in Session, p \in Place :
    landed[s][p] > 0 /\ s \in discarded => s \in crowded \/ loop[s] = "none"

(* A stopped dictation is delivered: all that whisper returned for it lands *)
(* at the place it belongs to, and nothing is left in the result.           *)
StopSaves ==
  \A s \in Session :
    (InLoop(s) /\ ~recording) ~>
      \/ ~Undisturbed(s) \/ s \in discarded
      \/ /\ s \notin Undelivered
         /\ \A p \in Place : p = home[s] => landed[s][p] = transcribed[s]

-----------------------------------------------------------------------------
(* What the documentation says without the exceptions; TLC refutes these.   *)

(* "the result is routed to that sink": also when the user has moved on     *)
(* between stopping and the delivery.                                       *)
RoutedToClaimedSink ==
  \A s \in Session, p \in Place :
    landed[s][p] > 0 /\ claim[s] # "ASSISTANT_REVIEW" /\ s \notin crowded => p = home[s]

(* "ASSISTANT_REVIEW keeps the explicit save/append buttons": a dictation   *)
(* of the assistant screen is saved by nobody but the user.                 *)
ReviewIsNotSaved ==
  \A s \in Session, p \in Place : claim[s] = "ASSISTANT_REVIEW" => landed[s][p] = 0

(* "stop on Home creates a note": what was transcribed for a dictation of   *)
(* the home screen, and not cancelled, is in a note once nothing of it is   *)
(* on its way any more.                                                     *)
StopOnHomeCreatesNote ==
  \A s \in Session :
    claim[s] = "HOME_NOTE" /\ s \notin Undelivered \cup discarded \cup strayed =>
      landed[s][<<"note", 0>>] >= transcribed[s]
=============================================================================
