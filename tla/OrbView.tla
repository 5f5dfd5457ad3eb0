------------------------------ MODULE OrbView ------------------------------
(***************************************************************************)
(* OrbTextureView: the view's callbacks on the main thread, the messages   *)
(* they post to the GL thread, and the chain of frame callbacks by which   *)
(* the GL thread draws.                                                    *)
(*                                                                         *)
(* The EGL display, context and surface, the renderer and choreographer    *)
(* are set together by startRender and cleared together by stopRender:     *)
(* "drawing" is the texture they belong to.  TextureView hands out one     *)
(* texture at a time.  A change of size alters no control state.           *)
(***************************************************************************)
EXTENDS Integers, Sequences, FiniteSets

CONSTANTS MaxTextures,   \* bound on the textures the view is given
          MaxToggles,    \* bound on the changes of reduceMotion
          MaxFaults      \* bound on EGL calls that fail

ASSUME OrbAssumption == {MaxTextures, MaxToggles, MaxFaults} \subseteq Nat

VARIABLES
  textures,      \* how many textures the view has been given
  shown,         \* is the last of them still the view's?
  wanted,        \* reduceMotion, the view's field
  halted,        \* has halt been called?
  posted         \* the messages of the GL thread's handler, in order

VARIABLES
  drawing,       \* the texture the GL thread draws on, or 0
  still,         \* reduceMotion, the renderer's field
  looping,       \* looping
  frames,        \* the frame callbacks posted to the choreographer
  quit,          \* has the looper quit?
  released,      \* the textures that were released
  drawn,         \* the textures a frame was drawn on
  toggles, faults

VARIABLES
  stopped,       \* history: a message has stopped the loop since the last vsync
  mishaps        \* history: what came too early, too soon, too late or failed

main == <<textures, shown, wanted, halted, toggles>>
egl  == <<drawing, still>>
chain == <<looping, frames, stopped>>
vars == <<main, posted, egl, chain, quit, released, drawn, faults, mishaps>>

Textures == 1..MaxTextures
Messages == [op : {"start", "destroyed"}, texture : Textures]
              \cup [op : {"motion"}, value : BOOLEAN] \cup [op : {"halt"}]

Mishaps == {"rushed",   \* the loop was stopped and restarted between two vsyncs
            "early",    \* the loop was started without a surface
            "failed",   \* EGL refused
            "late"}     \* a texture was destroyed after the looper had quit

Init ==
  /\ textures = 0 /\ shown = FALSE
  /\ wanted = FALSE /\ halted = FALSE /\ toggles = 0
  /\ posted = <<>>
  /\ drawing = 0 /\ still = FALSE
  /\ looping = FALSE /\ frames = 0 /\ stopped = FALSE
  /\ quit = FALSE
  /\ released = {} /\ drawn = {}
  /\ faults = 0 /\ mishaps = {}

-----------------------------------------------------------------------------
(* The main thread.  A handler whose looper has quit drops what is posted.  *)

Post(m) == posted' = IF quit THEN posted ELSE Append(posted, m)
gl == <<egl, chain, quit, drawn, faults>>

SetReduceMotion ==
  /\ ~halted /\ toggles < MaxToggles
  /\ toggles' = toggles + 1
  /\ wanted' = ~wanted
  /\ Post([op |-> "motion", value |-> wanted'])
  /\ UNCHANGED <<textures, shown, halted, gl, released, mishaps>>

SurfaceTextureAvailable ==
  /\ ~shown /\ ~halted /\ textures < MaxTextures
  /\ textures' = textures + 1 /\ shown' = TRUE
  /\ Post([op |-> "start", texture |-> textures'])
  /\ UNCHANGED <<wanted, halted, toggles, gl, released, mishaps>>

\* Mutant: true is returned, and the view releases the texture itself.
DestroyedAtOnce ==
  /\ shown
  /\ shown' = FALSE
  /\ released' = released \cup {textures}
  /\ Post([op |-> "destroyed", texture |-> textures])
  /\ mishaps' = IF quit THEN mishaps \cup {"late"} ELSE mishaps
  /\ UNCHANGED <<textures, wanted, halted, toggles, gl>>

\* false is returned: the view leaves the release to the posted message.
SurfaceTextureDestroyed ==
  /\ shown
  /\ shown' = FALSE
  /\ Post([op |-> "destroyed", texture |-> textures])
  /\ mishaps' = IF quit THEN mishaps \cup {"late"} ELSE mishaps
  /\ UNCHANGED <<textures, wanted, halted, toggles, gl, released>>

Halt ==
  /\ ~halted
  /\ halted' = TRUE
  /\ Post([op |-> "halt"])
  /\ UNCHANGED <<textures, shown, wanted, toggles, gl, released, mishaps>>

-----------------------------------------------------------------------------
(* The GL thread: one message, or one frame callback, at a time.           *)

\* The message leaves the loop on, or stops it if it was running.
Stops(on) == stopped' = (stopped \/ (looping /\ ~on))
LoopOff == looping' = FALSE /\ Stops(FALSE)

\* Mutant: a callback is posted whether the loop is on or not.
PostAlways(on) ==
  /\ looping' = TRUE /\ Stops(on)
  /\ frames' = IF drawing' # 0 THEN frames + 1 ELSE frames
  /\ mishaps' = mishaps
       \cup (IF ~on /\ drawing' = 0 THEN {"early"} ELSE {})
       \cup (IF ~on /\ drawing' # 0 /\ stopped' THEN {"rushed"} ELSE {})

\* ensureLooping where the loop is on or off, with the surface there is after
\* the message.
EnsureLooping(on) ==
  /\ looping' = TRUE /\ Stops(on)
  /\ frames' = IF ~on /\ drawing' # 0 THEN frames + 1 ELSE frames
  /\ mishaps' = mishaps
       \cup (IF ~on /\ drawing' = 0 THEN {"early"} ELSE {})
       \cup (IF ~on /\ drawing' # 0 /\ stopped' THEN {"rushed"} ELSE {})

\* Mutant: the loop is left on.
StopKeepsLooping == drawing' = 0 /\ UNCHANGED <<still, chain>>

\* stopRender leaves a callback that was posted where it is.
StopRender == drawing' = 0 /\ LoopOff /\ UNCHANGED <<still, frames>>

DrawAndSwap == drawn' = drawn \cup ({drawing'} \ {0})

EglFails == faults < MaxFaults /\ faults' = faults + 1

Take(op) == posted # <<>> /\ Head(posted).op = op /\ posted' = Tail(posted)

\* What there was is stopped first.  Where eglInitialize fails looping stays as
\* it is, where a later call fails the loop is off.
StartRender ==
  /\ Take("start")
  /\ LET on == looping /\ drawing = 0 IN
     \/ halted /\ UNCHANGED <<egl, chain, drawn, faults, mishaps>>
     \/ /\ ~halted
        /\ drawing' = Head(posted).texture
        /\ still' = wanted
        /\ IF still'
             THEN LoopOff /\ DrawAndSwap /\ UNCHANGED <<frames, mishaps>>
             ELSE EnsureLooping(on) /\ UNCHANGED drawn
        /\ UNCHANGED faults
     \/ /\ ~halted /\ EglFails
        /\ drawing' = 0
        /\ looping' \in {on, FALSE} /\ Stops(looping')
        /\ mishaps' = mishaps \cup {"failed"}
        /\ UNCHANGED <<still, frames, drawn>>
  /\ UNCHANGED <<main, quit, released>>

Destroyed ==
  /\ Take("destroyed")
  /\ StopRender
  /\ released' = released \cup {Head(posted).texture}
  /\ UNCHANGED <<main, quit, drawn, faults, mishaps>>

Motion ==
  /\ Take("motion")
  /\ drawing' = drawing
  /\ still' = IF drawing # 0 THEN Head(posted).value ELSE still
  /\ IF Head(posted).value
       THEN LoopOff /\ DrawAndSwap /\ UNCHANGED <<frames, mishaps>>
       ELSE EnsureLooping(looping) /\ UNCHANGED drawn
  /\ UNCHANGED <<main, quit, released, faults>>

\* Mutant: quit() drops what is in the queue.
QuitAtOnce ==
  /\ posted # <<>> /\ Head(posted).op = "halt" /\ posted' = <<>>
  /\ StopRender
  /\ quit' = TRUE
  /\ UNCHANGED <<main, released, drawn, faults, mishaps>>

\* quitSafely: what is in the queue is still delivered.
HaltMessage ==
  /\ Take("halt")
  /\ StopRender
  /\ quit' = TRUE
  /\ UNCHANGED <<main, released, drawn, faults, mishaps>>

\* Mutant: a frame that cannot be swapped leaves the loop on.
DoFrameStaysOn ==
  /\ frames > 0 /\ ~quit
  /\ stopped' = FALSE
  /\ \/ /\ ~looping \/ drawing = 0
        /\ frames' = frames - 1
        /\ UNCHANGED <<looping, drawn, faults, mishaps>>
     \/ /\ looping /\ drawing # 0
        /\ drawn' = drawn \cup {drawing}
        /\ looping' = ~still
        /\ frames' = IF still THEN frames - 1 ELSE frames
        /\ UNCHANGED <<faults, mishaps>>
     \/ /\ looping /\ drawing # 0 /\ EglFails
        /\ frames' = frames - 1
        /\ mishaps' = mishaps \cup {"failed"}
        /\ UNCHANGED <<looping, drawn>>
  /\ UNCHANGED <<main, posted, egl, quit, released>>

\* The callback at the next vsync; eglSwapBuffers may fail.
DoFrame ==
  /\ frames > 0 /\ ~quit
  /\ stopped' = FALSE
  /\ \/ /\ ~looping \/ drawing = 0
        /\ frames' = frames - 1
        /\ UNCHANGED <<looping, drawn, faults, mishaps>>
     \/ /\ looping /\ drawing # 0
        /\ drawn' = drawn \cup {drawing}
        /\ looping' = ~still
        /\ frames' = IF still THEN frames - 1 ELSE frames
        /\ UNCHANGED <<faults, mishaps>>
     \/ /\ looping /\ drawing # 0 /\ EglFails
        /\ looping' = FALSE /\ frames' = frames - 1
        /\ mishaps' = mishaps \cup {"failed"}
        /\ UNCHANGED drawn
  /\ UNCHANGED <<main, posted, egl, quit, released>>

Deliver == StartRender \/ Destroyed \/ Motion \/ HaltMessage

Next == \/ SetReduceMotion \/ SurfaceTextureAvailable \/ SurfaceTextureDestroyed \/ Halt
        \/ Deliver \/ DoFrame

Spec == Init /\ [][Next]_vars

\* The GL thread runs and the display refreshes.
FairSpec == Spec /\ WF_vars(Deliver) /\ WF_vars(DoFrame)

-----------------------------------------------------------------------------
(* Properties.                                                             *)

\* The view's and the GL thread's fields are of their types, and nothing is
\* posted to the GL thread after it has quit but what was there.
TypeOK ==
  /\ textures \in 0..MaxTextures /\ shown \in BOOLEAN /\ wanted \in BOOLEAN
  /\ halted \in BOOLEAN /\ toggles \in 0..MaxToggles
  /\ posted \in Seq(Messages)
  /\ drawing \in 0..textures /\ still \in BOOLEAN /\ looping \in BOOLEAN
  /\ frames \in Nat /\ stopped \in BOOLEAN /\ quit \in BOOLEAN
  /\ released \subseteq Textures /\ drawn \subseteq Textures
  /\ faults \in 0..MaxFaults /\ mishaps \subseteq Mishaps

\* The GL thread has no surface on a released texture, and after halt has run
\* on none.
NeverOnReleased == drawing # 0 => drawing \notin released /\ ~quit

\* One chain of callbacks draws the orb, once a vsync, whatever order changes of
\* reduceMotion, surfaces and failures come in, unless a message stopped the loop
\* and another started it again between two vsyncs.
OneChain == "rushed" \notin mishaps => frames <= 1

\* A loop that is on has a callback to carry it: it can go on drawing, unless it
\* was switched on while there was no surface.
LoopIsCarried == "early" \notin mishaps /\ looping => frames > 0

\* The texture on screen is drawn on, unless it goes or EGL fails, and unless
\* the loop was switched on before there was one.
ShownIsDrawn ==
  (shown /\ ~halted) ~> (textures \in drawn \/ ~shown \/ halted \/ mishaps \cap {"early", "failed"} # {})

\* A texture the view has given up is released, by the promise of the false
\* that onSurfaceTextureDestroyed returns, unless the looper had quit.
TextureIsReleased ==
  \A t \in Textures :
    (textures >= t /\ ~(shown /\ textures = t)) ~> (t \in released \/ "late" \in mishaps)

\* The same without the exception, once everything has come to rest: "then
\* release it ourselves (returning false promises this)".
GivenUpIsReleased == quit /\ ~shown /\ posted = <<>> => released = 1..textures
=============================================================================
