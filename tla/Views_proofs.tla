---------------------------- MODULE Views_proofs ----------------------------
(* Proofs about the two parts of the screens that keep a state of their own: *)
(* OrbView for any number of textures, toggles and faults, and from LeastOf  *)
(* on MarkdownField, the body field of the note editor, for any text.        *)
EXTENDS OrbView, MarkdownField, FiniteSetTheorems, SequenceTheorems, WellFoundedInduction, TLAPS

(* The callback of a loop that is off was posted before a message stopped    *)
(* it, since the last vsync; and a loop that was not switched on too early   *)
(* has a surface and a callback.                                             *)
LeftOver == "rushed" \notin mishaps => frames = 0 \/ looping \/ stopped

ChainInv ==
  /\ frames \in Nat /\ looping \in BOOLEAN /\ still \in BOOLEAN /\ stopped \in BOOLEAN
  /\ OneChain /\ LeftOver
  /\ "early" \notin mishaps /\ looping => frames > 0 /\ drawing # 0

(* The messages of the GL thread name textures the view has been given.      *)
PostedInv ==
  /\ textures \in 0..MaxTextures /\ (shown => textures # 0) /\ wanted \in BOOLEAN
  /\ posted \in Seq(Messages)

(* A surface is created for a texture that is not released, nor about to be: *)
(* its start is posted before it is given up, and delivered before that.     *)
OrderInv ==
  /\ \A i \in 1..Len(posted) :
       /\ posted[i].op \in {"start", "destroyed"} => posted[i].texture \in 1..textures
       /\ posted[i].op = "start" => posted[i].texture \notin released
       /\ posted[i].op = "halt" => halted
       /\ \A j \in 1..Len(posted) :
            i < j /\ posted[i].op = "destroyed" /\ posted[j].op = "start" =>
              posted[i].texture < posted[j].texture

SurfaceInv ==
  /\ drawing \in 0..textures /\ drawing \notin released
  /\ released \subseteq 1..textures
  /\ quit => halted /\ drawing = 0
  /\ OrderInv

IInv == ChainInv /\ PostedInv /\ SurfaceInv

-----------------------------------------------------------------------------
LEMMA InitIInv == Init => IInv
<1> SUFFICES ASSUME Init PROVE IInv
  OBVIOUS
<1>1. ChainInv
  <2>1. frames \in Nat /\ OneChain /\ LeftOver
    BY DEF Init, OneChain, LeftOver
  <2>2. looping \in BOOLEAN /\ still \in BOOLEAN /\ stopped \in BOOLEAN /\ ~looping
    BY Zenon DEF Init
  <2> QED BY <2>1, <2>2 DEF ChainInv
<1>2. PostedInv
  <2>1. textures \in 0..MaxTextures /\ posted \in Seq(Messages)
    BY OrbAssumption DEF Init
  <2>2. wanted \in BOOLEAN /\ ~shown
    BY Zenon DEF Init
  <2> QED BY <2>1, <2>2 DEF PostedInv
<1>3. SurfaceInv
  BY OrbAssumption DEF Init, SurfaceInv, OrderInv
<1> QED BY <1>1, <1>2, <1>3 DEF IInv

LEMMA PostType ==
  ASSUME PostedInv, NEW m \in Messages, Post(m)
  PROVE  posted' \in Seq(Messages)
  BY DEF PostedInv, Post

LEMMA TakeType ==
  ASSUME PostedInv, NEW op, Take(op)
  PROVE  /\ posted' \in Seq(Messages)
         /\ Head(posted) \in Messages /\ Head(posted).op = op
  BY DEF PostedInv, Take

LEMMA MessageFields ==
  ASSUME NEW m \in Messages
  PROVE  /\ m.op \in {"start", "destroyed"} => m.texture \in Textures
         /\ m.op = "motion" => m.value \in BOOLEAN
  BY DEF Messages

LEMMA EnsureLoopingInv ==
  ASSUME ChainInv, still' \in BOOLEAN, NEW on \in BOOLEAN, on => looping, EnsureLooping(on),
         "early" \notin mishaps /\ on => frames > 0 /\ drawing' # 0
  PROVE  ChainInv'
<1>1. looping' \in BOOLEAN /\ looping' /\ stopped' \in BOOLEAN
  BY Zenon DEF EnsureLooping, Stops
<1>2. LeftOver'
  BY <1>1 DEF LeftOver
<1>3. frames \in Nat /\ frames' \in Nat /\ (frames' = frames \/ frames' = frames + 1)
  BY DEF EnsureLooping, ChainInv
<1>4. ASSUME "rushed" \notin mishaps', frames' # frames
      PROVE  frames = 0
  <2>1. ~on /\ drawing' # 0 /\ "rushed" \notin mishaps /\ ~stopped'
    BY <1>4 DEF EnsureLooping
  <2>2. ~stopped /\ ~looping
    BY <2>1 DEF EnsureLooping, Stops
  <2> QED BY <2>1, <2>2 DEF ChainInv, LeftOver
<1>5. mishaps \subseteq mishaps'
  BY DEF EnsureLooping
<1>6. OneChain'
  BY <1>3, <1>4, <1>5 DEF ChainInv, OneChain
<1>7. "early" \notin mishaps' => frames' > 0 /\ drawing' # 0
  BY DEF EnsureLooping, ChainInv
<1> QED BY <1>1, <1>2, <1>3, <1>6, <1>7 DEF ChainInv

\* The loop is off after the message, and the callbacks stay.
LEMMA LoopOffInv ==
  ASSUME ChainInv, still' \in BOOLEAN, looping' = FALSE, Stops(FALSE), frames' = frames,
         mishaps \subseteq mishaps'
  PROVE  ChainInv'
<1>1. stopped' \in BOOLEAN /\ (stopped' <=> stopped \/ looping)
  BY Zenon DEF Stops
<1>2. OneChain' /\ LeftOver'
  BY <1>1 DEF ChainInv, OneChain, LeftOver
<1> QED BY <1>1, <1>2 DEF ChainInv

LEMMA PostedStep == ASSUME IInv, [Next]_vars PROVE PostedInv'
<1> USE DEF IInv
<1> SUFFICES ASSUME PostedInv PROVE PostedInv'
  OBVIOUS
<1>1. CASE UNCHANGED vars
  BY <1>1 DEF vars, main, PostedInv
<1>2. CASE SetReduceMotion
  <2>1. [op |-> "motion", value |-> wanted'] \in Messages
    BY <1>2 DEF SetReduceMotion, Messages, PostedInv
  <2> QED BY <1>2, <2>1, PostType DEF SetReduceMotion, PostedInv
<1>3. CASE SurfaceTextureAvailable
  <2>1. textures' \in Textures
    BY <1>3, OrbAssumption DEF SurfaceTextureAvailable, PostedInv, Textures
  <2>2. [op |-> "start", texture |-> textures'] \in Messages
    BY <2>1 DEF Messages
  <2> QED BY <1>3, <2>1, <2>2, PostType DEF SurfaceTextureAvailable, PostedInv, Textures
<1>4. CASE SurfaceTextureDestroyed
  <2>1. [op |-> "destroyed", texture |-> textures] \in Messages
    BY <1>4, OrbAssumption DEF SurfaceTextureDestroyed, PostedInv, Messages, Textures
  <2> QED BY <1>4, <2>1, PostType DEF SurfaceTextureDestroyed, PostedInv
<1>5. CASE Halt
  <2>1. [op |-> "halt"] \in Messages
    BY DEF Messages
  <2> QED BY <1>5, <2>1, PostType DEF Halt, PostedInv
<1>6. CASE Deliver
  <2>1. \E op : Take(op)
    BY <1>6 DEF Deliver, StartRender, Destroyed, Motion, HaltMessage
  <2>2. UNCHANGED main
    BY <1>6 DEF Deliver, StartRender, Destroyed, Motion, HaltMessage
  <2> QED BY <2>1, <2>2, TakeType DEF main, PostedInv
<1>7. CASE DoFrame
  BY <1>7 DEF DoFrame, PostedInv, main
<1> QED
  BY <1>1, <1>2, <1>3, <1>4, <1>5, <1>6, <1>7 DEF Next

LEMMA ChainStep == ASSUME IInv, [Next]_vars PROVE ChainInv'
<1> USE DEF IInv
<1>1. CASE UNCHANGED <<egl, chain>> /\ mishaps \subseteq mishaps' /\ mishaps' \subseteq mishaps \cup {"late"}
  BY <1>1 DEF egl, chain, ChainInv, OneChain, LeftOver
<1>2. CASE StartRender
  <2>1. Head(posted).texture # 0
    BY <1>2, TakeType, MessageFields DEF StartRender, Textures
  <2> DEFINE on == looping /\ drawing = 0
  <2>2. on \in BOOLEAN /\ ("early" \notin mishaps => ~on)
    BY DEF ChainInv
  <2>3. CASE halted /\ UNCHANGED <<egl, chain, drawn, faults, mishaps>>
    BY <2>3 DEF egl, chain, ChainInv, OneChain, LeftOver
  <2>4. CASE /\ drawing' = Head(posted).texture
             /\ still' = wanted
             /\ IF still'
                  THEN LoopOff /\ DrawAndSwap /\ UNCHANGED <<frames, mishaps>>
                  ELSE EnsureLooping(on) /\ UNCHANGED drawn
    <3>1. still' \in BOOLEAN
      BY <2>4 DEF PostedInv
    <3>2. CASE still'
      BY <2>4, <3>1, <3>2, LoopOffInv DEF LoopOff
    <3>3. CASE ~still'
      BY <2>1, <2>2, <2>4, <3>1, <3>3, EnsureLoopingInv DEF ChainInv
    <3> QED BY <3>2, <3>3
  <2>5. CASE /\ drawing' = 0
             /\ looping' \in {on, FALSE} /\ Stops(looping')
             /\ mishaps' = mishaps \cup {"failed"}
             /\ UNCHANGED <<still, frames, drawn>>
    <3>1. still' \in BOOLEAN
      BY <2>5 DEF ChainInv
    <3>2. CASE looping' = FALSE
      BY <2>5, <3>1, <3>2, LoopOffInv
    <3>3. CASE on /\ looping' = TRUE
      <4>1. looping /\ "early" \in mishaps'
        BY <2>2, <2>5, <3>3
      <4>2. stopped' \in BOOLEAN
        BY <2>5, Zenon DEF Stops
      <4> QED BY <2>5, <3>1, <3>3, <4>1, <4>2 DEF ChainInv, OneChain, LeftOver
    <3> QED BY <2>2, <2>5, <3>2, <3>3
  <2> QED BY <1>2, <2>3, <2>4, <2>5 DEF StartRender
<1>3. CASE Destroyed \/ HaltMessage
  BY <1>3, LoopOffInv DEF Destroyed, HaltMessage, StopRender, LoopOff, ChainInv
<1>4. CASE Motion
  <2>1. still' \in BOOLEAN
    BY <1>4, TakeType, MessageFields DEF Motion, ChainInv
  <2>2. CASE Head(posted).value
    BY <1>4, <2>1, <2>2, LoopOffInv DEF Motion, LoopOff
  <2>3. CASE ~Head(posted).value
    BY <1>4, <2>1, <2>3, EnsureLoopingInv DEF Motion, ChainInv
  <2> QED BY <2>2, <2>3
<1>5. CASE DoFrame
  <2>1. frames' \in Nat /\ frames' <= frames
    BY <1>5 DEF DoFrame, ChainInv
  <2>2. OneChain'
    BY <1>5, <2>1 DEF DoFrame, ChainInv, OneChain
  <2>3. looping' \in BOOLEAN /\ still' \in BOOLEAN /\ stopped' \in BOOLEAN
    BY <1>5 DEF DoFrame, egl, ChainInv
  <2>5. LeftOver'
    <3>1. looping' \/ frames' = frames - 1
      BY <1>5 DEF DoFrame, ChainInv
    <3>2. "rushed" \notin mishaps' => frames <= 1 /\ frames > 0
      BY <1>5 DEF DoFrame, ChainInv, OneChain
    <3> QED BY <3>1, <3>2 DEF ChainInv, LeftOver
  <2>4. "early" \notin mishaps' /\ looping' => frames' > 0 /\ drawing' # 0
    BY <1>5 DEF DoFrame, egl, ChainInv
  <2> QED BY <2>1, <2>2, <2>3, <2>4, <2>5 DEF ChainInv
<1>6. CASE SetReduceMotion \/ SurfaceTextureAvailable \/ SurfaceTextureDestroyed \/ Halt \/ UNCHANGED vars
  BY <1>1, <1>6 DEF SetReduceMotion, SurfaceTextureAvailable, SurfaceTextureDestroyed, Halt, gl, vars
<1> QED
  BY <1>2, <1>3, <1>4, <1>5, <1>6 DEF Next, Deliver

(* A message that is posted comes last, or nowhere if the looper has quit.   *)
LEMMA PostAppends ==
  ASSUME PostedInv, NEW m \in Messages, Post(m)
  PROVE  /\ Len(posted) \in Nat /\ Len(posted') \in Nat
         /\ \A i \in 1..Len(posted') :
              \/ i \in 1..Len(posted) /\ posted'[i] = posted[i]
              \/ ~quit /\ i = Len(posted) + 1 /\ posted'[i] = m
  BY DEF PostedInv, Post

(* Taking a message moves the others up by one.                              *)
LEMMA TakeShifts ==
  ASSUME PostedInv, NEW op, Take(op)
  PROVE  /\ Len(posted) \in Nat \ {0} /\ Len(posted') = Len(posted) - 1
         /\ posted[1].op = op /\ Head(posted) = posted[1]
         /\ \A i \in 1..Len(posted') : i + 1 \in 1..Len(posted) /\ posted'[i] = posted[i + 1]
  BY DEF PostedInv, Take

LEMMA PostKeepsOrder ==
  ASSUME PostedInv, textures \in Nat, released \subseteq 1..textures, OrderInv,
         NEW m \in Messages, Post(m), UNCHANGED released, halted => halted',
         textures' \in Nat, textures <= textures', m.op = "halt" => halted',
         m.op \in {"start", "destroyed"} => m.texture \in 1..textures',
         m.op = "start" => textures < m.texture
  PROVE  OrderInv'
<1>1. Len(posted) \in Nat /\ Len(posted') \in Nat
  BY PostAppends
<1>2. ASSUME NEW i \in 1..Len(posted')
      PROVE  \/ i \in 1..Len(posted) /\ posted'[i] = posted[i]
             \/ i = Len(posted) + 1 /\ posted'[i] = m
  BY PostAppends
<1>3. ASSUME NEW i \in 1..Len(posted)
      PROVE  /\ posted[i].op \in {"start", "destroyed"} => posted[i].texture \in 1..textures
             /\ posted[i].op = "start" => posted[i].texture \notin released
             /\ posted[i].op = "halt" => halted
  BY DEF OrderInv
<1>4. ASSUME NEW i \in 1..Len(posted') PROVE
        /\ posted'[i].op \in {"start", "destroyed"} => posted'[i].texture \in 1..textures'
        /\ posted'[i].op = "start" => posted'[i].texture \notin released
        /\ posted'[i].op = "halt" => halted'
  <2>1. CASE i \in 1..Len(posted) /\ posted'[i] = posted[i]
    BY <1>3, <2>1
  <2>2. CASE posted'[i] = m
    BY <2>2
  <2> QED BY <1>2, <2>1, <2>2
<1>5. ASSUME NEW i \in 1..Len(posted'), NEW j \in 1..Len(posted'), i < j,
             posted'[i].op = "destroyed", posted'[j].op = "start"
      PROVE  posted'[i].texture < posted'[j].texture
  <2>1. i \in 1..Len(posted) /\ posted'[i] = posted[i]
    BY <1>1, <1>2, <1>5
  <2>2. CASE j \in 1..Len(posted) /\ posted'[j] = posted[j]
    BY <1>5, <2>1, <2>2 DEF OrderInv
  <2>3. CASE posted'[j] = m
    <3>1. posted[i].texture \in 1..textures /\ textures < m.texture /\ m.texture \in 1..textures'
      BY <1>3, <1>5, <2>1, <2>3
    <3> QED BY <2>1, <2>3, <3>1
  <2> QED BY <1>2, <2>2, <2>3
<1> QED BY <1>4, <1>5 DEF OrderInv

LEMMA TakeKeepsOrder ==
  ASSUME PostedInv, textures \in Nat, released \subseteq 1..textures, OrderInv, NEW op, Take(op),
         UNCHANGED <<textures, halted>>,
         \/ UNCHANGED released
         \/ op = "destroyed" /\ released' = released \cup {posted[1].texture}
  PROVE  OrderInv'
<1>1. /\ Len(posted) \in Nat \ {0} /\ Len(posted') = Len(posted) - 1 /\ posted[1].op = op
      /\ \A i \in 1..Len(posted') : i + 1 \in 1..Len(posted) /\ posted'[i] = posted[i + 1]
  BY TakeShifts
<1>2. ASSUME NEW i \in 1..Len(posted') PROVE
        /\ posted'[i].op \in {"start", "destroyed"} => posted'[i].texture \in 1..textures'
        /\ posted'[i].op = "halt" => halted'
  BY <1>1, <1>2 DEF OrderInv
<1>3. ASSUME NEW i \in 1..Len(posted'), posted'[i].op = "start"
      PROVE  posted'[i].texture \notin released'
  <2>1. i + 1 \in 1..Len(posted) /\ posted'[i] = posted[i + 1] /\ 1 \in 1..Len(posted) /\ 1 < i + 1
    BY <1>1
  <2>2. posted[i + 1].texture \notin released
    BY <1>3, <2>1 DEF OrderInv
  <2>3. op = "destroyed" => posted[1].texture < posted[i + 1].texture
    BY <1>1, <1>3, <2>1 DEF OrderInv
  <2>4. posted[i + 1].texture \in 1..textures
    BY <1>3, <2>1 DEF OrderInv
  <2>5. op = "destroyed" => posted[1].texture # posted[i + 1].texture
    <3>1. op = "destroyed" => posted[1].texture \in 1..textures
      BY <1>1, <2>1 DEF OrderInv
    <3> QED BY <2>3, <2>4, <3>1
  <2> QED BY <2>1, <2>2, <2>5
<1>4. ASSUME NEW i \in 1..Len(posted'), NEW j \in 1..Len(posted'), i < j,
             posted'[i].op = "destroyed", posted'[j].op = "start"
      PROVE  posted'[i].texture < posted'[j].texture
  <2>1. /\ i + 1 \in 1..Len(posted) /\ posted'[i] = posted[i + 1]
        /\ j + 1 \in 1..Len(posted) /\ posted'[j] = posted[j + 1] /\ i + 1 < j + 1
    BY <1>1, <1>4
  <2> QED BY <1>4, <2>1 DEF OrderInv
<1> QED BY <1>2, <1>3, <1>4 DEF OrderInv

LEMMA SurfaceStep == ASSUME IInv, [Next]_vars PROVE SurfaceInv'
<1> USE DEF IInv
<1>0. textures \in Nat
  BY OrbAssumption DEF PostedInv
<1>1. CASE UNCHANGED vars
  BY <1>1 DEF vars, main, egl, SurfaceInv, OrderInv
<1>2. CASE SetReduceMotion
  <2>1. [op |-> "motion", value |-> wanted'] \in Messages
    BY <1>2 DEF SetReduceMotion, Messages, PostedInv
  <2>2. UNCHANGED <<textures, halted, drawing, quit, released>>
    BY <1>2 DEF SetReduceMotion, gl, egl
  <2>3. OrderInv'
    BY <1>0, <1>2, <2>1, <2>2, PostKeepsOrder DEF SetReduceMotion, SurfaceInv
  <2> QED BY <2>2, <2>3 DEF SurfaceInv
<1>3. CASE SurfaceTextureAvailable
  <2>1. textures' = textures + 1 /\ textures' \in Textures
    BY <1>3, OrbAssumption DEF SurfaceTextureAvailable, PostedInv, Textures
  <2>2. [op |-> "start", texture |-> textures'] \in Messages
    BY <2>1 DEF Messages
  <2>3. UNCHANGED <<halted, drawing, quit, released>>
    BY <1>3 DEF SurfaceTextureAvailable, gl, egl
  <2>4. OrderInv'
    BY <1>0, <1>3, <2>1, <2>2, <2>3, PostKeepsOrder DEF SurfaceTextureAvailable, SurfaceInv
  <2> QED BY <1>0, <2>1, <2>3, <2>4 DEF SurfaceInv
<1>4. CASE SurfaceTextureDestroyed
  <2>1. textures \in Textures
    BY <1>4, OrbAssumption DEF SurfaceTextureDestroyed, PostedInv, Textures
  <2>2. [op |-> "destroyed", texture |-> textures] \in Messages
    BY <2>1 DEF Messages
  <2>3. UNCHANGED <<textures, halted, drawing, quit, released>>
    BY <1>4 DEF SurfaceTextureDestroyed, gl, egl
  <2>4. textures \in 1..textures
    BY <1>0, <2>1 DEF Textures
  <2>5. OrderInv'
    BY <1>0, <1>4, <2>2, <2>3, <2>4, PostKeepsOrder DEF SurfaceTextureDestroyed, SurfaceInv
  <2> QED BY <2>3, <2>5 DEF SurfaceInv
<1>5. CASE Halt
  <2>1. [op |-> "halt"] \in Messages
    BY DEF Messages
  <2>2. halted' /\ UNCHANGED <<textures, drawing, quit, released>> /\ Post([op |-> "halt"])
    BY <1>5 DEF Halt, gl, egl
  <2>3. OrderInv'
    BY <1>0, <2>1, <2>2, PostKeepsOrder DEF SurfaceInv
  <2> QED BY <2>2, <2>3 DEF SurfaceInv
<1>6. CASE StartRender
  <2>1. Take("start") /\ UNCHANGED <<textures, halted, quit, released>>
    BY <1>6 DEF StartRender, main
  <2>2. OrderInv'
    BY <1>0, <2>1, TakeKeepsOrder DEF SurfaceInv
  <2>3. 1 \in 1..Len(posted) /\ posted[1].op = "start" /\ Head(posted) = posted[1]
    BY <2>1, TakeShifts
  <2>4. posted[1].texture \in 1..textures /\ posted[1].texture \notin released
    BY <2>3 DEF SurfaceInv, OrderInv
  <2>5. \/ drawing' = drawing
        \/ drawing' = 0
        \/ ~halted /\ drawing' = posted[1].texture
    BY <1>6, <2>3 DEF StartRender, egl
  <2> QED BY <1>0, <2>1, <2>2, <2>4, <2>5 DEF SurfaceInv
<1>7. CASE Destroyed
  <2>1. Take("destroyed") /\ drawing' = 0 /\ UNCHANGED <<textures, halted, quit>>
    BY <1>7 DEF Destroyed, StopRender, main
  <2>2. 1 \in 1..Len(posted) /\ posted[1].op = "destroyed" /\ Head(posted) = posted[1]
    BY <2>1, TakeShifts
  <2>3. released' = released \cup {posted[1].texture}
    BY <1>7, <2>2 DEF Destroyed
  <2>4. OrderInv'
    BY <1>0, <2>1, <2>3, TakeKeepsOrder DEF SurfaceInv
  <2>5. posted[1].texture \in 1..textures
    BY <2>2 DEF SurfaceInv, OrderInv
  <2>6. released' \subseteq 1..textures /\ 0 \notin released'
    <3>1. released \subseteq 1..textures
      BY DEF SurfaceInv
    <3>2. 0 \notin 1..textures
      BY <1>0
    <3> QED BY <2>3, <2>5, <3>1, <3>2, Zenon
  <2> QED BY <1>0, <2>1, <2>4, <2>6 DEF SurfaceInv
<1>8. CASE Motion
  <2>1. Take("motion") /\ UNCHANGED <<textures, halted, quit, released, drawing>>
    BY <1>8 DEF Motion, main
  <2>2. OrderInv'
    BY <1>0, <2>1, TakeKeepsOrder DEF SurfaceInv
  <2> QED BY <2>1, <2>2 DEF SurfaceInv
<1>9. CASE HaltMessage
  <2>1. Take("halt") /\ drawing' = 0 /\ UNCHANGED <<textures, halted, released>>
    BY <1>9 DEF HaltMessage, StopRender, main
  <2>2. 1 \in 1..Len(posted) /\ posted[1].op = "halt"
    BY <2>1, TakeShifts
  <2>3. halted /\ OrderInv'
    BY <1>0, <2>1, <2>2, TakeKeepsOrder DEF SurfaceInv, OrderInv
  <2> QED BY <1>0, <2>1, <2>3 DEF SurfaceInv
<1>10. CASE DoFrame
  BY <1>10 DEF DoFrame, main, egl, SurfaceInv, OrderInv
<1> QED
  BY <1>1, <1>2, <1>3, <1>4, <1>5, <1>6, <1>7, <1>8, <1>9, <1>10 DEF Next, Deliver

LEMMA Inductive == Spec => []IInv
<1>1. IInv /\ [Next]_vars => IInv'
  BY PostedStep, ChainStep, SurfaceStep DEF IInv
<1> QED BY InitIInv, <1>1, PTL DEF Spec

-----------------------------------------------------------------------------
(* However surfaces come and go, the motion setting is toggled and EGL       *)
(* fails, one chain of callbacks draws the orb, unless a message stops the   *)
(* loop and another starts it between two vsyncs: the callback of a loop     *)
(* that is off is gone at the next vsync.                                    *)
THEOREM OneChainHolds == Spec => []OneChain
<1>1. IInv => OneChain
  BY DEF IInv, ChainInv
<1> QED BY Inductive, <1>1, PTL

(* A loop that is on is carried by a callback, unless it was switched on      *)
(* while there was no surface.                                               *)
THEOREM LoopIsCarriedHolds == Spec => []LoopIsCarried
<1>1. IInv => LoopIsCarried
  BY DEF IInv, ChainInv, LoopIsCarried
<1> QED BY Inductive, <1>1, PTL

(* The GL thread never has a surface on a texture that was released, however *)
(* destructions and restarts overtake each other on their way to it, and     *)
(* none after it has quit.                                                   *)
THEOREM NeverOnReleasedHolds == Spec => []NeverOnReleased
<1>1. IInv => NeverOnReleased
  BY DEF IInv, SurfaceInv, NeverOnReleased
<1> QED BY Inductive, <1>1, PTL

-----------------------------------------------------------------------------
(* What the other invariants say nothing of: the flags of the main thread,   *)
(* the counters of the bounds, and the two histories.                        *)
RestTypes ==
  /\ shown \in BOOLEAN /\ halted \in BOOLEAN /\ quit \in BOOLEAN
  /\ toggles \in 0..MaxToggles /\ faults \in 0..MaxFaults
  /\ drawn \subseteq Textures /\ mishaps \subseteq Mishaps

LEMMA RestStep == ASSUME IInv, IInv', RestTypes, [Next]_vars PROVE RestTypes'
<1> USE OrbAssumption DEF RestTypes
<1>0. /\ drawing \in Textures \cup {0} /\ drawing' \in Textures \cup {0}
      /\ {"rushed", "early", "failed", "late"} \subseteq Mishaps
  BY DEF IInv, PostedInv, SurfaceInv, Textures, Mishaps
<1>1. CASE UNCHANGED vars
  BY <1>1 DEF vars, main
<1>2. CASE SetReduceMotion
  BY <1>2 DEF SetReduceMotion, gl
<1>3. CASE SurfaceTextureAvailable
  BY <1>3 DEF SurfaceTextureAvailable, gl
<1>4. CASE SurfaceTextureDestroyed
  BY <1>0, <1>4 DEF SurfaceTextureDestroyed, gl
<1>5. CASE Halt
  BY <1>5 DEF Halt, gl
<1>6. CASE StartRender
  <2>1. UNCHANGED <<shown, halted, toggles, quit>>
    BY <1>6 DEF StartRender, main
  <2>2. drawn' \subseteq drawn \cup Textures
    BY <1>0, <1>6 DEF StartRender, DrawAndSwap
  <2>3. mishaps' \subseteq mishaps \cup {"rushed", "early", "failed"}
    <3>1. CASE \E on : EnsureLooping(on)
      BY <3>1 DEF EnsureLooping
    <3>2. CASE UNCHANGED mishaps \/ mishaps' = mishaps \cup {"failed"}
      BY <3>2
    <3> QED BY <1>6, <3>1, <3>2 DEF StartRender
  <2>4. faults' \in 0..MaxFaults
    <3>1. faults' = faults \/ EglFails
      BY <1>6 DEF StartRender
    <3> QED BY <3>1 DEF EglFails
  <2> QED BY <1>0, <2>1, <2>2, <2>3, <2>4
<1>7. CASE Destroyed \/ HaltMessage
  BY <1>7 DEF Destroyed, HaltMessage, main
<1>8. CASE Motion
  <2>1. UNCHANGED <<shown, halted, toggles, quit, faults>>
    BY <1>8 DEF Motion, main
  <2>2. drawn' \subseteq drawn \cup Textures
    BY <1>0, <1>8 DEF Motion, DrawAndSwap
  <2>3. mishaps' \subseteq mishaps \cup {"rushed", "early"}
    BY <1>8 DEF Motion, EnsureLooping
  <2> QED BY <1>0, <2>1, <2>2, <2>3
<1>9. CASE DoFrame
  <2>1. UNCHANGED <<shown, halted, toggles, quit>>
    BY <1>9 DEF DoFrame, main
  <2>2. drawn' \subseteq drawn \cup ({drawing} \ {0}) /\ mishaps' \subseteq mishaps \cup {"failed"}
    BY <1>9 DEF DoFrame
  <2>3. faults' \in 0..MaxFaults
    BY <1>9 DEF DoFrame, EglFails
  <2> QED BY <1>0, <2>1, <2>2, <2>3
<1> QED
  BY <1>1, <1>2, <1>3, <1>4, <1>5, <1>6, <1>7, <1>8, <1>9 DEF Next, Deliver

(* Every field of the view and of the GL thread keeps its type, and the      *)
(* handler's queue holds only messages about textures the view was given.    *)
THEOREM TypeCorrect == Spec => []TypeOK
<1>1. Init => RestTypes
  <2> SUFFICES ASSUME Init PROVE RestTypes
    OBVIOUS
  <2>1. shown \in BOOLEAN /\ halted \in BOOLEAN /\ quit \in BOOLEAN
    BY Zenon DEF Init
  <2>2. /\ toggles \in 0..MaxToggles /\ faults \in 0..MaxFaults
        /\ drawn \subseteq Textures /\ mishaps \subseteq Mishaps
    BY OrbAssumption DEF Init
  <2> QED BY <2>1, <2>2 DEF RestTypes
<1>2. IInv /\ IInv' /\ RestTypes /\ [Next]_vars => RestTypes'
  BY RestStep
<1>3. IInv /\ RestTypes => TypeOK
  <2> SUFFICES ASSUME IInv, RestTypes PROVE TypeOK
    OBVIOUS
  <2>1. textures \in 0..MaxTextures /\ released \subseteq 1..textures
    BY DEF IInv, PostedInv, SurfaceInv
  <2>2. released \subseteq Textures
    BY <2>1, OrbAssumption DEF Textures
  <2> QED BY <2>1, <2>2 DEF IInv, RestTypes, ChainInv, PostedInv, SurfaceInv, TypeOK
<1> QED BY Inductive, <1>1, <1>2, <1>3, PTL DEF Spec

-----------------------------------------------------------------------------
(* Offsets: the least and the greatest of a set, and induction over them.    *)

LEMMA LeastOf ==
  ASSUME NEW S \in SUBSET Nat, S # {}
  PROVE  Least(S) \in S /\ \A x \in S : Least(S) <= x
<1>1. \A y \in S : y \in Nat
  OBVIOUS
<1>2. PICK e \in S : TRUE
  OBVIOUS
<1>3. e \in Nat
  BY <1>1
<1> DEFINE T == {0..x : x \in {y \in S : y <= e}}
<1>4. IsWellFoundedOn(StrictSubsetOrdering(0..e), SUBSET (0..e))
  <2>1. FiniteSubsetsOf(0..e) = SUBSET (0..e)
    <3>1. IsFiniteSet(0..e)
      BY <1>3, FS_Interval
    <3> QED BY <3>1, FS_FiniteSubsetsOfFinite
  <2> QED BY <2>1, FS_StrictSubsetOrderingWellFounded
<1>5. T # {}
  <2>1. e \in {y \in S : y <= e}
    BY <1>3
  <2> QED BY <2>1
<1>6. T \subseteq SUBSET (0..e)
  <2>1. \A y \in S : y <= e => 0..y \subseteq 0..e
    BY <1>1, <1>3
  <2> QED BY <2>1
<1>7. \A y \in S : y <= e => 0..y \in T
  OBVIOUS
<1>8. \A u \in T : \E x \in S : x <= e /\ u = 0..x
  OBVIOUS
<1> HIDE DEF T
<1>9. PICK t \in T : \A u \in T : ~(<<u, t>> \in StrictSubsetOrdering(0..e))
  BY <1>4, <1>5, <1>6, WFMin
<1>10. PICK x \in S : x <= e /\ t = 0..x
  BY <1>8
<1>11. x \in Nat
  BY <1>1
<1>12. ASSUME NEW y \in S, y < x PROVE FALSE
  <2>1. y \in Nat
    BY <1>1
  <2>2. y <= e
    BY <1>3, <1>10, <1>11, <1>12, <2>1
  <2>3. 0..y \in T
    BY <1>7, <2>2
  <2>4. 0..y \subseteq 0..x /\ 0..x \subseteq 0..e
    BY <1>3, <1>10, <1>11, <1>12, <2>1
  <2>5. x \in 0..x /\ x \notin 0..y
    BY <1>11, <1>12, <2>1
  <2>6. 0..y \subseteq t /\ 0..y # t /\ t \subseteq 0..e
    BY <1>10, <2>4, <2>5
  <2>7. <<0..y, t>> \in StrictSubsetOrdering(0..e)
    BY <2>6 DEF StrictSubsetOrdering
  <2> QED BY <1>9, <2>3, <2>7
<1>13. \A y \in S : x <= y
  <2> SUFFICES ASSUME NEW y \in S PROVE x <= y
    OBVIOUS
  <2>1. y \in Nat
    BY <1>1
  <2> QED BY <1>11, <1>12, <2>1
<1> QED BY <1>13 DEF Least

LEMMA GreatestOf ==
  ASSUME NEW n \in Nat, NEW S \in SUBSET (0..n), S # {}
  PROVE  Greatest(S) \in S /\ \A x \in S : Greatest(S) >= x
<1> DEFINE T == {n - x : x \in S}
<1>1. T \in SUBSET Nat /\ T # {}
  <2>1. \A x \in S : x \in 0..n
    OBVIOUS
  <2>2. \A x \in S : n - x \in Nat
    BY <2>1
  <2> QED BY <2>2
<1>2. PICK y \in T : \A z \in T : y <= z
  <2> HIDE DEF T
  <2> QED BY <1>1, LeastOf
<1>3. PICK x \in S : y = n - x
  OBVIOUS
<1>4. \A z \in S : x >= z
  BY <1>2, <1>3
<1> QED BY <1>4 DEF Greatest

(* What is the greatest, given that something is.                            *)
LEMMA GreatestIs ==
  ASSUME NEW S \in SUBSET Int, NEW x \in S, \A y \in S : y <= x
  PROVE  Greatest(S) = x
<1>1. \A y \in S : x >= y
  OBVIOUS
<1>2. Greatest(S) \in S /\ Greatest(S) >= x
  BY <1>1 DEF Greatest
<1>3. Greatest(S) \in Int /\ x \in Int /\ Greatest(S) <= x
  BY <1>2
<1> QED BY <1>2, <1>3

LEMMA LeastIs ==
  ASSUME NEW S \in SUBSET Int, NEW x \in S, \A y \in S : x <= y
  PROVE  Least(S) = x
<1>1. Least(S) \in S /\ Least(S) <= x
  BY DEF Least
<1>2. Least(S) \in Int /\ x \in Int /\ x <= Least(S)
  BY <1>1
<1> QED BY <1>1, <1>2

LEMMA Backwards ==
  ASSUME NEW n \in Nat, NEW S,
         \A i \in 0..n : (\A j \in (i + 1)..n : j \in S) => i \in S
  PROVE  \A i \in 0..n : i \in S
<1> SUFFICES ASSUME (0..n) \ S # {} PROVE FALSE
  OBVIOUS
<1>1. PICK g \in (0..n) \ S : \A y \in (0..n) \ S : g >= y
  BY GreatestOf
<1>2. \A j \in (g + 1)..n : j \in S
  BY <1>1
<1> QED BY <1>2

LEMMA Forwards ==
  ASSUME NEW n \in Nat, NEW S, 0 \in S, \A i \in 0..(n - 1) : i \in S => i + 1 \in S
  PROVE  \A i \in 0..n : i \in S
<1> SUFFICES ASSUME (0..n) \ S # {} PROVE FALSE
  OBVIOUS
<1>1. PICK g \in (0..n) \ S : \A y \in (0..n) \ S : g <= y
  <2>1. (0..n) \ S \in SUBSET Nat
    OBVIOUS
  <2> QED BY <2>1, LeastOf
<1>2. g # 0 /\ g - 1 \in 0..(n - 1)
  BY <1>1
<1>3. g - 1 \in S
  BY <1>1, <1>2
<1> QED BY <1>2, <1>3

(* Pieces of a text.                                                         *)

LEMMA SubFacts ==
  ASSUME NEW C, NEW t \in Seq(C), NEW i \in 0..Len(t), NEW j \in i..Len(t)
  PROVE  /\ Sub(t, i, j) \in Seq(C)
         /\ Len(Sub(t, i, j)) = j - i
         /\ \A k \in 1..(j - i) : Sub(t, i, j)[k] = t[i + k]
<1>1. Len(t) \in Nat /\ \A k \in 1..Len(t) : t[k] \in C
  BY LenProperties
<1>2. \A k \in (i + 1)..j : t[k] \in C
  BY <1>1
<1>3. i + 1 \in Int /\ j \in Int
  BY <1>1
<1>4. /\ SubSeq(t, i + 1, j) \in Seq(C)
      /\ Len(SubSeq(t, i + 1, j)) = IF i + 1 <= j THEN j - (i + 1) + 1 ELSE 0
      /\ \A k \in 1..(j - (i + 1) + 1) : SubSeq(t, i + 1, j)[k] = t[(i + 1) + k - 1]
  BY <1>2, <1>3, SubSeqProperties
<1>5. \A k \in 1..(j - i) : SubSeq(t, i + 1, j)[k] = t[i + k]
  <2> SUFFICES ASSUME NEW k \in 1..(j - i) PROVE SubSeq(t, i + 1, j)[k] = t[i + k]
    OBVIOUS
  <2>1. k \in 1..(j - (i + 1) + 1) /\ (i + 1) + k - 1 = i + k
    BY <1>1
  <2> QED BY <1>4, <2>1
<1> QED BY <1>1, <1>4, <1>5 DEF Sub

LEMMA Adjacent ==
  ASSUME NEW C, NEW t \in Seq(C), NEW i \in 0..Len(t), NEW j \in i..Len(t),
         NEW k \in j..Len(t)
  PROVE  Sub(t, i, j) \o Sub(t, j, k) = Sub(t, i, k)
<1>1. Len(t) \in Nat
  BY LenProperties
<1>2. i + 1 \in 1..(Len(t) + 1) /\ j \in ((i + 1) - 1)..Len(t) /\ k \in j..Len(t)
  BY <1>1
<1> QED BY <1>2, ConcatAdjacentSubSeq, Zenon DEF Sub

LEMMA WholeIs ==
  ASSUME NEW C, NEW t \in Seq(C)
  PROVE  Sub(t, 0, Len(t)) = t
<1>1. 0 + 1 = 1
  OBVIOUS
<1> QED BY <1>1, SubSeqFull DEF Sub

(* Three pieces in a row.                                                    *)
LEMMA ThreeFacts ==
  ASSUME NEW C, NEW u \in Seq(C), NEW v \in Seq(C), NEW w \in Seq(C)
  PROVE  /\ u \o v \o w \in Seq(C)
         /\ Len(u \o v \o w) = Len(u) + Len(v) + Len(w)
         /\ \A k \in 1..Len(u) : (u \o v \o w)[k] = u[k]
         /\ \A k \in 1..Len(v) : (u \o v \o w)[Len(u) + k] = v[k]
         /\ \A k \in 1..Len(w) : (u \o v \o w)[Len(u) + Len(v) + k] = w[k]
<1>1. Len(u) \in Nat /\ Len(v) \in Nat /\ Len(w) \in Nat
  BY LenProperties
<1>2. /\ u \o v \in Seq(C) /\ Len(u \o v) = Len(u) + Len(v)
      /\ \A i \in 1..(Len(u) + Len(v)) :
           (u \o v)[i] = IF i <= Len(u) THEN u[i] ELSE v[i - Len(u)]
  BY ConcatProperties
<1>3. /\ u \o v \o w \in Seq(C) /\ Len(u \o v \o w) = Len(u \o v) + Len(w)
      /\ \A i \in 1..(Len(u \o v) + Len(w)) :
           (u \o v \o w)[i] = IF i <= Len(u \o v) THEN (u \o v)[i] ELSE w[i - Len(u \o v)]
  BY <1>2, ConcatProperties
<1> HIDE DEF Sub
<1>4. \A k \in 1..Len(u) : (u \o v \o w)[k] = u[k]
  BY <1>1, <1>2, <1>3
<1>5. \A k \in 1..Len(v) : (u \o v \o w)[Len(u) + k] = v[k]
  <2> SUFFICES ASSUME NEW k \in 1..Len(v) PROVE (u \o v \o w)[Len(u) + k] = v[k]
    OBVIOUS
  <2>1. Len(u) + k \in 1..(Len(u) + Len(v)) /\ ~(Len(u) + k <= Len(u))
        /\ (Len(u) + k) - Len(u) = k
    BY <1>1
  <2>2. (u \o v)[Len(u) + k] = v[k]
    BY <1>2, <2>1
  <2> QED BY <1>1, <1>2, <1>3, <2>1, <2>2
<1>6. \A k \in 1..Len(w) : (u \o v \o w)[Len(u) + Len(v) + k] = w[k]
  <2> SUFFICES ASSUME NEW k \in 1..Len(w)
               PROVE  (u \o v \o w)[Len(u) + Len(v) + k] = w[k]
    OBVIOUS
  <2> DEFINE n == Len(u) + Len(v) + k
  <2>1. n \in 1..(Len(u \o v) + Len(w)) /\ ~(n <= Len(u \o v)) /\ n - Len(u \o v) = k
    BY <1>1, <1>2
  <2>2. (u \o v \o w)[n] = w[n - Len(u \o v)]
    BY <1>3, <2>1
  <2> QED BY <2>1, <2>2
<1> QED BY <1>1, <1>2, <1>3, <1>4, <1>5, <1>6

(* A piece of a text replaced by another.                                    *)
IsSplice(C, u, t, i, new, j) ==
  /\ u \in Seq(C) /\ Len(u) = Len(t) - (j - i) + Len(new)
  /\ \A k \in 1..i : u[k] = t[k]
  /\ \A k \in 1..Len(new) : u[i + k] = new[k]
  /\ \A k \in 1..(Len(t) - j) : u[i + Len(new) + k] = t[j + k]

LEMMA SplicedIs ==
  ASSUME NEW C, NEW t \in Seq(C), NEW i \in 0..Len(t), NEW j \in i..Len(t),
         NEW new \in Seq(C)
  PROVE  IsSplice(C, Spliced(t, i, new, j), t, i, new, j)
<1>1. Len(t) \in Nat /\ Len(new) \in Nat
  BY LenProperties
<1>2. /\ Sub(t, 0, i) \in Seq(C) /\ Len(Sub(t, 0, i)) = i - 0
      /\ \A k \in 1..(i - 0) : Sub(t, 0, i)[k] = t[0 + k]
  <2>1. 0 \in 0..Len(t) /\ i \in 0..Len(t)
    BY <1>1
  <2> QED BY <2>1, SubFacts
<1>3. /\ Sub(t, j, Len(t)) \in Seq(C) /\ Len(Sub(t, j, Len(t))) = Len(t) - j
      /\ \A k \in 1..(Len(t) - j) : Sub(t, j, Len(t))[k] = t[j + k]
  <2>1. j \in 0..Len(t) /\ Len(t) \in j..Len(t)
    BY <1>1
  <2> QED BY <2>1, SubFacts
<1>4. i - 0 = i /\ \A k \in 1..i : 0 + k = k
  OBVIOUS
<1>5. PICK a \in Seq(C) : a = Sub(t, 0, i)
  BY <1>2
<1>6. PICK b \in Seq(C) : b = Sub(t, j, Len(t))
  BY <1>3
<1>7. PICK u : u = a \o new \o b
  OBVIOUS
<1>8. /\ u \in Seq(C) /\ Len(u) = Len(a) + Len(new) + Len(b)
      /\ \A k \in 1..Len(a) : u[k] = a[k]
      /\ \A k \in 1..Len(new) : u[Len(a) + k] = new[k]
      /\ \A k \in 1..Len(b) : u[Len(a) + Len(new) + k] = b[k]
  BY <1>7, ThreeFacts
<1>9. Len(a) = i /\ Len(b) = Len(t) - j
  BY <1>2, <1>3, <1>4, <1>5, <1>6
<1>10. Len(u) = Len(t) - (j - i) + Len(new)
  <2>1. Len(u) = i + Len(new) + (Len(t) - j)
    BY <1>8, <1>9
  <2> QED BY <1>1, <2>1
<1>11. /\ \A k \in 1..i : u[k] = t[k]
       /\ \A k \in 1..Len(new) : u[i + k] = new[k]
       /\ \A k \in 1..(Len(t) - j) : u[i + Len(new) + k] = t[j + k]
  <2>1. \A k \in 1..i : a[k] = t[k]
    BY <1>2, <1>4, <1>5
  <2>2. \A k \in 1..(Len(t) - j) : b[k] = t[j + k]
    BY <1>3, <1>6
  <2> QED BY <1>8, <1>9, <2>1, <2>2
<1>12. u = Spliced(t, i, new, j)
  BY <1>5, <1>6, <1>7 DEF Spliced
<1>13. IsSplice(C, u, t, i, new, j)
  BY <1>8, <1>10, <1>11 DEF IsSplice
<1> QED BY <1>12, <1>13

LEMMA SplicedFacts ==
  ASSUME NEW C, NEW t \in Seq(C), NEW i \in 0..Len(t), NEW j \in i..Len(t),
         NEW new \in Seq(C)
  PROVE  /\ Spliced(t, i, new, j) \in Seq(C)
         /\ Len(Spliced(t, i, new, j)) = Len(t) - (j - i) + Len(new)
         /\ \A k \in 1..i : Spliced(t, i, new, j)[k] = t[k]
         /\ \A k \in 1..Len(new) : Spliced(t, i, new, j)[i + k] = new[k]
         /\ \A k \in 1..(Len(t) - j) : Spliced(t, i, new, j)[i + Len(new) + k] = t[j + k]
<1>1. IsSplice(C, Spliced(t, i, new, j), t, i, new, j)
  BY SplicedIs
<1> QED BY <1>1 DEF IsSplice

(* The line of an offset.                                                    *)

LineOf(t, c, s, e) ==
  /\ s \in 0..c /\ e \in c..Len(t)
  /\ \A k \in (s + 1)..e : t[k] # NL
  /\ s = 0 \/ t[s] = NL
  /\ e = Len(t) \/ t[e + 1] = NL

LEMMA LineEndFacts ==
  ASSUME NEW C, NEW t \in Seq(C), NEW c \in 0..Len(t)
  PROVE  /\ LineEnd(t, c) \in c..Len(t)
         /\ \A k \in (c + 1)..LineEnd(t, c) : t[k] # NL
         /\ LineEnd(t, c) = Len(t) \/ t[LineEnd(t, c) + 1] = NL
<1>1. Len(t) \in Nat
  BY LenProperties
<1> DEFINE S == {j \in c..Len(t) : j = Len(t) \/ t[j + 1] = NL} \cup {Len(t)}
<1>2. S \in SUBSET Nat /\ S # {}
  BY <1>1
<1>3. PICK e \in S : e = Least(S) /\ \A x \in S : e <= x
  BY <1>2, LeastOf
<1>4. e = LineEnd(t, c)
  BY <1>3 DEF LineEnd
<1>5. e \in c..Len(t) /\ (e = Len(t) \/ t[e + 1] = NL)
  BY <1>1
<1>6. ASSUME NEW k \in (c + 1)..e PROVE t[k] # NL
  <2>1. k - 1 \in c..Len(t) /\ (k - 1) + 1 = k /\ ~(e <= k - 1)
    BY <1>1, <1>5
  <2>2. k - 1 \notin S
    BY <1>3, <2>1
  <2> QED BY <2>1, <2>2
<1> HIDE DEF S
<1> QED BY <1>4, <1>5, <1>6

LEMMA LineStartFacts ==
  ASSUME NEW C, NEW t \in Seq(C), NEW c \in 0..Len(t)
  PROVE  /\ LineStart(t, c) \in 0..Len(t)
         /\ LineStart(t, c) = 0 \/ t[LineStart(t, c)] = NL
         /\ c > 0 => LineStart(t, c) <= c
         /\ c = 0 => LineStart(t, c) <= 1
         /\ \A k \in (LineStart(t, c) + 1)..c : t[k] # NL
         /\ c = 0 /\ Len(t) > 0 /\ t[1] = NL => LineStart(t, c) = 1
<1>1. Len(t) \in Nat
  BY LenProperties
<1>2. PICK last \in Nat : last = IF c > 0 THEN c - 1 ELSE 0
  <2>1. (IF c > 0 THEN c - 1 ELSE 0) \in Nat
    BY <1>1
  <2> QED BY <2>1
<1> DEFINE S == {0} \cup {j + 1 : j \in {k \in 0..(Len(t) - 1) : k <= last /\ t[k + 1] = NL}}
<1>3. S \in SUBSET (0..Len(t)) /\ S # {}
  BY <1>1
<1>4. PICK s \in S : s = Greatest(S) /\ \A x \in S : s >= x
  BY <1>1, <1>3, GreatestOf
<1>5. s = LineStart(t, c)
  BY <1>2, <1>4 DEF LineStart
<1>6. s \in 0..Len(t) /\ (s = 0 \/ (t[s] = NL /\ s - 1 <= last))
  <2>1. CASE s = 0
    BY <2>1, <1>1
  <2>2. CASE s # 0
    <3>1. PICK j \in 0..(Len(t) - 1) : s = j + 1 /\ j <= last /\ t[j + 1] = NL
      BY <2>2
    <3> QED BY <3>1, <1>1
  <2> QED BY <2>1, <2>2
<1>7. ASSUME NEW k \in (s + 1)..Len(t), k - 1 <= last PROVE t[k] # NL
  <2>1. k - 1 \in 0..(Len(t) - 1) /\ (k - 1) + 1 = k /\ ~(s >= k)
    BY <1>1, <1>6
  <2>2. k \notin S
    BY <1>4, <2>1
  <2> QED BY <2>1, <2>2, <1>7
<1> HIDE DEF S
<1>8. (c > 0 => s <= c) /\ (c = 0 => s <= 1)
  BY <1>1, <1>2, <1>6
<1>9. \A k \in (s + 1)..c : t[k] # NL
  <2> SUFFICES ASSUME NEW k \in (s + 1)..c PROVE t[k] # NL
    OBVIOUS
  <2>1. k \in (s + 1)..Len(t) /\ k - 1 <= last
    BY <1>1, <1>2, <1>6
  <2> QED BY <2>1, <1>7
<1>10. ASSUME c = 0, Len(t) > 0, t[1] = NL PROVE s = 1
  <2>1. s <= 1
    BY <1>8, <1>10
  <2>2. CASE s = 0
    <3>1. 1 \in (s + 1)..Len(t) /\ 1 - 1 <= last
      BY <1>1, <1>2, <1>10, <2>2
    <3> QED BY <3>1, <1>7, <1>10
  <2> QED BY <2>1, <2>2, <1>6
<1> QED BY <1>5, <1>6, <1>8, <1>9, <1>10

LEMMA ThrowsIff ==
  ASSUME NEW C, NEW t \in Seq(C), NEW c \in 0..Len(t)
  PROVE  Throws(t, c) <=> (c = 0 /\ Len(t) > 0 /\ t[1] = NL)
<1>1. Len(t) \in Nat
  BY LenProperties
<1>2. PICK s \in 0..Len(t) : s = LineStart(t, c)
  BY LineStartFacts
<1>3. PICK e \in c..Len(t) : e = LineEnd(t, c)
  BY LineEndFacts
<1>4. /\ s = 0 \/ t[s] = NL
      /\ c > 0 => s <= c
      /\ c = 0 => s <= 1
      /\ c = 0 /\ Len(t) > 0 /\ t[1] = NL => s = 1
  BY <1>2, LineStartFacts
<1>5. \A k \in (c + 1)..e : t[k] # NL
  BY <1>3, LineEndFacts
<1>6. ASSUME s > e PROVE c = 0 /\ Len(t) > 0 /\ t[1] = NL
  <2>1. c = 0 /\ s = 1
    BY <1>1, <1>4, <1>6
  <2> QED BY <1>1, <1>4, <2>1
<1>7. ASSUME c = 0, Len(t) > 0, t[1] = NL PROVE s > e
  <2>1. s = 1
    BY <1>4, <1>7
  <2>2. CASE e > 0
    <3>1. 1 \in (c + 1)..e
      BY <1>1, <1>7, <2>2
    <3> QED BY <3>1, <1>5, <1>7
  <2>3. CASE e = 0
    BY <2>1, <2>3
  <2> QED BY <1>1, <2>2, <2>3
<1> QED BY <1>2, <1>3, <1>6, <1>7 DEF Throws

LEMMA LineFacts ==
  ASSUME NEW C, NEW t \in Seq(C), NEW c \in 0..Len(t), ~Throws(t, c)
  PROVE  LineOf(t, c, LineStart(t, c), LineEnd(t, c))
<1>1. Len(t) \in Nat
  BY LenProperties
<1>2. PICK s \in 0..Len(t) : s = LineStart(t, c)
  BY LineStartFacts
<1>3. PICK e \in c..Len(t) : e = LineEnd(t, c)
  BY LineEndFacts
<1>4. /\ s = 0 \/ t[s] = NL
      /\ c > 0 => s <= c
      /\ c = 0 => s <= 1
      /\ \A k \in (s + 1)..c : t[k] # NL
  BY <1>2, LineStartFacts
<1>5. (\A k \in (c + 1)..e : t[k] # NL) /\ (e = Len(t) \/ t[e + 1] = NL)
  BY <1>3, LineEndFacts
<1>6. s \in 0..c
  <2>1. CASE c = 0 /\ s = 1
    <3>1. Len(t) > 0 /\ t[1] = NL
      BY <1>1, <1>4, <2>1
    <3> QED BY <3>1, <2>1, ThrowsIff
  <2> QED BY <1>1, <1>4, <2>1
<1>7. \A k \in (s + 1)..e : t[k] # NL
  <2> SUFFICES ASSUME NEW k \in (s + 1)..e PROVE t[k] # NL
    OBVIOUS
  <2>1. k \in (s + 1)..c \/ k \in (c + 1)..e
    BY <1>1
  <2> QED BY <2>1, <1>4, <1>5
<1> QED BY <1>2, <1>3, <1>4, <1>5, <1>6, <1>7 DEF LineOf

LEMMA LineIs ==
  ASSUME NEW C, NEW t \in Seq(C), NEW c \in 0..Len(t), c > 0, NEW s, NEW e,
         LineOf(t, c, s, e)
  PROVE  LineStart(t, c) = s /\ LineEnd(t, c) = e /\ ~Throws(t, c)
<1>1. Len(t) \in Nat
  BY LenProperties
<1>2. ~Throws(t, c)
  BY ThrowsIff
<1>3. PICK x, y : x = LineStart(t, c) /\ y = LineEnd(t, c)
  OBVIOUS
<1>4. LineOf(t, c, x, y)
  BY <1>2, <1>3, LineFacts
<1>5. x = s
  BY <1>1, <1>4 DEF LineOf
<1>6. y = e
  <2>1. y <= e
    BY <1>1, <1>4 DEF LineOf
  <2>2. e <= y
    BY <1>1, <1>4 DEF LineOf
  <2> QED BY <1>1, <1>4, <2>1, <2>2 DEF LineOf
<1> QED BY <1>2, <1>3, <1>5, <1>6

(* What a press of a prefix makes of a line.                                 *)

LEMMA MarkFacts ==
  /\ \A m \in Markers : m \in Seq(Characters) /\ Len(m) \in 1..2
  /\ \A m \in Markers : \A k \in 1..Len(m) : m[k] \in {"*", "backtick"}
  /\ \A kind \in PrefixKinds \ {"HEADING"} :
       /\ PlainPrefix(kind) \in Seq(Characters) /\ Len(PlainPrefix(kind)) \in 2..4
       /\ \A k \in 1..Len(PlainPrefix(kind)) :
            PlainPrefix(kind)[k] \in {SP, "-", ">", "box"}
<1>1. ASSUME NEW m \in Markers PROVE m \in Seq(Characters) /\ Len(m) \in 1..2
  <2>1. CASE m = <<"*", "*">>
    BY <2>1 DEF Characters
  <2>2. CASE m = <<"*">>
    BY <2>2 DEF Characters
  <2>3. CASE m = <<"backtick">>
    BY <2>3 DEF Characters
  <2> QED BY <2>1, <2>2, <2>3 DEF Markers, Strong, Slant, Code
<1>2. \A m \in Markers : \A k \in 1..Len(m) : m[k] \in {"*", "backtick"}
  BY DEF Markers, Strong, Slant, Code
<1>3. ASSUME NEW kind \in PrefixKinds \ {"HEADING"}
      PROVE  /\ PlainPrefix(kind) \in Seq(Characters) /\ Len(PlainPrefix(kind)) \in 2..4
             /\ \A k \in 1..Len(PlainPrefix(kind)) :
                  PlainPrefix(kind)[k] \in {SP, "-", ">", "box"}
  <2>1. CASE kind = "QUOTE"
    <3>1. PlainPrefix(kind) = <<">", SP>>
      BY <2>1 DEF PlainPrefix
    <3> QED BY <3>1 DEF Characters, Whitespace, SP, NL
  <2>2. CASE kind = "BULLET"
    <3>1. PlainPrefix(kind) = <<"-", SP>>
      BY <2>2 DEF PlainPrefix
    <3> QED BY <3>1 DEF Characters, Whitespace, SP, NL
  <2>3. CASE kind = "CHECK"
    <3>1. PlainPrefix(kind) = <<"-", SP, "box", SP>>
      BY <2>3 DEF PlainPrefix
    <3> QED BY <3>1 DEF Characters, Whitespace, SP, NL, Boxes
  <2> QED BY <2>1, <2>2, <2>3, <1>3 DEF PrefixKinds
<1> QED BY <1>1, <1>2, <1>3

(* A piece that stands at an offset.                                         *)
LEMMA StandsFacts ==
  ASSUME NEW C, NEW t \in Seq(C), NEW i \in Int, NEW D, NEW m \in Seq(D)
  PROVE  StandsAt(t, i, m) <=>
           i >= 0 /\ i + Len(m) <= Len(t) /\ \A k \in 1..Len(m) : t[i + k] = m[k]
<1>1. Len(t) \in Nat /\ Len(m) \in Nat
  BY LenProperties
<1>2. CASE i >= 0 /\ i + Len(m) <= Len(t)
  <2>1. i \in 0..Len(t) /\ i + Len(m) \in i..Len(t) /\ (i + Len(m)) - i = Len(m)
    BY <1>1, <1>2
  <2>2. PICK u \in Seq(C) : /\ u = Sub(t, i, i + Len(m)) /\ Len(u) = Len(m)
                            /\ \A k \in 1..Len(m) : u[k] = t[i + k]
    <3>1. PICK j \in i..Len(t) : j = i + Len(m) /\ j - i = Len(m)
      BY <2>1
    <3>2. /\ Sub(t, i, j) \in Seq(C) /\ Len(Sub(t, i, j)) = j - i
          /\ \A k \in 1..(j - i) : Sub(t, i, j)[k] = t[i + k]
      BY <2>1, SubFacts
    <3> QED BY <3>1, <3>2
  <2>3. ASSUME \A k \in 1..Len(m) : t[i + k] = m[k] PROVE u = m
    <3>1. \A k \in 1..Len(u) : u[k] = m[k]
      BY <2>2, <2>3
    <3>2. \A k \in 1..Len(u) : u[k] \in C /\ m[k] \in D
      BY <2>2, ElementOfSeq
    <3>3. u = [k \in 1..Len(u) |-> u[k]] /\ m = [k \in 1..Len(m) |-> m[k]]
      BY LenProperties
    <3> QED BY <3>1, <3>3, <2>2
  <2>4. u = m => \A k \in 1..Len(m) : t[i + k] = m[k]
    BY <2>2
  <2> QED BY <1>2, <2>2, <2>3, <2>4 DEF StandsAt
<1>3. CASE ~(i >= 0 /\ i + Len(m) <= Len(t))
  BY <1>3 DEF StandsAt
<1> QED BY <1>2, <1>3

LEMMA HashFacts ==
  ASSUME NEW k \in 1..3
  PROVE  /\ Hashes(k) \in Seq(Characters) /\ Len(Hashes(k)) = k + 1
         /\ \A i \in 1..k : Hashes(k)[i] = "#"
         /\ Hashes(k)[k + 1] = SP
<1>1. Hashes(k) \in [1..(k + 1) -> Characters] /\ k + 1 \in Nat
  BY DEF Hashes, Characters, Whitespace, SP, NL
<1>2. Hashes(k) \in Seq(Characters)
  BY <1>1
<1>3. DOMAIN Hashes(k) = 1..(k + 1) /\ DOMAIN Hashes(k) = 1..Len(Hashes(k))
  BY <1>1, <1>2, LenProperties
<1>4. Len(Hashes(k)) = k + 1
  BY <1>2, <1>3, LenProperties
<1> QED BY <1>2, <1>4 DEF Hashes

(* The level of a heading is what its first characters say.                  *)
LEMMA HeadingFacts ==
  ASSUME NEW C, NEW line \in Seq(C)
  PROVE  /\ HeadingPrefix(line) \in {0, 2, 3, 4}
         /\ HeadingPrefix(line) <= Len(line)
         /\ HeadingPrefix(line) > 0 =>
              /\ line[HeadingPrefix(line)] = SP
              /\ \A k \in 1..(HeadingPrefix(line) - 1) : line[k] = "#"
         /\ \A k \in 1..3 : HeadingPrefix(line) # k + 1 => ~StandsAt(line, 0, Hashes(k))
<1>1. Len(line) \in Nat
  BY LenProperties
<1> DEFINE S == {0} \cup {k + 1 : k \in {l \in 1..3 : StandsAt(line, 0, Hashes(l))}}
<1>2. S \in SUBSET (0..4) /\ S # {}
  OBVIOUS
<1>3. PICK h \in S : h = Greatest(S) /\ \A x \in S : h >= x
  BY <1>2, GreatestOf
<1>4. h = HeadingPrefix(line)
  BY <1>3 DEF HeadingPrefix
<1>5. \A l \in 1..3 : StandsAt(line, 0, Hashes(l)) <=>
                        l + 1 <= Len(line) /\ (\A i \in 1..l : line[i] = "#") /\ line[l + 1] = SP
  <2> SUFFICES ASSUME NEW l \in 1..3
               PROVE  StandsAt(line, 0, Hashes(l)) <=>
                        l + 1 <= Len(line) /\ (\A i \in 1..l : line[i] = "#") /\ line[l + 1] = SP
    OBVIOUS
  <2>1. StandsAt(line, 0, Hashes(l)) <=>
          0 + Len(Hashes(l)) <= Len(line) /\ \A k \in 1..Len(Hashes(l)) : line[0 + k] = Hashes(l)[k]
    <3>1. PICK m \in Seq(Characters) : m = Hashes(l)
      BY HashFacts
    <3>2. StandsAt(line, 0, m) <=>
            0 >= 0 /\ 0 + Len(m) <= Len(line) /\ \A k \in 1..Len(m) : line[0 + k] = m[k]
      BY StandsFacts
    <3> QED BY <3>1, <3>2
  <2>2. Len(Hashes(l)) = l + 1 /\ Hashes(l)[l + 1] = SP /\ \A i \in 1..l : Hashes(l)[i] = "#"
    BY HashFacts
  <2>3. ASSUME StandsAt(line, 0, Hashes(l))
        PROVE  l + 1 <= Len(line) /\ (\A i \in 1..l : line[i] = "#") /\ line[l + 1] = SP
    <3>1. \A k \in 1..(l + 1) : line[k] = Hashes(l)[k]
      BY <2>1, <2>2, <2>3
    <3> QED BY <1>1, <2>1, <2>2, <2>3, <3>1
  <2>4. ASSUME l + 1 <= Len(line), \A i \in 1..l : line[i] = "#", line[l + 1] = SP
        PROVE  StandsAt(line, 0, Hashes(l))
    <3>1. \A k \in 1..(l + 1) : line[0 + k] = Hashes(l)[k]
      BY <2>2, <2>4
    <3> QED BY <2>1, <2>2, <2>4, <3>1
  <2> QED BY <2>3, <2>4
<1>6. ASSUME h # 0
      PROVE  h \in 2..4 /\ StandsAt(line, 0, Hashes(h - 1))
  BY <1>6
<1>7. ASSUME NEW k \in 1..3, h # k + 1, StandsAt(line, 0, Hashes(k)) PROVE FALSE
  <2>1. k + 1 \in S
    BY <1>7
  <2>2. h >= k + 1 /\ h \in 2..4 /\ StandsAt(line, 0, Hashes(h - 1)) /\ h - 1 \in 1..3
    BY <2>1, <1>3, <1>6
  <2>3. line[k + 1] = SP
    BY <1>5, <1>7
  <2>4. line[k + 1] = "#"
    BY <1>5, <1>7, <2>2
  <2> QED BY <2>3, <2>4 DEF SP
<1> HIDE DEF S
<1>8. h \in {0, 2, 3, 4} /\ h <= Len(line)
  <2>1. CASE h = 0
    BY <2>1, <1>1
  <2>2. CASE h # 0
    <3>1. h \in 2..4 /\ h - 1 \in 1..3 /\ (h - 1) + 1 = h
      BY <1>6, <2>2
    <3> QED BY <3>1, <2>2, <1>5, <1>6
  <2> QED BY <2>1, <2>2
<1>9. ASSUME h > 0 PROVE line[h] = SP /\ \A k \in 1..(h - 1) : line[k] = "#"
  <2>1. h - 1 \in 1..3 /\ (h - 1) + 1 = h /\ StandsAt(line, 0, Hashes(h - 1))
    BY <1>6, <1>8, <1>9
  <2> QED BY <2>1, <1>5
<1> QED BY <1>4, <1>7, <1>8, <1>9

(* Levels with one more hash.                                                *)
LEMMA HeadingIs ==
  ASSUME NEW C, NEW line \in Seq(C), NEW h \in 2..4, h <= Len(line), line[h] = SP,
         \A k \in 1..(h - 1) : line[k] = "#"
  PROVE  HeadingPrefix(line) = h
<1>1. Len(line) \in Nat /\ h - 1 \in 1..3 /\ (h - 1) + 1 = h
  BY LenProperties
<1>2. PICK m \in Seq(Characters) : /\ m = Hashes(h - 1) /\ Len(m) = h
                                  /\ \A i \in 1..(h - 1) : m[i] = "#"
                                  /\ m[h] = SP
  BY <1>1, HashFacts
<1>3. StandsAt(line, 0, m)
  <2>1. 0 + Len(m) <= Len(line) /\ \A k \in 1..Len(m) : line[0 + k] = m[k]
    BY <1>2
  <2> QED BY <2>1, StandsFacts
<1> QED BY <1>1, <1>2, <1>3, HeadingFacts

(* The characters of a text that no press may touch.                         *)

Plain == {"a", NL}

WordsOf(t) ==
  CHOOSE upto : upto = [i \in 0..Len(t) |->
                          IF i = 0 THEN <<>>
                          ELSE IF t[i] \in Plain THEN Append(upto[i - 1], t[i])
                          ELSE upto[i - 1]]

LEMMA WordsUnfold ==
  ASSUME NEW C, NEW t \in Seq(C)
  PROVE  /\ Words(t) = WordsOf(t)[Len(t)]
         /\ WordsOf(t)[0] = <<>>
         /\ \A i \in 1..Len(t) :
              WordsOf(t)[i] = IF t[i] \in Plain THEN Append(WordsOf(t)[i - 1], t[i])
                              ELSE WordsOf(t)[i - 1]
<1> DEFINE E(g, i) == IF i = 0 THEN <<>>
                      ELSE IF t[i] \in Plain THEN Append(g[i - 1], t[i])
                      ELSE g[i - 1]
           S == {k \in Nat : \E g : g = [i \in 0..k |-> E(g, i)]}
<1>1. Len(t) \in Nat
  BY LenProperties
<1>2. 0 \in S
  <2>1. PICK g : g = [i \in 0..0 |-> <<>>]
    OBVIOUS
  <2>2. \A i \in 0..0 : E(g, i) = <<>>
    OBVIOUS
  <2>3. g = [i \in 0..0 |-> E(g, i)]
    BY <2>1, <2>2
  <2> QED BY <2>3
<1>3. ASSUME NEW k \in 0..(Len(t) - 1), k \in S PROVE k + 1 \in S
  <2>1. PICK g : g = [i \in 0..k |-> E(g, i)]
    BY <1>3
  <2>2. PICK h : h = [i \in 0..(k + 1) |-> IF i = k + 1 THEN E(g, i) ELSE g[i]]
    OBVIOUS
  <2>3. ASSUME NEW i \in 0..(k + 1) PROVE h[i] = E(h, i)
    <3>1. i # 0 => i - 1 \in 0..k /\ i - 1 # k + 1 /\ i - 1 \in 0..(k + 1)
      BY <1>1
    <3>2. i # 0 => h[i - 1] = g[i - 1]
      BY <2>2, <3>1
    <3>3. E(h, i) = E(g, i)
      BY <3>2
    <3>4. i # k + 1 => i \in 0..k
      BY <1>1
    <3>5. i # k + 1 => g[i] = E(g, i)
      <4> HIDE DEF E
      <4> QED BY <2>1, <3>4
    <3> HIDE DEF E
    <3> QED BY <2>2, <3>3, <3>5
  <2>4. h = [i \in 0..(k + 1) |-> E(h, i)]
    <3> HIDE DEF E
    <3> QED BY <2>2, <2>3
  <2> HIDE DEF E
  <2> QED BY <2>4
<1>4. Len(t) \in S
  <2> HIDE DEF S
  <2>1. \A i \in 0..Len(t) : i \in S
    BY <1>1, <1>2, <1>3, Forwards
  <2> QED BY <1>1, <2>1
<1>5. \E g : g = [i \in 0..Len(t) |-> E(g, i)]
  BY <1>4
<1>6. WordsOf(t) = [i \in 0..Len(t) |-> E(WordsOf(t), i)]
  <2>1. WordsOf(t) = CHOOSE g : g = [i \in 0..Len(t) |-> E(g, i)]
    BY Zenon DEF WordsOf
  <2> HIDE DEF E
  <2> QED BY <1>5, <2>1, Zenon
<1>7. Words(t) = WordsOf(t)[Len(t)]
  BY DEF Words, WordsOf, Plain
<1>8. \A i \in 0..Len(t) : WordsOf(t)[i] = E(WordsOf(t), i)
  <2> HIDE DEF E
  <2> QED BY <1>6
<1> QED BY <1>1, <1>7, <1>8

LEMMA WordsSeq ==
  ASSUME NEW C, NEW t \in Seq(C)
  PROVE  /\ \A i \in 0..Len(t) : WordsOf(t)[i] \in Seq(C)
         /\ Words(t) \in Seq(C)
<1> DEFINE S == {i \in 0..Len(t) : WordsOf(t)[i] \in Seq(C)}
<1>1. Len(t) \in Nat /\ \A i \in 1..Len(t) : t[i] \in C
  BY LenProperties, ElementOfSeq
<1>2. 0 \in S
  <2>1. WordsOf(t)[0] = <<>> /\ <<>> \in Seq(C) /\ 0 \in 0..Len(t)
    BY <1>1, WordsUnfold, EmptySeq
  <2> QED BY <2>1
<1>3. ASSUME NEW i \in 0..(Len(t) - 1), i \in S PROVE i + 1 \in S
  <2>1. i + 1 \in 1..Len(t) /\ i + 1 \in 0..Len(t) /\ (i + 1) - 1 = i /\ WordsOf(t)[i] \in Seq(C)
    BY <1>1, <1>3
  <2>2. t[i + 1] \in C
    BY <1>1, <2>1
  <2>3. Append(WordsOf(t)[i], t[i + 1]) \in Seq(C)
    BY <2>1, <2>2, AppendProperties
  <2>4. WordsOf(t)[i + 1] = IF t[i + 1] \in Plain THEN Append(WordsOf(t)[i], t[i + 1])
                            ELSE WordsOf(t)[i]
    BY <2>1, WordsUnfold
  <2> QED BY <2>1, <2>3, <2>4
<1>4. \A i \in 0..Len(t) : i \in S
  <2> HIDE DEF S
  <2> QED BY <1>1, <1>2, <1>3, Forwards
<1> QED BY <1>1, <1>4, WordsUnfold

LEMMA WordsOfMarks ==
  ASSUME NEW C, NEW t \in Seq(C), \A i \in 1..Len(t) : t[i] \notin Plain
  PROVE  Words(t) = <<>>
<1> DEFINE S == {i \in 0..Len(t) : WordsOf(t)[i] = <<>>}
<1>1. Len(t) \in Nat
  BY LenProperties
<1>2. 0 \in S
  BY <1>1, WordsUnfold
<1>3. ASSUME NEW i \in 0..(Len(t) - 1), i \in S PROVE i + 1 \in S
  <2>1. i + 1 \in 1..Len(t) /\ (i + 1) - 1 = i
    BY <1>1, <1>3
  <2>2. WordsOf(t)[i + 1] = WordsOf(t)[i]
    BY <2>1, WordsUnfold
  <2> QED BY <2>1, <2>2, <1>3
<1>4. \A i \in 0..Len(t) : i \in S
  <2> HIDE DEF S
  <2> QED BY <1>1, <1>2, <1>3, Forwards
<1> QED BY <1>1, <1>4, WordsUnfold

\* One more goes behind the second of two sequences.
Behind(p, q, x) == Append(p \o q, x) = p \o Append(q, x)

LEMMA AppendBehind ==
  ASSUME NEW C, NEW p \in Seq(C), NEW q \in Seq(C), NEW x \in C
  PROVE  Behind(p, q, x)
<1>1. PICK one : one = <<x>>
  OBVIOUS
<1>2. p \o q \in Seq(C) /\ one \in Seq(C)
  BY <1>1, ConcatProperties
<1>3. Append(p \o q, x) = (p \o q) \o one /\ Append(q, x) = q \o one
  BY <1>1, <1>2, AppendIsConcat
<1>4. (p \o q) \o one = p \o (q \o one)
  BY <1>2, ConcatAssociative
<1> QED BY <1>3, <1>4, Zenon DEF Behind

LEMMA WordsConcat ==
  ASSUME NEW C, NEW u \in Seq(C), NEW v \in Seq(C)
  PROVE  Words(u \o v) = Words(u) \o Words(v)
<1>1. Len(u) \in Nat /\ Len(v) \in Nat
  BY LenProperties
<1>2. PICK w \in Seq(C) : /\ w = u \o v /\ Len(w) = Len(u) + Len(v)
                          /\ \A i \in 1..(Len(u) + Len(v)) :
                               w[i] = IF i <= Len(u) THEN u[i] ELSE v[i - Len(u)]
  <2>1. PICK w : w = u \o v
    OBVIOUS
  <2>2. /\ w \in Seq(C) /\ Len(w) = Len(u) + Len(v)
        /\ \A i \in 1..(Len(u) + Len(v)) :
             w[i] = IF i <= Len(u) THEN u[i] ELSE v[i - Len(u)]
    BY <2>1, ConcatProperties
  <2> QED BY <2>1, <2>2
<1> DEFINE S == {i \in 0..Len(u) : WordsOf(w)[i] = WordsOf(u)[i]}
           T == {i \in 0..Len(v) : WordsOf(w)[Len(u) + i] = Words(u) \o WordsOf(v)[i]}
<1>3. 0 \in S
  BY <1>1, WordsUnfold
<1>4. ASSUME NEW i \in 0..(Len(u) - 1), i \in S PROVE i + 1 \in S
  <2>1. i + 1 \in 1..Len(u) /\ i + 1 \in 1..Len(w) /\ (i + 1) - 1 = i
    BY <1>1, <1>2
  <2>2. w[i + 1] = u[i + 1]
    BY <1>1, <1>2, <2>1
  <2>3. WordsOf(w)[i] = WordsOf(u)[i]
    BY <1>4
  <2>4. WordsOf(w)[i + 1] = IF w[i + 1] \in Plain THEN Append(WordsOf(w)[i], w[i + 1])
                            ELSE WordsOf(w)[i]
    BY <2>1, WordsUnfold
  <2>5. WordsOf(u)[i + 1] = IF u[i + 1] \in Plain THEN Append(WordsOf(u)[i], u[i + 1])
                            ELSE WordsOf(u)[i]
    BY <2>1, WordsUnfold
  <2>6. WordsOf(w)[i + 1] = WordsOf(u)[i + 1]
    BY <2>2, <2>3, <2>4, <2>5
  <2> QED BY <2>1, <2>6
<1>5. \A i \in 0..Len(u) : i \in S
  <2> HIDE DEF S
  <2> QED BY <1>1, <1>3, <1>4, Forwards
<1>6. WordsOf(w)[Len(u)] = Words(u)
  BY <1>1, <1>5, WordsUnfold
<1>7. 0 \in T
  <2>1. Words(u) \o <<>> = Words(u)
    BY WordsSeq, ConcatEmptySeq
  <2>2. WordsOf(v)[0] = <<>> /\ Len(u) + 0 = Len(u)
    BY <1>1, WordsUnfold
  <2>3. WordsOf(w)[Len(u) + 0] = Words(u) \o WordsOf(v)[0]
    BY <1>6, <2>1, <2>2
  <2>4. 0 \in 0..Len(v)
    BY <1>1
  <2> QED BY <2>3, <2>4
<1>8. ASSUME NEW i \in 0..(Len(v) - 1), i \in T PROVE i + 1 \in T
  <2> DEFINE n == Len(u) + (i + 1)
  <2>1. /\ i + 1 \in 1..Len(v) /\ n \in 1..Len(w) /\ (i + 1) - 1 = i /\ n - 1 = Len(u) + i
        /\ ~(n <= Len(u)) /\ n - Len(u) = i + 1
    BY <1>1, <1>2
  <2>2. w[n] = v[i + 1]
    BY <1>2, <2>1
  <2>3. WordsOf(w)[n - 1] = Words(u) \o WordsOf(v)[i]
    BY <1>8, <2>1
  <2>4. WordsOf(w)[n] = IF w[n] \in Plain THEN Append(WordsOf(w)[n - 1], w[n])
                        ELSE WordsOf(w)[n - 1]
    <3> HIDE DEF n
    <3> QED BY <2>1, WordsUnfold
  <2>5. WordsOf(v)[i + 1] = IF v[i + 1] \in Plain THEN Append(WordsOf(v)[i], v[i + 1])
                            ELSE WordsOf(v)[i]
    BY <2>1, WordsUnfold
  <2>6. PICK p, q, x : p = Words(u) /\ q = WordsOf(v)[i] /\ x = v[i + 1]
    OBVIOUS
  <2>7. p \in Seq(C) /\ q \in Seq(C) /\ x \in C
    <3>1. Words(u) \in Seq(C) /\ v[i + 1] \in C
      BY <2>1, WordsSeq, ElementOfSeq
    <3>2. i \in 0..Len(v)
      BY <1>1, <1>8
    <3>3. WordsOf(v)[i] \in Seq(C)
      BY <3>2, WordsSeq
    <3> QED BY <2>6, <3>1, <3>3, Zenon
  <2>8. Behind(p, q, x)
    BY <2>7, AppendBehind
  <2>9. WordsOf(w)[n] = Words(u) \o WordsOf(v)[i + 1]
    <3>1. WordsOf(w)[n] = IF x \in Plain THEN Append(p \o q, x) ELSE p \o q
      BY <2>2, <2>3, <2>4, <2>6, Zenon
    <3>2. WordsOf(v)[i + 1] = IF x \in Plain THEN Append(q, x) ELSE q
      BY <2>5, <2>6, Zenon
    <3>3. WordsOf(w)[n] = p \o WordsOf(v)[i + 1]
      BY <2>8, <3>1, <3>2, Zenon DEF Behind
    <3> QED BY <2>6, <3>3, Zenon
  <2> QED BY <2>1, <2>9
<1>9. \A i \in 0..Len(v) : i \in T
  <2> HIDE DEF T
  <2> QED BY <1>1, <1>7, <1>8, Forwards
<1>10. WordsOf(w)[Len(u) + Len(v)] = Words(u) \o WordsOf(v)[Len(v)]
  BY <1>1, <1>9
<1>11. Words(w) = WordsOf(w)[Len(w)] /\ Words(v) = WordsOf(v)[Len(v)]
  BY WordsUnfold
<1> QED BY <1>2, <1>10, <1>11

(* Three pieces, the middle one exchanged for one with the same words.       *)
LEMMA WordsSpliced ==
  ASSUME NEW C, NEW t \in Seq(C), NEW i \in 0..Len(t), NEW j \in i..Len(t),
         NEW new \in Seq(C), Words(new) = Words(Sub(t, i, j))
  PROVE  Words(Spliced(t, i, new, j)) = Words(t)
<1>1. Len(t) \in Nat
  BY LenProperties
<1>2. PICK a \in Seq(C) : a = Sub(t, 0, i)
  <2>1. 0 \in 0..Len(t)
    BY <1>1
  <2> QED BY <2>1, SubFacts
<1>3. PICK m \in Seq(C) : m = Sub(t, i, j)
  BY SubFacts
<1>4. PICK b \in Seq(C) : b = Sub(t, j, Len(t))
  <2>1. j \in 0..Len(t) /\ Len(t) \in j..Len(t)
    BY <1>1
  <2> QED BY <2>1, SubFacts
<1>5. t = (a \o m) \o b
  <2>1. 0 \in 0..Len(t) /\ j \in 0..Len(t) /\ Len(t) \in j..Len(t) /\ i \in 0..Len(t)
    BY <1>1
  <2>2. Sub(t, 0, i) \o Sub(t, i, j) = Sub(t, 0, j)
    BY <2>1, Adjacent
  <2>3. Sub(t, 0, j) \o Sub(t, j, Len(t)) = Sub(t, 0, Len(t))
    BY <2>1, Adjacent
  <2> QED BY <1>2, <1>3, <1>4, <2>2, <2>3, WholeIs
<1>6. Words((a \o m) \o b) = (Words(a) \o Words(m)) \o Words(b)
  <2>1. a \o m \in Seq(C)
    BY ConcatProperties
  <2>2. Words(a \o m) = Words(a) \o Words(m)
    BY WordsConcat
  <2> QED BY <2>1, <2>2, WordsConcat
<1>7. Words((a \o new) \o b) = (Words(a) \o Words(new)) \o Words(b)
  <2>1. a \o new \in Seq(C)
    BY ConcatProperties
  <2>2. Words(a \o new) = Words(a) \o Words(new)
    BY WordsConcat
  <2> QED BY <2>1, <2>2, WordsConcat
<1> QED BY <1>2, <1>3, <1>4, <1>5, <1>6, <1>7 DEF Spliced

(* A press of a prefix: what becomes of the line, and of the caret on it.    *)

OneLine(line) == \A k \in 1..Len(line) : line[k] # NL

LEMMA PutBefore ==
  ASSUME NEW line \in Seq(Characters), NEW p \in Seq(Characters),
         \A k \in 1..Len(p) : p[k] \notin Plain
  PROVE  /\ p \o line \in Seq(Characters) /\ Len(p \o line) = Len(p) + Len(line)
         /\ Words(p \o line) = Words(line)
         /\ OneLine(line) => OneLine(p \o line)
         /\ \A k \in 1..Len(p) : (p \o line)[k] = p[k]
         /\ \A k \in 1..Len(line) : (p \o line)[Len(p) + k] = line[k]
         /\ Sub(p \o line, Len(p), Len(p \o line)) = line
<1>1. Len(line) \in Nat /\ Len(p) \in Nat
  BY LenProperties
<1>2. PICK w : w = p \o line
  OBVIOUS
<1>3. /\ w \in Seq(Characters) /\ Len(w) = Len(p) + Len(line)
      /\ \A i \in 1..(Len(p) + Len(line)) :
           w[i] = IF i <= Len(p) THEN p[i] ELSE line[i - Len(p)]
  BY <1>2, ConcatProperties
<1>4. \A k \in 1..Len(p) : w[k] = p[k]
  BY <1>1, <1>3
<1>5. \A k \in 1..Len(line) : w[Len(p) + k] = line[k]
  <2> SUFFICES ASSUME NEW k \in 1..Len(line) PROVE w[Len(p) + k] = line[k]
    OBVIOUS
  <2>1. /\ Len(p) + k \in 1..(Len(p) + Len(line)) /\ ~(Len(p) + k <= Len(p))
        /\ (Len(p) + k) - Len(p) = k
    BY <1>1
  <2> QED BY <1>3, <2>1
<1>6. Words(w) = Words(line)
  <2>1. Words(p) = <<>>
    BY WordsOfMarks
  <2>2. Words(w) = Words(p) \o Words(line)
    BY <1>2, WordsConcat
  <2>3. <<>> \o Words(line) = Words(line)
    BY WordsSeq, ConcatEmptySeq
  <2> QED BY <2>1, <2>2, <2>3
<1>7. ASSUME OneLine(line) PROVE OneLine(w)
  <2> SUFFICES ASSUME NEW k \in 1..Len(w) PROVE w[k] # NL
    BY DEF OneLine
  <2>1. CASE k <= Len(p)
    <3>1. k \in 1..Len(p)
      BY <1>1, <1>3, <2>1
    <3> QED BY <3>1, <1>4 DEF Plain
  <2>2. CASE ~(k <= Len(p))
    <3>1. k - Len(p) \in 1..Len(line) /\ k \in 1..(Len(p) + Len(line))
      BY <1>1, <1>3, <2>2
    <3>2. w[k] = line[k - Len(p)]
      BY <3>1, <2>2, <1>3
    <3> QED BY <3>1, <3>2, <1>7 DEF OneLine
  <2> QED BY <2>1, <2>2
<1>8. Sub(w, Len(p), Len(w)) = line
  <2>1. PICK i \in 0..Len(w) : i = Len(p)
    BY <1>1, <1>3
  <2>2. PICK j \in i..Len(w) : j = Len(w) /\ j - i = Len(line)
    BY <1>1, <1>3, <2>1
  <2>3. /\ Sub(w, i, j) \in Seq(Characters) /\ Len(Sub(w, i, j)) = j - i
        /\ \A k \in 1..(j - i) : Sub(w, i, j)[k] = w[i + k]
    BY <1>3, SubFacts
  <2>4. PICK u \in Seq(Characters) : u = Sub(w, i, j)
    BY <2>3
  <2>5. Len(u) = Len(line) /\ \A k \in 1..Len(u) : u[k] = line[k]
    BY <1>5, <2>1, <2>2, <2>3, <2>4
  <2>6. u = line
    BY <2>5, SeqEqual
  <2> QED BY <2>1, <2>2, <2>4, <2>6
<1> QED BY <1>2, <1>3, <1>4, <1>5, <1>6, <1>7, <1>8

LEMMA TakeAway ==
  ASSUME NEW line \in Seq(Characters), NEW n \in 0..Len(line),
         \A k \in 1..n : line[k] \notin Plain
  PROVE  /\ Sub(line, n, Len(line)) \in Seq(Characters)
         /\ Len(Sub(line, n, Len(line))) = Len(line) - n
         /\ \A k \in 1..(Len(line) - n) : Sub(line, n, Len(line))[k] = line[n + k]
         /\ Words(Sub(line, n, Len(line))) = Words(line)
         /\ OneLine(line) => OneLine(Sub(line, n, Len(line)))
<1>1. Len(line) \in Nat
  BY LenProperties
<1>2. Len(line) \in n..Len(line) /\ 0 \in 0..Len(line)
  BY <1>1
<1>3. PICK a \in Seq(Characters) : /\ a = Sub(line, 0, n) /\ Len(a) = n
                                   /\ \A k \in 1..n : a[k] = line[k]
  <2>1. /\ Sub(line, 0, n) \in Seq(Characters) /\ Len(Sub(line, 0, n)) = n - 0
        /\ \A k \in 1..(n - 0) : Sub(line, 0, n)[k] = line[0 + k]
    BY <1>1, <1>2, SubFacts
  <2>2. n - 0 = n /\ \A k \in 1..n : 0 + k = k
    OBVIOUS
  <2> QED BY <2>1, <2>2
<1>4. PICK b \in Seq(Characters) : /\ b = Sub(line, n, Len(line)) /\ Len(b) = Len(line) - n
                                   /\ \A k \in 1..(Len(line) - n) : b[k] = line[n + k]
  <2>1. /\ Sub(line, n, Len(line)) \in Seq(Characters)
        /\ Len(Sub(line, n, Len(line))) = Len(line) - n
        /\ \A k \in 1..(Len(line) - n) : Sub(line, n, Len(line))[k] = line[n + k]
    BY <1>1, <1>2, SubFacts
  <2> QED BY <2>1
<1>5. line = a \o b
  <2>1. Sub(line, 0, n) \o Sub(line, n, Len(line)) = Sub(line, 0, Len(line))
    BY <1>1, <1>2, Adjacent
  <2> QED BY <1>3, <1>4, <2>1, WholeIs
<1>6. Words(line) = Words(b)
  <2>1. Words(a) = <<>>
    BY <1>3, WordsOfMarks
  <2>2. Words(line) = Words(a) \o Words(b)
    BY <1>5, WordsConcat
  <2>3. <<>> \o Words(b) = Words(b)
    BY WordsSeq, ConcatEmptySeq
  <2> QED BY <2>1, <2>2, <2>3
<1>7. OneLine(line) => OneLine(b)
  BY <1>1, <1>4 DEF OneLine
<1> QED BY <1>4, <1>6, <1>7

(* The new line n, and the caret x, which is on it but for the exception.    *)
Pressed(line, c, s, kind, n, x) ==
  /\ PressLine(line, c, s, kind) = [text |-> n, caret |-> x]
  /\ n \in Seq(Characters) /\ OneLine(n) /\ Words(n) = Words(line)
  /\ x \in 0..(s + Len(n))
  /\ \/ x >= s
     \/ /\ kind # "HEADING" /\ Len(n) < Len(line)
        /\ c - s < Len(PlainPrefix(kind))

LEMMA PlainPressed ==
  ASSUME NEW line \in Seq(Characters), OneLine(line), NEW s \in Nat,
         NEW c \in s..(s + Len(line)), NEW kind \in PrefixKinds \ {"HEADING"}
  PROVE  \E n, x : Pressed(line, c, s, kind, n, x)
<1>1. Len(line) \in Nat
  BY LenProperties
<1>2. PICK p : p = PlainPrefix(kind)
  OBVIOUS
<1>3. p \in Seq(Characters) /\ Len(p) \in Nat /\ Len(p) >= 1 /\ \A k \in 1..Len(p) : p[k] \notin Plain
  <2>1. p \in Seq(Characters) /\ Len(p) \in 2..4
    BY <1>2, MarkFacts
  <2>4. \A k \in 1..Len(p) : p[k] \in {SP, "-", ">", "box"}
    BY <1>2, MarkFacts
  <2>2. \A k \in 1..Len(p) : p[k] \notin Plain
    BY <2>4 DEF Plain, NL, SP
  <2>3. Len(p) \in Nat /\ Len(p) >= 1
    <3>1. \A l \in 2..4 : l \in Nat /\ l >= 1
      OBVIOUS
    <3> QED BY <2>1, <3>1, Zenon
  <2> QED BY <2>1, <2>2, <2>3
<1>4. PressLine(line, c, s, kind) = TogglePlainPrefix(line, c, p)
  BY <1>2 DEF PressLine
<1>5. CASE StandsAt(line, 0, p)
  <2>1. Len(p) \in 0..Len(line) /\ \A k \in 1..Len(p) : line[k] = p[k]
    <3>1. 0 + Len(p) <= Len(line) /\ \A k \in 1..Len(p) : line[0 + k] = p[k]
      BY <1>3, <1>5, StandsFacts
    <3> QED BY <1>1, <1>3, <3>1
  <2>2. \A k \in 1..Len(p) : line[k] \notin Plain
    BY <1>3, <2>1
  <2>3. PICK n : n = Sub(line, Len(p), Len(line))
    OBVIOUS
  <2>4. /\ n \in Seq(Characters) /\ Len(n) = Len(line) - Len(p)
        /\ Words(n) = Words(line) /\ OneLine(n)
    BY <2>1, <2>2, <2>3, TakeAway
  <2>5. PICK x : x = IF c > Len(p) THEN c - Len(p) ELSE 0
    OBVIOUS
  <2>6. PressLine(line, c, s, kind) = [text |-> n, caret |-> x]
    BY <1>4, <1>5, <2>3, <2>5 DEF TogglePlainPrefix
  <2>7. x \in 0..(s + Len(n)) /\ Len(n) < Len(line) /\ (x >= s \/ c - s < Len(p))
    <3>1. Len(p) \in 1..Len(line) /\ Len(n) = Len(line) - Len(p)
      BY <1>1, <1>3, <2>1, <2>4
    <3>2. \A l \in 1..Len(line) :
            LET y == IF c > l THEN c - l ELSE 0
            IN /\ y \in 0..(s + (Len(line) - l)) /\ Len(line) - l < Len(line)
               /\ y >= s \/ c - s < l
      BY <1>1
    <3> QED BY <2>5, <3>1, <3>2
  <2> QED BY <1>2, <2>4, <2>6, <2>7 DEF Pressed
<1>6. CASE ~StandsAt(line, 0, p)
  <2>1. PICK n : n = p \o line
    OBVIOUS
  <2>2. /\ n \in Seq(Characters) /\ Len(n) = Len(p) + Len(line)
        /\ Words(n) = Words(line) /\ OneLine(n)
    BY <1>3, <2>1, PutBefore
  <2>3. PressLine(line, c, s, kind) = [text |-> n, caret |-> c + Len(p)]
    BY <1>4, <1>6, <2>1 DEF TogglePlainPrefix
  <2>4. c + Len(p) \in 0..(s + Len(n)) /\ c + Len(p) >= s
    BY <1>1, <1>3, <2>2
  <2> QED BY <2>2, <2>3, <2>4 DEF Pressed
<1> QED BY <1>5, <1>6

LEMMA HeadingPressed ==
  ASSUME NEW line \in Seq(Characters), OneLine(line), NEW s \in Nat,
         NEW c \in s..(s + Len(line))
  PROVE  \E n, x : Pressed(line, c, s, "HEADING", n, x)
<1>1. Len(line) \in Nat
  BY LenProperties
<1>2. PICK h \in {0, 2, 3, 4} : h = HeadingPrefix(line) /\ h <= Len(line)
  BY HeadingFacts
<1>3. PressLine(line, c, s, "HEADING") = CycleHeading(line, c, s)
  BY DEF PressLine
<1>4. CASE h = 0
  <2>1. PICK p \in Seq(Characters) : p = <<"#", SP>>
    <3>1. <<"#", SP>> \in Seq(Characters)
      BY DEF Characters, Whitespace, SP
    <3> QED BY <3>1
  <2>2. Len(p) = 2 /\ \A k \in 1..Len(p) : p[k] \notin Plain
    BY <2>1 DEF Plain, NL, SP
  <2>3. PICK n : n = p \o line
    OBVIOUS
  <2>4. /\ n \in Seq(Characters) /\ Len(n) = Len(p) + Len(line)
        /\ Words(n) = Words(line) /\ OneLine(n)
    BY <2>2, <2>3, PutBefore
  <2>5. PressLine(line, c, s, "HEADING") = [text |-> n, caret |-> c + 2]
    <3>1. HeadingPrefix(line) = 0
      BY <1>2, <1>4
    <3>2. CycleHeading(line, c, s) = [text |-> <<"#", SP>> \o line, caret |-> c + 2]
      BY <3>1 DEF CycleHeading
    <3> QED BY <1>3, <2>1, <2>3, <3>2
  <2>6. c + 2 \in 0..(s + Len(n)) /\ c + 2 >= s
    BY <1>1, <2>2, <2>4
  <2> QED BY <2>4, <2>5, <2>6 DEF Pressed
<1>5. CASE h \in 2..3
  <2>1. PICK p \in Seq(Characters) : p = <<"#">>
    <3>1. <<"#">> \in Seq(Characters)
      BY DEF Characters
    <3> QED BY <3>1
  <2>2. Len(p) = 1 /\ \A k \in 1..Len(p) : p[k] \notin Plain
    BY <2>1 DEF Plain, NL
  <2>3. PICK n : n = p \o line
    OBVIOUS
  <2>4. /\ n \in Seq(Characters) /\ Len(n) = Len(p) + Len(line)
        /\ Words(n) = Words(line) /\ OneLine(n)
    BY <2>2, <2>3, PutBefore
  <2>5. PressLine(line, c, s, "HEADING") = [text |-> n, caret |-> c + 1]
    <3>1. HeadingPrefix(line) \in 2..3 /\ HeadingPrefix(line) # 0
      BY <1>2, <1>5
    <3>2. CycleHeading(line, c, s) = [text |-> <<"#">> \o line, caret |-> c + 1]
      BY <3>1 DEF CycleHeading
    <3> QED BY <1>3, <2>1, <2>3, <3>2
  <2>6. c + 1 \in 0..(s + Len(n)) /\ c + 1 >= s
    BY <1>1, <2>2, <2>4
  <2> QED BY <2>4, <2>5, <2>6 DEF Pressed
<1>6. CASE h = 4
  <2>1. \A k \in 1..h : line[k] \notin Plain
    <3>1. line[4] = SP /\ \A k \in 1..3 : line[k] = "#"
      <4>1. PICK g : g = HeadingPrefix(line)
        OBVIOUS
      <4>2. g > 0 => line[g] = SP /\ \A k \in 1..(g - 1) : line[k] = "#"
        BY <4>1, HeadingFacts
      <4>3. g = 4
        BY <1>2, <1>6, <4>1, Zenon
      <4>4. g - 1 = 3 /\ g > 0
        BY <4>3
      <4> QED BY <4>2, <4>3, <4>4
    <3>2. \A k \in 1..h : k = 4 \/ k \in 1..3
      BY <1>6
    <3> QED BY <3>1, <3>2 DEF Plain, NL, SP
  <2>2. PICK n : n = Sub(line, h, Len(line))
    OBVIOUS
  <2>3. /\ n \in Seq(Characters) /\ Len(n) = Len(line) - h
        /\ Words(n) = Words(line) /\ OneLine(n)
    <3>1. h \in 0..Len(line)
      BY <1>1, <1>2
    <3> QED BY <2>1, <2>2, <3>1, TakeAway
  <2>4. PICK x : x = IF c - h > s THEN c - h ELSE s
    OBVIOUS
  <2>5. PressLine(line, c, s, "HEADING") = [text |-> n, caret |-> x]
    <3>1. HeadingPrefix(line) = 4
      BY <1>2, <1>6
    <3>2. CycleHeading(line, c, s) = [text |-> Sub(line, 4, Len(line)),
                                      caret |-> IF c - 4 > s THEN c - 4 ELSE s]
      BY <3>1 DEF CycleHeading
    <3> QED BY <1>3, <1>6, <2>2, <2>4, <3>2
  <2>6. x \in 0..(s + Len(n)) /\ x >= s
    BY <1>1, <1>2, <1>6, <2>3, <2>4
  <2> QED BY <2>3, <2>5, <2>6 DEF Pressed
<1> QED BY <1>2, <1>4, <1>5, <1>6

(* A press of a prefix is a splice of the line.                              *)

PressOf(t, c, kind, s, e, line, n, x) ==
  /\ s = LineStart(t, c) /\ e = LineEnd(t, c) /\ LineOf(t, c, s, e)
  /\ line = Sub(t, s, e) /\ line \in Seq(Characters) /\ Len(line) = e - s /\ OneLine(line)
  /\ \A k \in 1..(e - s) : line[k] = t[s + k]
  /\ Pressed(line, c, s, kind, n, x)
  /\ ToggleLinePrefix(t, c, kind) = [text |-> Spliced(t, s, n, e), caret |-> x]
  /\ Spliced(t, s, n, e) \in Seq(Characters)
  /\ x \in 0..Len(Spliced(t, s, n, e))
  /\ Words(Spliced(t, s, n, e)) = Words(t)

LEMMA ToggleIs ==
  ASSUME NEW t, NEW c, NEW kind
  PROVE  LET s   == LineStart(t, c)
             e   == LineEnd(t, c)
             new == PressLine(Sub(t, s, e), c, s, kind)
             u   == Spliced(t, s, new.text, e)
         IN ToggleLinePrefix(t, c, kind)
              = [text |-> u, caret |-> IF new.caret > Len(u) THEN Len(u) ELSE new.caret]
BY DEF ToggleLinePrefix

LEMMA PressIs ==
  ASSUME NEW t \in Seq(Characters), NEW c \in 0..Len(t), ~Throws(t, c),
         NEW kind \in PrefixKinds
  PROVE  \E s, e, line, n, x : PressOf(t, c, kind, s, e, line, n, x)
<1>1. Len(t) \in Nat
  BY LenProperties
<1>2. PICK s, e : s = LineStart(t, c) /\ e = LineEnd(t, c)
  OBVIOUS
<1>3. LineOf(t, c, s, e)
  BY <1>2, LineFacts
<1>4. s \in 0..c /\ e \in c..Len(t) /\ \A k \in (s + 1)..e : t[k] # NL
  BY <1>3 DEF LineOf
<1>5. s \in 0..Len(t) /\ e \in s..Len(t)
  BY <1>1, <1>4
<1>6. PICK line \in Seq(Characters) : /\ line = Sub(t, s, e) /\ Len(line) = e - s
                                      /\ \A k \in 1..(e - s) : line[k] = t[s + k]
  <2>1. /\ Sub(t, s, e) \in Seq(Characters) /\ Len(Sub(t, s, e)) = e - s
        /\ \A k \in 1..(e - s) : Sub(t, s, e)[k] = t[s + k]
    BY <1>5, SubFacts
  <2> QED BY <2>1
<1>7. OneLine(line)
  <2>1. \A k \in 1..(e - s) : s + k \in (s + 1)..e
    BY <1>1, <1>5
  <2> QED BY <1>4, <1>6, <2>1 DEF OneLine
<1>8. s \in Nat /\ c \in s..(s + Len(line))
  BY <1>1, <1>4, <1>6
<1>9. PICK n, x : Pressed(line, c, s, kind, n, x)
  BY <1>7, <1>8, PlainPressed, HeadingPressed
<1>10. n \in Seq(Characters) /\ Len(n) \in Nat /\ x \in 0..(s + Len(n)) /\ Words(n) = Words(line)
  BY <1>9, LenProperties DEF Pressed
<1>11. PICK u : u = Spliced(t, s, n, e)
  OBVIOUS
<1>12. u \in Seq(Characters) /\ Len(u) = Len(t) - (e - s) + Len(n) /\ Words(u) = Words(t)
  <2>1. /\ Spliced(t, s, n, e) \in Seq(Characters)
        /\ Len(Spliced(t, s, n, e)) = Len(t) - (e - s) + Len(n)
    BY <1>5, <1>10, SplicedFacts
  <2>2. Words(n) = Words(Sub(t, s, e))
    BY <1>6, <1>10
  <2>3. Words(Spliced(t, s, n, e)) = Words(t)
    BY <1>5, <1>10, <2>2, WordsSpliced
  <2> QED BY <1>11, <2>1, <2>3
<1>13. x \in Nat /\ x \in 0..Len(u)
  BY <1>1, <1>5, <1>10, <1>12
<1>14. ToggleLinePrefix(t, c, kind) = [text |-> u, caret |-> IF x > Len(u) THEN Len(u) ELSE x]
  <2>1. PressLine(line, c, s, kind) = [text |-> n, caret |-> x]
    BY <1>9 DEF Pressed
  <2>2. PressLine(Sub(t, LineStart(t, c), LineEnd(t, c)), c, LineStart(t, c), kind)
          = [text |-> n, caret |-> x]
    BY <1>2, <1>6, <2>1, Zenon
  <2>3. u = Spliced(t, LineStart(t, c), n, LineEnd(t, c))
    BY <1>2, <1>11, Zenon
  <2>4. [text |-> n, caret |-> x].text = n /\ [text |-> n, caret |-> x].caret = x
    OBVIOUS
  <2> QED BY <2>2, <2>3, <2>4, ToggleIs, Zenon
<1>15. (IF x > Len(u) THEN Len(u) ELSE x) = x
  BY <1>1, <1>12, <1>13
<1>16. ToggleLinePrefix(t, c, kind) = [text |-> u, caret |-> x]
  BY <1>14, <1>15
<1>17. PressOf(t, c, kind, s, e, line, n, x)
  BY <1>2, <1>3, <1>6, <1>7, <1>9, <1>11, <1>12, <1>13, <1>16 DEF PressOf
<1> QED BY <1>17

(* The line of the caret stays the line of the caret.                        *)
LEMMA LineKept ==
  ASSUME NEW t \in Seq(Characters), NEW c \in 0..Len(t)
  PROVE  IF Throws(t, c) THEN c = 0 /\ t[1] = NL
         ELSE \A kind \in PrefixKinds :
                LET e     == ToggleLinePrefix(t, c, kind)
                    under == kind # "HEADING" /\ Len(e.text) < Len(t)
                               /\ c - LineStart(t, c) < Len(PlainPrefix(kind))
                IN LineNumber(e.text, e.caret) = LineNumber(t, c) \/ under
<1>1. Throws(t, c) => c = 0 /\ t[1] = NL
  BY ThrowsIff
<1>2. ASSUME ~Throws(t, c), NEW kind \in PrefixKinds, NEW e, e = ToggleLinePrefix(t, c, kind),
             ~(/\ kind # "HEADING" /\ Len(e.text) < Len(t)
               /\ c - LineStart(t, c) < Len(PlainPrefix(kind)))
      PROVE  LineNumber(e.text, e.caret) = LineNumber(t, c)
  <2>1. PICK s, end, line, n, x : PressOf(t, c, kind, s, end, line, n, x)
    BY <1>2, PressIs
  <2>2. n \in Seq(Characters) /\ Len(t) \in Nat /\ Len(n) \in Nat
    BY <2>1, LenProperties DEF PressOf, Pressed
  <2>3. s \in 0..Len(t) /\ end \in s..Len(t) /\ s \in 0..c /\ s = LineStart(t, c)
    BY <2>1, <2>2 DEF PressOf, LineOf
  <2>4. PICK u : u = Spliced(t, s, n, end)
    OBVIOUS
  <2>5. /\ Len(u) = Len(t) - (end - s) + Len(n)
        /\ \A k \in 1..s : u[k] = t[k]
        /\ \A k \in 1..Len(n) : u[s + k] = n[k]
    <3>1. IsSplice(Characters, u, t, s, n, end)
      BY <2>2, <2>3, <2>4, SplicedIs
    <3> QED BY <3>1 DEF IsSplice
  <2>6. x \in Nat /\ c \in Nat /\ s \in Nat /\ x >= s /\ x <= s + Len(n)
    <3>1. x \in 0..(s + Len(n)) /\ x \in Nat /\ c \in Nat /\ s \in Nat
      <4>1. x \in 0..(s + Len(n))
        BY <2>1 DEF PressOf, Pressed
      <4> QED BY <2>2, <2>3, <4>1
    <3>2. CASE x >= s
      BY <3>1, <3>2
    <3>3. CASE ~(x >= s)
      <4>1. kind # "HEADING" /\ Len(n) < Len(line) /\ c - s < Len(PlainPrefix(kind))
        BY <2>1, <3>3 DEF PressOf, Pressed
      <4>2. e.text = u
        BY <1>2, <2>1, <2>4 DEF PressOf
      <4>3. Len(line) = end - s
        BY <2>1 DEF PressOf
      <4>4. Len(u) < Len(t)
        <5>1. Len(n) < end - s
          BY <4>1, <4>3
        <5> QED BY <2>2, <2>3, <2>5, <5>1
      <4> QED BY <1>2, <2>3, <4>1, <4>2, <4>4
    <3> QED BY <3>2, <3>3
  <2>7. \A k \in (s + 1)..x : u[k] # NL
    <3> SUFFICES ASSUME NEW k \in (s + 1)..x PROVE u[k] # NL
      OBVIOUS
    <3>1. k - s \in 1..Len(n) /\ s + (k - s) = k
      BY <2>2, <2>6
    <3>2. u[k] = n[k - s]
      BY <2>5, <3>1
    <3> QED BY <2>1, <3>1, <3>2 DEF PressOf, Pressed, OneLine
  <2>8. {k \in 1..x : u[k] = NL} = {k \in 1..s : t[k] = NL}
    BY <2>2, <2>5, <2>6, <2>7
  <2>9. \A k \in (s + 1)..c : t[k] # NL
    BY <2>1, <2>2, <2>3 DEF PressOf, LineOf
  <2>10. {k \in 1..c : t[k] = NL} = {k \in 1..s : t[k] = NL}
    BY <2>3, <2>6, <2>9
  <2>11. e.text = u /\ e.caret = x
    BY <1>2, <2>1, <2>4 DEF PressOf
  <2> QED BY <2>8, <2>10, <2>11 DEF LineNumber
<1> QED BY <1>1, <1>2

(* A line that has been replaced is replaced once more.                      *)
LEMMA SplicedAgain ==
  ASSUME NEW C, NEW t \in Seq(C), NEW s \in 0..Len(t), NEW e \in s..Len(t),
         NEW n \in Seq(C), NEW m \in Seq(C), NEW u, u = Spliced(t, s, n, e)
  PROVE  /\ Sub(u, s, s + Len(n)) = n
         /\ Spliced(u, s, m, s + Len(n)) = Spliced(t, s, m, e)
<1>1. Len(t) \in Nat /\ Len(n) \in Nat /\ Len(m) \in Nat
  BY LenProperties
<1>2. /\ u \in Seq(C) /\ Len(u) = Len(t) - (e - s) + Len(n)
      /\ \A k \in 1..s : u[k] = t[k]
      /\ \A k \in 1..Len(n) : u[s + k] = n[k]
      /\ \A k \in 1..(Len(t) - e) : u[s + Len(n) + k] = t[e + k]
  <2>1. IsSplice(C, u, t, s, n, e)
    BY SplicedIs
  <2> QED BY <2>1 DEF IsSplice
<1>3. PICK f : f = s + Len(n)
  OBVIOUS
<1>4. s \in 0..Len(u) /\ f \in s..Len(u) /\ f - s = Len(n) /\ Len(u) - f = Len(t) - e
  BY <1>1, <1>2, <1>3
<1>5. Sub(u, s, f) = n
  <2>1. PICK v : v = Sub(u, s, f)
    OBVIOUS
  <2>2. v \in Seq(C) /\ Len(v) = Len(n) /\ \A k \in 1..Len(n) : v[k] = u[s + k]
    <3>1. u \in Seq(C) /\ s \in 0..Len(u) /\ f \in s..Len(u)
      BY <1>2, <1>4
    <3>2. /\ Sub(u, s, f) \in Seq(C) /\ Len(Sub(u, s, f)) = f - s
          /\ \A k \in 1..(f - s) : Sub(u, s, f)[k] = u[s + k]
      BY <3>1, SubFacts
    <3> QED BY <1>4, <2>1, <3>2
  <2>3. \A k \in 1..Len(v) : v[k] = n[k]
    BY <1>2, <2>2
  <2>4. v = n
    BY <2>2, <2>3, SeqEqual
  <2> QED BY <2>1, <2>4
<1>6. PICK v, w : v = Spliced(u, s, m, f) /\ w = Spliced(t, s, m, e)
  OBVIOUS
<1>7. IsSplice(C, v, u, s, m, f)
  BY <1>2, <1>4, <1>6, SplicedIs
<1>8. IsSplice(C, w, t, s, m, e)
  BY <1>6, SplicedIs
<1>9. v \in Seq(C) /\ w \in Seq(C)
  BY <1>7, <1>8 DEF IsSplice
<1>10. Len(v) = s + Len(m) + (Len(t) - e) /\ Len(w) = s + Len(m) + (Len(t) - e)
  <2>1. Len(v) = Len(u) - (f - s) + Len(m) /\ Len(w) = Len(t) - (e - s) + Len(m)
    BY <1>7, <1>8 DEF IsSplice
  <2> QED BY <1>1, <1>2, <1>4, <2>1
<1>11. \A k \in 1..s : v[k] = w[k]
  BY <1>2, <1>7, <1>8 DEF IsSplice
<1>12. \A k \in 1..Len(m) : v[s + k] = w[s + k]
  BY <1>7, <1>8 DEF IsSplice
<1>13. \A k \in 1..(Len(t) - e) : v[s + Len(m) + k] = w[s + Len(m) + k]
  <2> SUFFICES ASSUME NEW k \in 1..(Len(t) - e)
               PROVE  v[s + Len(m) + k] = w[s + Len(m) + k]
    OBVIOUS
  <2>1. v[s + Len(m) + k] = u[f + k]
    BY <1>4, <1>7 DEF IsSplice
  <2>2. u[f + k] = t[e + k]
    BY <1>2, <1>3
  <2>3. w[s + Len(m) + k] = t[e + k]
    BY <1>8 DEF IsSplice
  <2> QED BY <2>1, <2>2, <2>3
<1>14. \A k \in 1..Len(v) : v[k] = w[k]
  <2> SUFFICES ASSUME NEW k \in 1..Len(v) PROVE v[k] = w[k]
    OBVIOUS
  <2>1. CASE k \in 1..s
    BY <2>1, <1>11
  <2>2. CASE k - s \in 1..Len(m)
    <3>1. s + (k - s) = k
      BY <1>1
    <3> QED BY <2>2, <3>1, <1>12
  <2>3. CASE k - (s + Len(m)) \in 1..(Len(t) - e)
    <3>1. s + Len(m) + (k - (s + Len(m))) = k
      BY <1>1
    <3> QED BY <2>3, <3>1, <1>13
  <2>4. \/ k \in 1..s
        \/ k - s \in 1..Len(m)
        \/ k - (s + Len(m)) \in 1..(Len(t) - e)
    BY <1>1, <1>10
  <2> QED BY <2>1, <2>2, <2>3, <2>4
<1>15. v = w
  BY <1>9, <1>10, <1>14, SeqEqual
<1> QED BY <1>3, <1>5, <1>6, <1>15

LEMMA SplicedBack ==
  ASSUME NEW C, NEW t \in Seq(C), NEW s \in 0..Len(t), NEW e \in s..Len(t)
  PROVE  Spliced(t, s, Sub(t, s, e), e) = t
<1>1. Len(t) \in Nat
  BY LenProperties
<1>2. 0 \in 0..Len(t) /\ s \in 0..Len(t) /\ e \in s..Len(t) /\ e \in 0..Len(t)
      /\ Len(t) \in e..Len(t)
  BY <1>1
<1>3. Sub(t, 0, s) \o Sub(t, s, e) = Sub(t, 0, e)
  BY <1>2, Adjacent
<1>4. Sub(t, 0, e) \o Sub(t, e, Len(t)) = Sub(t, 0, Len(t))
  BY <1>2, Adjacent
<1>5. Sub(t, 0, Len(t)) = t
  BY WholeIs
<1> QED BY <1>3, <1>4, <1>5, Zenon DEF Spliced

LEMMA Offsets ==
  ASSUME NEW s \in Nat, NEW l \in Nat, NEW d \in Nat, NEW x \in Nat, x <= s + l
  PROVE  /\ s + l + d \in Nat /\ x <= s + l + d /\ (s + l + d) - (s + l) = d
         /\ s <= x => /\ s \in 0..x /\ x \in 0..(s + l + d)
                      /\ s + l \in x..(s + l + d)
OBVIOUS

LEMMA PressAgain ==
  ASSUME NEW t \in Seq(Characters), NEW c \in 0..Len(t), NEW s, NEW e, LineOf(t, c, s, e),
         NEW n \in Seq(Characters), OneLine(n), NEW x \in s..(s + Len(n)), x > 0,
         NEW kind, NEW m \in Seq(Characters), NEW y \in 0..(s + Len(m)),
         PressLine(n, x, s, kind) = [text |-> m, caret |-> y],
         NEW edit, edit = [text |-> Spliced(t, s, n, e), caret |-> x]
  PROVE  Press(edit, kind) = [text |-> Spliced(t, s, m, e), caret |-> y]
<1>1. Len(t) \in Nat /\ Len(n) \in Nat /\ Len(m) \in Nat
  BY LenProperties
<1>2. /\ s \in 0..Len(t) /\ e \in s..Len(t) /\ s \in 0..c
      /\ s = 0 \/ t[s] = NL
      /\ e = Len(t) \/ t[e + 1] = NL
  BY <1>1 DEF LineOf
<1>3. PICK u : u = Spliced(t, s, n, e)
  OBVIOUS
<1>4. IsSplice(Characters, u, t, s, n, e)
  <2>1. s \in 0..Len(t) /\ e \in s..Len(t)
    BY <1>2
  <2> QED BY <1>3, <2>1, SplicedIs
<1>5. u \in Seq(Characters) /\ Len(u) = Len(t) - (e - s) + Len(n)
  BY <1>4 DEF IsSplice
<1>6. PICK f : f = s + Len(n)
  OBVIOUS
<1>7. s \in 0..x /\ f \in x..Len(u) /\ x \in 0..Len(u) /\ Len(u) - f = Len(t) - e
  <2>1. s \in Nat /\ x \in Nat /\ s <= x /\ x <= s + Len(n) /\ e \in Nat /\ e <= Len(t)
    BY <1>1, <1>2
  <2>2. Len(u) = s + Len(n) + (Len(t) - e)
    BY <1>1, <1>5, <2>1
  <2>3. Len(t) - e \in Nat
    BY <1>1, <2>1
  <2>4. /\ (s + Len(n) + (Len(t) - e)) - (s + Len(n)) = Len(t) - e
        /\ s \in 0..x /\ x \in 0..(s + Len(n) + (Len(t) - e))
        /\ s + Len(n) \in x..(s + Len(n) + (Len(t) - e))
    BY <1>1, <2>1, <2>3, Offsets
  <2> QED BY <1>6, <2>2, <2>4, Zenon
<1>8. LineOf(u, x, s, f)
  <2>1. \A k \in (s + 1)..f : u[k] # NL
    <3> SUFFICES ASSUME NEW k \in (s + 1)..f PROVE u[k] # NL
      OBVIOUS
    <3>1. k - s \in 1..Len(n) /\ s + (k - s) = k
      BY <1>1, <1>2, <1>6
    <3>2. u[s + (k - s)] = n[k - s]
      BY <1>4, <3>1 DEF IsSplice
    <3>3. n[k - s] # NL
      BY <3>1 DEF OneLine
    <3> QED BY <3>1, <3>2, <3>3
  <2>2. s = 0 \/ u[s] = NL
    <3>1. s # 0 => s \in 1..s
      BY <1>2
    <3>2. s # 0 => u[s] = t[s]
      BY <1>4, <3>1 DEF IsSplice
    <3> QED BY <1>2, <3>2
  <2>3. f = Len(u) \/ u[f + 1] = NL
    <3>1. CASE e = Len(t)
      BY <1>1, <1>2, <1>5, <1>6, <3>1
    <3>2. CASE e # Len(t)
      <4>1. 1 \in 1..(Len(t) - e)
        BY <1>1, <1>2, <3>2
      <4>2. u[s + Len(n) + 1] = t[e + 1]
        BY <1>4, <4>1 DEF IsSplice
      <4> QED BY <1>2, <1>6, <3>2, <4>2
    <3> QED BY <3>1, <3>2
  <2> QED BY <1>7, <2>1, <2>2, <2>3 DEF LineOf
<1>9. LineStart(u, x) = s /\ LineEnd(u, x) = f
  BY <1>5, <1>7, <1>8, LineIs
<1>10. Sub(u, s, f) = n
  <2>1. s \in 0..Len(t) /\ e \in s..Len(t)
    BY <1>2
  <2> QED BY <1>3, <1>6, <2>1, SplicedAgain
<1>11. Spliced(u, s, m, f) = Spliced(t, s, m, e)
  <2>1. s \in 0..Len(t) /\ e \in s..Len(t)
    BY <1>2
  <2> QED BY <1>3, <1>6, <2>1, SplicedAgain
<1>12. y <= Len(Spliced(t, s, m, e)) /\ Len(Spliced(t, s, m, e)) \in Nat
  <2>1. s \in 0..Len(t) /\ e \in s..Len(t)
    BY <1>2
  <2>2. IsSplice(Characters, Spliced(t, s, m, e), t, s, m, e)
    BY <2>1, SplicedIs
  <2>3. Len(Spliced(t, s, m, e)) = Len(t) - (e - s) + Len(m)
    BY <2>2 DEF IsSplice
  <2>4. s \in Nat /\ e \in Nat /\ e <= Len(t) /\ y \in Nat /\ y <= s + Len(m)
    BY <1>1, <1>2
  <2>5. Len(Spliced(t, s, m, e)) = s + Len(m) + (Len(t) - e)
    BY <1>1, <2>3, <2>4
  <2>6. Len(t) - e \in Nat
    BY <1>1, <2>4
  <2>7. s + Len(m) + (Len(t) - e) \in Nat /\ y <= s + Len(m) + (Len(t) - e)
    BY <1>1, <2>4, <2>6, Offsets
  <2> QED BY <2>5, <2>7, Zenon
<1>13. edit.text = u /\ edit.caret = x
  BY <1>3
<1>14. PICK w : w = Spliced(t, s, m, e)
  OBVIOUS
<1>15. ToggleLinePrefix(u, x, kind)
         = [text |-> w, caret |-> IF y > Len(w) THEN Len(w) ELSE y]
  <2>1. PressLine(Sub(u, LineStart(u, x), LineEnd(u, x)), x, LineStart(u, x), kind)
          = [text |-> m, caret |-> y]
    BY <1>9, <1>10, Zenon
  <2>2. Spliced(u, LineStart(u, x), m, LineEnd(u, x)) = w
    BY <1>9, <1>11, <1>14, Zenon
  <2>3. [text |-> m, caret |-> y].text = m /\ [text |-> m, caret |-> y].caret = y
    OBVIOUS
  <2> QED BY <2>1, <2>2, <2>3, ToggleIs, Zenon
<1>16. (IF y > Len(w) THEN Len(w) ELSE y) = y
  BY <1>1, <1>2, <1>12, <1>14
<1> QED BY <1>13, <1>14, <1>15, <1>16 DEF Press

(* A prefix that a press has put in is taken out by the next one.            *)
LEMMA PlainTakesBack ==
  ASSUME NEW t \in Seq(Characters), NEW c \in 0..Len(t), ~Throws(t, c),
         NEW kind \in PrefixKinds \ {"HEADING"}, NEW now, now = [text |-> t, caret |-> c],
         NEW once, once = Press(now, kind), Len(once.text) > Len(t)
  PROVE  Press(once, kind) = now
<1>1. PICK s, e, line, n, x : PressOf(t, c, kind, s, e, line, n, x)
  BY PressIs
<1>2. /\ once = [text |-> Spliced(t, s, n, e), caret |-> x]
      /\ once.text = Spliced(t, s, n, e)
  BY <1>1 DEF PressOf, Press
<1>3. /\ line \in Seq(Characters) /\ n \in Seq(Characters)
      /\ Len(t) \in Nat /\ Len(n) \in Nat /\ Len(line) \in Nat
  BY <1>1, LenProperties DEF PressOf, Pressed
<1>4. LineOf(t, c, s, e) /\ line = Sub(t, s, e) /\ Len(line) = e - s /\ OneLine(line)
      /\ PressLine(line, c, s, kind) = [text |-> n, caret |-> x] /\ OneLine(n)
  BY <1>1 DEF PressOf, Pressed
<1>5. s \in 0..Len(t) /\ e \in s..Len(t) /\ s \in 0..c /\ e \in c..Len(t)
  BY <1>3, <1>4 DEF LineOf
<1>6. Len(n) > Len(line)
  <2>1. IsSplice(Characters, Spliced(t, s, n, e), t, s, n, e)
    BY <1>3, <1>5, SplicedIs
  <2>2. Len(Spliced(t, s, n, e)) = Len(t) - (e - s) + Len(n)
    BY <2>1 DEF IsSplice
  <2>3. Len(t) - (e - s) + Len(n) > Len(t)
    BY <1>2, <2>2
  <2>4. Len(n) > e - s
    BY <1>3, <1>5, <2>3
  <2> QED BY <1>4, <2>4
<1>7. PICK p : p = PlainPrefix(kind)
  OBVIOUS
<1>8. p \in Seq(Characters) /\ Len(p) \in 2..4 /\ \A k \in 1..Len(p) : p[k] \notin Plain
  <2>1. p \in Seq(Characters) /\ Len(p) \in 2..4
    BY <1>7, MarkFacts
  <2>2. \A k \in 1..Len(p) : p[k] \in {SP, "-", ">", "box"}
    BY <1>7, MarkFacts
  <2>3. \A k \in 1..Len(p) : p[k] \notin Plain
    BY <2>2 DEF Plain, NL, SP
  <2> QED BY <2>1, <2>3
<1>9. \A l, y : PressLine(l, y, s, kind) = TogglePlainPrefix(l, y, p)
  BY <1>7 DEF PressLine
<1>10. n = p \o line /\ x = c + Len(p)
  <2>1. CASE StandsAt(line, 0, p)
    <3>1. 0 + Len(p) <= Len(line) /\ \A k \in 1..Len(p) : line[0 + k] = p[k]
      BY <1>3, <1>8, <2>1, StandsFacts
    <3>2. Len(p) \in 0..Len(line) /\ \A k \in 1..Len(p) : line[k] \notin Plain
      BY <1>3, <1>8, <3>1
    <3>3. Len(Sub(line, Len(p), Len(line))) = Len(line) - Len(p)
      BY <1>3, <3>2, TakeAway
    <3>4. n = Sub(line, Len(p), Len(line))
      BY <1>4, <1>9, <2>1 DEF TogglePlainPrefix
    <3>5. Len(n) = Len(line) - Len(p)
      BY <3>3, <3>4
    <3> QED BY <1>3, <1>6, <3>2, <3>5
  <2>2. CASE ~StandsAt(line, 0, p)
    <3>1. TogglePlainPrefix(line, c, p) = [text |-> p \o line, caret |-> c + Len(p)]
      BY <2>2 DEF TogglePlainPrefix
    <3>2. [text |-> n, caret |-> x] = [text |-> p \o line, caret |-> c + Len(p)]
      BY <1>4, <1>9, <3>1, Zenon
    <3> QED BY <3>2
  <2> QED BY <2>1, <2>2
<1>11. Len(n) = Len(p) + Len(line) /\ Sub(n, Len(p), Len(n)) = line
       /\ \A k \in 1..Len(p) : n[k] = p[k]
  BY <1>3, <1>8, <1>10, PutBefore
<1>12. PressLine(n, x, s, kind) = [text |-> line, caret |-> c]
  <2>1. StandsAt(n, 0, p)
    <3>1. 0 + Len(p) <= Len(n) /\ \A k \in 1..Len(p) : n[0 + k] = p[k]
      BY <1>3, <1>8, <1>11
    <3> QED BY <1>3, <1>8, <3>1, StandsFacts
  <2>2. TogglePlainPrefix(n, x, p) = [text |-> line,
                                      caret |-> IF x > Len(p) THEN x - Len(p) ELSE 0]
    BY <1>11, <2>1 DEF TogglePlainPrefix
  <2>3. (IF x > Len(p) THEN x - Len(p) ELSE 0) = c
    <3>1. c \in Nat /\ Len(p) \in Nat
      BY <1>3, <1>8
    <3>2. \A l \in Nat : (IF c + l > l THEN (c + l) - l ELSE 0) = c
      BY <3>1
    <3> QED BY <1>10, <3>1, <3>2
  <2> QED BY <1>9, <2>2, <2>3
<1>13. x \in s..(s + Len(n)) /\ x > 0 /\ c \in 0..(s + Len(line))
  <2>1. s \in Nat /\ c \in Nat /\ s <= c /\ c <= s + Len(line) /\ Len(p) \in Nat /\ Len(p) > 0
    <3>1. s \in Nat /\ c \in Nat /\ s <= c /\ c <= e /\ e \in Nat
      BY <1>3, <1>5
    <3>2. e = s + Len(line)
      BY <1>3, <1>4, <3>1
    <3>3. Len(p) \in Nat /\ Len(p) > 0
      BY <1>8
    <3> QED BY <3>1, <3>2, <3>3
  <2>2. \A l \in Nat : l > 0 => /\ c + l \in s..(s + (l + Len(line))) /\ c + l > 0
                                /\ c \in 0..(s + Len(line))
    BY <1>3, <2>1
  <2> QED BY <1>10, <1>11, <2>1, <2>2
<1>14. Press(once, kind) = [text |-> Spliced(t, s, line, e), caret |-> c]
  BY <1>2, <1>3, <1>4, <1>12, <1>13, PressAgain
<1>15. Spliced(t, s, line, e) = t
  BY <1>4, <1>5, SplicedBack
<1> QED BY <1>14, <1>15

(* The headings: one hash more at each press, and the fourth takes them out. *)
HashStep(line, h, x, s, n) ==
  /\ n \in Seq(Characters) /\ OneLine(n) /\ Len(n) = Len(line) + 1
  /\ HeadingPrefix(n) = h + 1
  /\ PressLine(line, x, s, "HEADING") = [text |-> n, caret |-> x + 1]
  /\ \A m \in Seq(Characters) : Sub(line, h, Len(line)) = m => Sub(n, h + 1, Len(n)) = m

LEMMA HashBefore ==
  ASSUME NEW line \in Seq(Characters), OneLine(line), NEW h \in 2..3, NEW x \in Nat, NEW s \in Nat,
         HeadingPrefix(line) = h
  PROVE  \E n : HashStep(line, h, x, s, n)
<1>1. Len(line) \in Nat
  BY LenProperties
<1>2. PICK p \in Seq(Characters) : p = <<"#">>
  <2>1. <<"#">> \in Seq(Characters)
    BY DEF Characters
  <2> QED BY <2>1
<1>3. Len(p) = 1 /\ p[1] = "#" /\ \A k \in 1..Len(p) : p[k] \notin Plain
  BY <1>2 DEF Plain, NL
<1>4. PICK n : n = p \o line
  OBVIOUS
<1>5. /\ n \in Seq(Characters) /\ Len(n) = Len(p) + Len(line) /\ OneLine(n)
      /\ \A k \in 1..Len(p) : n[k] = p[k]
      /\ \A k \in 1..Len(line) : n[Len(p) + k] = line[k]
  BY <1>3, <1>4, PutBefore
<1>6. Len(n) = Len(line) + 1 /\ n[1] = "#" /\ \A k \in 1..Len(line) : n[1 + k] = line[k]
  BY <1>1, <1>3, <1>5
<1>7. h <= Len(line) /\ line[h] = SP /\ \A k \in 1..(h - 1) : line[k] = "#"
  BY HeadingFacts
<1>8. HeadingPrefix(n) = h + 1
  <2>1. n[h + 1] = SP /\ h + 1 <= Len(n)
    BY <1>1, <1>6, <1>7
  <2>2. \A k \in 1..((h + 1) - 1) : n[k] = "#"
    <3> SUFFICES ASSUME NEW k \in 1..h, k # 1 PROVE n[k] = "#"
      BY <1>6
    <3>1. k - 1 \in 1..Len(line) /\ 1 + (k - 1) = k /\ k - 1 \in 1..(h - 1)
      BY <1>1, <1>7
    <3> QED BY <1>6, <1>7, <3>1
  <2>3. h + 1 \in 2..4
    OBVIOUS
  <2> QED BY <1>5, <2>1, <2>2, <2>3, HeadingIs
<1>9. PressLine(line, x, s, "HEADING") = [text |-> n, caret |-> x + 1]
  <2>1. HeadingPrefix(line) \in 2..3 /\ HeadingPrefix(line) # 0
    OBVIOUS
  <2>2. CycleHeading(line, x, s) = [text |-> <<"#">> \o line, caret |-> x + 1]
    BY <2>1 DEF CycleHeading
  <2> QED BY <1>2, <1>4, <2>2 DEF PressLine
<1>10. ASSUME NEW m \in Seq(Characters), Sub(line, h, Len(line)) = m
       PROVE  Sub(n, h + 1, Len(n)) = m
  <2>1. h \in 0..Len(line) /\ Len(line) \in h..Len(line)
    BY <1>1, <1>7
  <2>2. Len(m) = Len(line) - h /\ \A k \in 1..(Len(line) - h) : m[k] = line[h + k]
    BY <1>10, <2>1, SubFacts
  <2>3. h + 1 \in 0..Len(n) /\ Len(n) \in (h + 1)..Len(n) /\ Len(n) - (h + 1) = Len(line) - h
    BY <1>1, <1>6, <1>7
  <2>4. PICK v : v = Sub(n, h + 1, Len(n))
    OBVIOUS
  <2>5. v \in Seq(Characters) /\ Len(v) = Len(line) - h
        /\ \A k \in 1..(Len(line) - h) : v[k] = n[(h + 1) + k]
    <3>1. n \in Seq(Characters) /\ h + 1 \in 0..Len(n) /\ Len(n) \in (h + 1)..Len(n)
      BY <1>5, <2>3
    <3>2. /\ Sub(n, h + 1, Len(n)) \in Seq(Characters)
          /\ Len(Sub(n, h + 1, Len(n))) = Len(n) - (h + 1)
          /\ \A k \in 1..(Len(n) - (h + 1)) : Sub(n, h + 1, Len(n))[k] = n[(h + 1) + k]
      BY <3>1, SubFacts
    <3> QED BY <2>3, <2>4, <3>2
  <2>6. \A k \in 1..(Len(line) - h) : v[k] = m[k]
    <3> SUFFICES ASSUME NEW k \in 1..(Len(line) - h) PROVE v[k] = m[k]
      OBVIOUS
    <3>1. h + k \in 1..Len(line) /\ 1 + (h + k) = (h + 1) + k
      BY <1>1, <1>7
    <3>2. n[1 + (h + k)] = line[h + k]
      BY <1>6, <3>1
    <3> QED BY <2>2, <2>5, <3>1, <3>2
  <2>7. v = m
    BY <2>2, <2>5, <2>6, SeqEqual
  <2> QED BY <2>4, <2>7
<1>11. HashStep(line, h, x, s, n)
  BY <1>5, <1>6, <1>8, <1>9, <1>10 DEF HashStep
<1> QED BY <1>11

LEMMA Climb ==
  ASSUME NEW s \in Nat, NEW c \in Nat, NEW l \in Nat, s <= c, c <= s + l
  PROVE  /\ c + 2 \in s..(s + (l + 2)) /\ c + 2 > 0
         /\ (c + 2) + 1 \in s..(s + (l + 3)) /\ (c + 2) + 1 > 0
         /\ (c + 2) + 1 \in 0..(s + (l + 3))
         /\ ((c + 2) + 1) + 1 \in s..(s + (l + 4)) /\ ((c + 2) + 1) + 1 > 0
         /\ ((c + 2) + 1) + 1 \in 0..(s + (l + 4))
         /\ c \in 0..(s + l)
OBVIOUS

LEMMA HeadingTakesBack ==
  ASSUME NEW t \in Seq(Characters), NEW c \in 0..Len(t), ~Throws(t, c),
         HeadingPrefix(Sub(t, LineStart(t, c), LineEnd(t, c))) = 0,
         NEW now, now = [text |-> t, caret |-> c]
  PROVE  Press(Press(Press(Press(now, "HEADING"), "HEADING"), "HEADING"), "HEADING") = now
<1>1. PICK s, e, line, n, x : PressOf(t, c, "HEADING", s, e, line, n, x)
  BY PressIs DEF PrefixKinds
<1>2. Press(now, "HEADING") = [text |-> Spliced(t, s, n, e), caret |-> x]
  BY <1>1 DEF PressOf, Press
<1>3. /\ line \in Seq(Characters) /\ n \in Seq(Characters)
      /\ Len(t) \in Nat /\ Len(n) \in Nat /\ Len(line) \in Nat
  BY <1>1, LenProperties DEF PressOf, Pressed
<1>4. LineOf(t, c, s, e) /\ line = Sub(t, s, e) /\ Len(line) = e - s /\ OneLine(line)
      /\ PressLine(line, c, s, "HEADING") = [text |-> n, caret |-> x] /\ OneLine(n)
  BY <1>1 DEF PressOf, Pressed
<1>5. HeadingPrefix(line) = 0
  BY <1>1 DEF PressOf
<1>6. s \in 0..Len(t) /\ e \in s..Len(t) /\ s \in 0..c /\ e \in c..Len(t)
  BY <1>3, <1>4 DEF LineOf
<1>7. s \in Nat /\ c \in Nat /\ s <= c /\ c <= s + Len(line)
  <2>1. s \in Nat /\ c \in Nat /\ e \in Nat /\ s <= c /\ c <= e
    BY <1>3, <1>6
  <2>2. e = s + Len(line)
    BY <1>3, <1>4, <2>1
  <2> QED BY <2>1, <2>2
<1>8. PICK p \in Seq(Characters) : p = <<"#", SP>>
  <2>1. <<"#", SP>> \in Seq(Characters)
    BY DEF Characters, Whitespace, SP
  <2> QED BY <2>1
<1>9. Len(p) = 2 /\ p[1] = "#" /\ p[2] = SP /\ \A k \in 1..Len(p) : p[k] \notin Plain
  BY <1>8 DEF Plain, NL, SP
<1>10. n = p \o line /\ x = c + 2
  <2>1. CycleHeading(line, c, s) = [text |-> <<"#", SP>> \o line, caret |-> c + 2]
    BY <1>5 DEF CycleHeading
  <2>2. PressLine(line, c, s, "HEADING") = CycleHeading(line, c, s)
    BY DEF PressLine
  <2>3. [text |-> n, caret |-> x] = [text |-> p \o line, caret |-> c + 2]
    BY <1>4, <1>8, <2>1, <2>2, Zenon
  <2> QED BY <2>3
<1>11. /\ Len(n) = Len(line) + 2 /\ n[1] = "#" /\ n[2] = SP
       /\ Sub(n, 2, Len(n)) = line
  <2>1. /\ Len(n) = Len(p) + Len(line)
        /\ \A k \in 1..Len(p) : n[k] = p[k]
        /\ Sub(n, Len(p), Len(n)) = line
    <3>1. /\ Len(p \o line) = Len(p) + Len(line)
          /\ \A k \in 1..Len(p) : (p \o line)[k] = p[k]
          /\ Sub(p \o line, Len(p), Len(p \o line)) = line
      BY <1>3, <1>9, PutBefore
    <3> QED BY <1>10, <3>1, Zenon
  <2> QED BY <1>3, <1>9, <2>1
<1>12. HeadingPrefix(n) = 2
  <2>1. 2 <= Len(n) /\ \A k \in 1..(2 - 1) : n[k] = "#"
    BY <1>3, <1>11
  <2>2. 2 \in 2..4
    OBVIOUS
  <2> QED BY <1>3, <1>11, <2>1, <2>2, HeadingIs
<1>13. PICK n2 : HashStep(n, 2, x, s, n2)
  <2>1. 2 \in 2..3 /\ x \in Nat
    BY <1>7, <1>10
  <2> QED BY <1>3, <1>4, <1>7, <1>12, <2>1, HashBefore
<1>14. PICK n3 : HashStep(n2, 3, x + 1, s, n3)
  <2>1. 3 \in 2..3 /\ x + 1 \in Nat /\ 2 + 1 = 3
    BY <1>7, <1>10
  <2>2. n2 \in Seq(Characters) /\ OneLine(n2) /\ HeadingPrefix(n2) = 3
    BY <1>13, <2>1 DEF HashStep
  <2> QED BY <1>7, <2>1, <2>2, HashBefore
<1>15. /\ n2 \in Seq(Characters) /\ OneLine(n2) /\ Len(n2) = Len(n) + 1
       /\ n3 \in Seq(Characters) /\ OneLine(n3) /\ Len(n3) = Len(n2) + 1
       /\ PressLine(n, x, s, "HEADING") = [text |-> n2, caret |-> x + 1]
       /\ PressLine(n2, x + 1, s, "HEADING") = [text |-> n3, caret |-> (x + 1) + 1]
  BY <1>13, <1>14 DEF HashStep
<1>16. HeadingPrefix(n3) = 4 /\ Sub(n3, 4, Len(n3)) = line
  <2>1. 2 + 1 = 3 /\ 3 + 1 = 4
    OBVIOUS
  <2>2. Sub(n2, 3, Len(n2)) = line
    BY <1>3, <1>11, <1>13, <2>1 DEF HashStep
  <2> QED BY <1>3, <1>14, <2>1, <2>2 DEF HashStep
<1>17. PressLine(n3, (x + 1) + 1, s, "HEADING") = [text |-> line, caret |-> c]
  <2>1. HeadingPrefix(n3) = 4
    BY <1>16
  <2>2. CycleHeading(n3, (x + 1) + 1, s)
          = [text |-> Sub(n3, 4, Len(n3)),
             caret |-> IF ((x + 1) + 1) - 4 > s THEN ((x + 1) + 1) - 4 ELSE s]
    BY <2>1 DEF CycleHeading
  <2>3. (IF ((x + 1) + 1) - 4 > s THEN ((x + 1) + 1) - 4 ELSE s) = c
    BY <1>7, <1>10
  <2> QED BY <1>16, <2>2, <2>3 DEF PressLine
<1>18. /\ x \in s..(s + Len(n)) /\ x > 0
       /\ x + 1 \in s..(s + Len(n2)) /\ x + 1 > 0 /\ x + 1 \in 0..(s + Len(n2))
       /\ (x + 1) + 1 \in s..(s + Len(n3)) /\ (x + 1) + 1 > 0 /\ (x + 1) + 1 \in 0..(s + Len(n3))
       /\ c \in 0..(s + Len(line))
  <2>1. Len(n2) = Len(line) + 3 /\ Len(n3) = Len(line) + 4
    BY <1>3, <1>11, <1>15
  <2>2. /\ c + 2 \in s..(s + (Len(line) + 2)) /\ c + 2 > 0
        /\ (c + 2) + 1 \in s..(s + (Len(line) + 3)) /\ (c + 2) + 1 > 0
        /\ (c + 2) + 1 \in 0..(s + (Len(line) + 3))
        /\ ((c + 2) + 1) + 1 \in s..(s + (Len(line) + 4)) /\ ((c + 2) + 1) + 1 > 0
        /\ ((c + 2) + 1) + 1 \in 0..(s + (Len(line) + 4))
        /\ c \in 0..(s + Len(line))
    BY <1>3, <1>7, Climb
  <2>3. Len(n) = Len(line) + 2
    BY <1>11
  <2>4. x \in s..(s + Len(n)) /\ x > 0
    BY <1>10, <2>2, <2>3, Zenon
  <2>5. x + 1 \in s..(s + Len(n2)) /\ x + 1 > 0 /\ x + 1 \in 0..(s + Len(n2))
    BY <1>10, <2>1, <2>2, Zenon
  <2>6. (x + 1) + 1 \in s..(s + Len(n3)) /\ (x + 1) + 1 > 0 /\ (x + 1) + 1 \in 0..(s + Len(n3))
    BY <1>10, <2>1, <2>2, Zenon
  <2> QED BY <2>2, <2>4, <2>5, <2>6
<1> DEFINE at(m, y) == [text |-> Spliced(t, s, m, e), caret |-> y]
<1>19. Press(at(n, x), "HEADING") = at(n2, x + 1)
  BY <1>3, <1>4, <1>18, <1>15, PressAgain
<1>20. Press(at(n2, x + 1), "HEADING") = at(n3, (x + 1) + 1)
  BY <1>4, <1>18, <1>15, PressAgain
<1>21. Press(at(n3, (x + 1) + 1), "HEADING") = at(line, c)
  <2>1. PICK z : z = (x + 1) + 1
    OBVIOUS
  <2>2. z \in s..(s + Len(n3)) /\ z > 0 /\ c \in 0..(s + Len(line))
    BY <1>18, <2>1, Zenon
  <2>3. PressLine(n3, z, s, "HEADING") = [text |-> line, caret |-> c]
    BY <1>17, <2>1, Zenon
  <2>4. n3 \in Seq(Characters) /\ OneLine(n3)
    BY <1>15
  <2>5. PICK edit : edit = at(n3, z)
    OBVIOUS
  <2>6. Press(edit, "HEADING") = at(line, c)
    BY <1>3, <1>4, <2>2, <2>3, <2>4, <2>5, PressAgain
  <2> QED BY <2>1, <2>5, <2>6, Zenon
<1>22. at(line, c) = now
  BY <1>4, <1>6, SplicedBack
<1>23. Press(now, "HEADING") = at(n, x)
  BY <1>2
<1> HIDE DEF at
<1> QED BY <1>19, <1>20, <1>21, <1>22, <1>23, Zenon

(* A marker around what is selected.                                         *)

InWord(t, c) == c < Len(t) /\ t[c + 1] \notin Whitespace

\* The word of an offset: from l up to r.
WordOf(t, c, l, r) ==
  /\ l \in 0..c /\ r \in (c + 1)..Len(t)
  /\ \A k \in (l + 1)..r : t[k] \notin Whitespace
  /\ l = 0 \/ t[l] \in Whitespace
  /\ r = Len(t) \/ t[r + 1] \in Whitespace

LEMMA MarkerFacts ==
  ASSUME NEW m \in Markers
  PROVE  /\ m \in Seq(Characters) /\ Len(m) \in 1..2 /\ Len(m) \in Nat
         /\ \A k \in 1..Len(m) : m[k] \notin Whitespace /\ m[k] \notin Plain
         /\ Words(m) = <<>>
<1>1. m \in Seq(Characters) /\ Len(m) \in 1..2
  BY MarkFacts
<1>2. \A k \in 1..Len(m) : m[k] \in {"*", "backtick"}
  BY MarkFacts
<1>3. \A k \in 1..Len(m) : m[k] \notin Whitespace /\ m[k] \notin Plain
  BY <1>2 DEF Whitespace, Plain, NL, SP
<1>4. Words(m) = <<>>
  BY <1>1, <1>3, WordsOfMarks
<1> QED BY <1>1, <1>3, <1>4

\* The markers in a row to the left of an offset, and to the right of it.
LeftRun(t, from, m) ==
  Greatest({k \in 0..Len(t) : \A j \in 1..k : StandsAt(t, from + j * (-Len(m)), m)})
RightRun(t, from, m) ==
  Greatest({k \in 0..Len(t) : \A j \in 1..k : StandsAt(t, (from - Len(m)) + j * Len(m), m)})
LeftEdge(t, c) == Least({i \in 0..c : \A j \in i..c : t[j + 1] \notin Whitespace})
RightEdge(t, c) ==
  Greatest({i \in c..Len(t) : \A j \in c..(i - 1) : t[j + 1] \notin Whitespace})

LEMMA BoundsAre ==
  ASSUME NEW t, NEW c, NEW m
  PROVE  SelectionBounds(t, c, m) =
           LET l == IF InWord(t, c) THEN LeftEdge(t, c) ELSE c
               r == IF InWord(t, c) THEN RightEdge(t, c) ELSE c
           IN [start |-> l - Len(m) * LeftRun(t, l, m), end |-> r + Len(m) * RightRun(t, r, m)]
BY DEF SelectionBounds, InWord, LeftEdge, RightEdge, LeftRun, RightRun

LEMMA EdgesFacts ==
  ASSUME NEW t \in Seq(Characters), NEW c \in 0..Len(t), InWord(t, c)
  PROVE  WordOf(t, c, LeftEdge(t, c), RightEdge(t, c))
<1>1. Len(t) \in Nat /\ c \in Nat /\ c < Len(t) /\ t[c + 1] \notin Whitespace
  BY LenProperties DEF InWord
<1> DEFINE L == {i \in 0..c : \A j \in i..c : t[j + 1] \notin Whitespace}
           R == {i \in c..Len(t) : \A j \in c..(i - 1) : t[j + 1] \notin Whitespace}
<1>2. c \in L /\ L \in SUBSET Nat
  BY <1>1
<1>3. PICK l : l = LeftEdge(t, c)
  OBVIOUS
<1>4. l \in L /\ \A x \in L : l <= x
  <2>1. Least(L) \in L /\ \A x \in L : Least(L) <= x
    <3> HIDE DEF L
    <3> QED BY <1>2, LeastOf
  <2> QED BY <1>3, <2>1 DEF LeftEdge
<1>5. c + 1 \in R /\ R \in SUBSET (0..Len(t))
  BY <1>1
<1>6. PICK r : r = RightEdge(t, c)
  OBVIOUS
<1>7. r \in R /\ \A x \in R : r >= x
  <2>1. Greatest(R) \in R /\ \A x \in R : Greatest(R) >= x
    <3> HIDE DEF R
    <3> QED BY <1>1, <1>5, GreatestOf
  <2> QED BY <1>6, <2>1 DEF RightEdge
<1>8. l \in 0..c /\ r \in (c + 1)..Len(t)
  BY <1>1, <1>4, <1>5, <1>7
<1>9. \A k \in (l + 1)..r : t[k] \notin Whitespace
  <2> SUFFICES ASSUME NEW k \in (l + 1)..r PROVE t[k] \notin Whitespace
    OBVIOUS
  <2>1. (k - 1) + 1 = k /\ (k - 1 \in l..c \/ k - 1 \in c..(r - 1))
    BY <1>1, <1>8
  <2> QED BY <1>4, <1>7, <2>1
<1>10. l = 0 \/ t[l] \in Whitespace
  <2> SUFFICES ASSUME l # 0, t[l] \notin Whitespace PROVE FALSE
    OBVIOUS
  <2>1. l - 1 \in 0..c /\ (l - 1) + 1 = l /\ ~(l <= l - 1)
    BY <1>1, <1>8
  <2>2. \A j \in (l - 1)..c : j = l - 1 \/ j \in l..c
    BY <1>1, <1>8
  <2>3. l - 1 \in L
    BY <1>4, <2>1, <2>2
  <2> QED BY <1>4, <2>1, <2>3
<1>11. r = Len(t) \/ t[r + 1] \in Whitespace
  <2> SUFFICES ASSUME r # Len(t), t[r + 1] \notin Whitespace PROVE FALSE
    OBVIOUS
  <2>1. r + 1 \in c..Len(t) /\ ~(r >= r + 1)
    BY <1>1, <1>8
  <2>2. \A j \in c..((r + 1) - 1) : j = r \/ j \in c..(r - 1)
    BY <1>1, <1>8
  <2>3. r + 1 \in R
    BY <1>7, <2>1, <2>2
  <2> QED BY <1>7, <2>1, <2>3
<1> QED BY <1>3, <1>6, <1>8, <1>9, <1>10, <1>11 DEF WordOf

LEMMA LeftRunFacts ==
  ASSUME NEW t \in Seq(Characters), NEW from \in 0..Len(t), NEW m \in Markers
  PROVE  /\ LeftRun(t, from, m) \in Nat /\ from - Len(m) * LeftRun(t, from, m) \in 0..from
         /\ from = 0 \/ t[from] \in Whitespace => LeftRun(t, from, m) = 0
<1>1. /\ Len(t) \in Nat /\ from \in Nat /\ m \in Seq(Characters) /\ Len(m) \in 1..2
      /\ \A k \in 1..Len(m) : m[k] \notin Whitespace
  BY LenProperties, MarkerFacts
<1>2. PICK w : w = Len(m)
  OBVIOUS
<1>3. w \in 1..2
  BY <1>1, <1>2
<1> DEFINE K == {k \in 0..Len(t) : \A j \in 1..k : StandsAt(t, from + j * (-w), m)}
<1>4. 0 \in K /\ K \in SUBSET (0..Len(t))
  BY <1>1
<1>5. PICK k : k = LeftRun(t, from, m)
  OBVIOUS
<1>6. k \in K
  <2>1. Greatest(K) \in K
    <3> HIDE DEF K
    <3> QED BY <1>1, <1>4, GreatestOf
  <2> QED BY <1>2, <1>5, <2>1 DEF LeftRun
<1>7. k \in Nat /\ \A j \in 1..k : from + j * (-w) \in Int /\ StandsAt(t, from + j * (-w), m)
  BY <1>1, <1>3, <1>6
<1>8. \A j \in 1..k : from + j * (-w) >= 0 /\ \A i \in 1..w : t[(from + j * (-w)) + i] = m[i]
  BY <1>1, <1>2, <1>7, StandsFacts
<1>9. from - w * k \in 0..from
  <2>1. CASE k = 0
    BY <1>1, <1>3, <2>1
  <2>2. CASE k # 0
    <3>1. from + k * (-w) >= 0
      BY <1>7, <1>8, <2>2
    <3>2. CASE w = 1
      BY <1>1, <1>7, <3>1, <3>2
    <3>3. CASE w = 2
      BY <1>1, <1>7, <3>1, <3>3
    <3> QED BY <1>3, <3>2, <3>3
  <2> QED BY <2>1, <2>2
<1>10. ASSUME from = 0 \/ t[from] \in Whitespace, k # 0 PROVE FALSE
  <2>1. from + 1 * (-w) >= 0 /\ t[(from + 1 * (-w)) + w] = m[w]
    <3>1. 1 \in 1..k /\ w \in 1..w
      BY <1>3, <1>7, <1>10
    <3> QED BY <1>8, <3>1
  <2>2. (from + 1 * (-w)) + w = from /\ from # 0
    BY <1>1, <1>3, <2>1
  <2>3. m[w] \notin Whitespace
    BY <1>1, <1>2, <1>3
  <2>4. t[from] = m[w]
    BY <2>1, <2>2
  <2> QED BY <1>10, <2>2, <2>3, <2>4
<1> QED BY <1>2, <1>5, <1>7, <1>9, <1>10

LEMMA RightRunFacts ==
  ASSUME NEW t \in Seq(Characters), NEW from \in 0..Len(t), NEW m \in Markers
  PROVE  /\ RightRun(t, from, m) \in Nat
         /\ from + Len(m) * RightRun(t, from, m) \in from..Len(t)
         /\ from = Len(t) \/ t[from + 1] \in Whitespace => RightRun(t, from, m) = 0
<1>1. /\ Len(t) \in Nat /\ from \in Nat /\ m \in Seq(Characters) /\ Len(m) \in 1..2
      /\ \A k \in 1..Len(m) : m[k] \notin Whitespace
  BY LenProperties, MarkerFacts
<1>2. PICK w : w = Len(m)
  OBVIOUS
<1>3. w \in 1..2
  BY <1>1, <1>2
<1> DEFINE K == {k \in 0..Len(t) : \A j \in 1..k : StandsAt(t, (from - w) + j * w, m)}
<1>4. 0 \in K /\ K \in SUBSET (0..Len(t))
  BY <1>1
<1>5. PICK k : k = RightRun(t, from, m)
  OBVIOUS
<1>6. k \in K
  <2>1. Greatest(K) \in K
    <3> HIDE DEF K
    <3> QED BY <1>1, <1>4, GreatestOf
  <2> QED BY <1>2, <1>5, <2>1 DEF RightRun
<1>7. k \in Nat /\ \A j \in 1..k : /\ (from - w) + j * w \in Int
                                   /\ StandsAt(t, (from - w) + j * w, m)
  BY <1>1, <1>3, <1>6
<1>8. \A j \in 1..k : /\ ((from - w) + j * w) + w <= Len(t)
                      /\ \A i \in 1..w : t[((from - w) + j * w) + i] = m[i]
  BY <1>1, <1>2, <1>7, StandsFacts
<1>9. from + w * k \in from..Len(t)
  <2>1. CASE k = 0
    BY <1>1, <1>3, <2>1
  <2>2. CASE k # 0
    <3>1. ((from - w) + k * w) + w <= Len(t)
      BY <1>7, <1>8, <2>2
    <3>2. CASE w = 1
      BY <1>1, <1>7, <3>1, <3>2
    <3>3. CASE w = 2
      BY <1>1, <1>7, <3>1, <3>3
    <3> QED BY <1>3, <3>2, <3>3
  <2> QED BY <2>1, <2>2
<1>10. ASSUME from = Len(t) \/ t[from + 1] \in Whitespace, k # 0 PROVE FALSE
  <2>1. ((from - w) + 1 * w) + w <= Len(t) /\ t[((from - w) + 1 * w) + 1] = m[1]
    <3>1. 1 \in 1..k /\ 1 \in 1..w
      BY <1>3, <1>7, <1>10
    <3> QED BY <1>8, <3>1
  <2>2. ((from - w) + 1 * w) + 1 = from + 1 /\ from # Len(t)
    BY <1>1, <1>3, <2>1
  <2>3. m[1] \notin Whitespace
    BY <1>1, <1>2, <1>3
  <2>4. t[from + 1] = m[1]
    BY <2>1, <2>2
  <2> QED BY <1>10, <2>2, <2>3, <2>4
<1> QED BY <1>2, <1>5, <1>7, <1>9, <1>10

\* Where a marker goes.
Selection(t, c, m, s, e) ==
  /\ s \in 0..c /\ e \in c..Len(t)
  /\ SelectionBounds(t, c, m) = [start |-> s, end |-> e]

LEMMA SelectionFacts ==
  ASSUME NEW t \in Seq(Characters), NEW c \in 0..Len(t), NEW m \in Markers
  PROVE  /\ \E s, e : Selection(t, c, m, s, e)
         /\ InWord(t, c) => Selection(t, c, m, LeftEdge(t, c), RightEdge(t, c))
<1>1. Len(t) \in Nat /\ c \in Nat
  BY LenProperties
<1>2. PICK l, r : /\ l = (IF InWord(t, c) THEN LeftEdge(t, c) ELSE c)
                  /\ r = (IF InWord(t, c) THEN RightEdge(t, c) ELSE c)
  OBVIOUS
<1>3. l \in 0..c /\ r \in c..Len(t)
  <2>1. CASE InWord(t, c)
    <3>1. WordOf(t, c, l, r)
      BY <1>2, <2>1, EdgesFacts
    <3> QED BY <1>1, <3>1 DEF WordOf
  <2>2. CASE ~InWord(t, c)
    BY <1>1, <1>2, <2>2
  <2> QED BY <2>1, <2>2
<1>4. l \in 0..Len(t) /\ r \in 0..Len(t)
  BY <1>1, <1>3
<1>5. PICK s, e : s = l - Len(m) * LeftRun(t, l, m) /\ e = r + Len(m) * RightRun(t, r, m)
  OBVIOUS
<1>6. s \in 0..l /\ e \in r..Len(t)
  BY <1>4, <1>5, LeftRunFacts, RightRunFacts
<1>7. SelectionBounds(t, c, m) = [start |-> s, end |-> e]
  BY <1>2, <1>5, BoundsAre, Zenon
<1>8. Selection(t, c, m, s, e)
  BY <1>1, <1>3, <1>6, <1>7 DEF Selection
<1>9. ASSUME InWord(t, c) PROVE s = l /\ e = r
  <2>1. WordOf(t, c, l, r)
    BY <1>2, <1>9, EdgesFacts
  <2>2. LeftRun(t, l, m) = 0 /\ RightRun(t, r, m) = 0
    <3>1. (l = 0 \/ t[l] \in Whitespace) /\ (r = Len(t) \/ t[r + 1] \in Whitespace)
      BY <2>1 DEF WordOf
    <3> QED BY <1>4, <3>1, LeftRunFacts, RightRunFacts
  <2>3. Len(m) \in Nat /\ l \in Int /\ r \in Int
    BY <1>1, <1>3, MarkerFacts
  <2>4. \A w \in Nat : l - w * 0 = l /\ r + w * 0 = r
    BY <2>3
  <2> QED BY <1>5, <2>2, <2>3, <2>4
<1> QED BY <1>2, <1>8, <1>9

LEMMA WordIs ==
  ASSUME NEW t \in Seq(Characters), NEW c \in 0..Len(t), NEW l, NEW r, WordOf(t, c, l, r)
  PROVE  InWord(t, c) /\ LeftEdge(t, c) = l /\ RightEdge(t, c) = r
<1>1. Len(t) \in Nat /\ c \in Nat
  BY LenProperties
<1>2. l \in 0..c /\ r \in (c + 1)..Len(t) /\ l \in Nat /\ r \in Nat
  BY <1>1 DEF WordOf
<1>3. c + 1 \in (l + 1)..r
  BY <1>1, <1>2
<1>4. InWord(t, c)
  BY <1>1, <1>2, <1>3 DEF WordOf, InWord
<1>5. PICK a, b : a = LeftEdge(t, c) /\ b = RightEdge(t, c)
  OBVIOUS
<1>6. WordOf(t, c, a, b)
  BY <1>4, <1>5, EdgesFacts
<1>7. a \in 0..c /\ b \in (c + 1)..Len(t) /\ a \in Nat /\ b \in Nat
  BY <1>1, <1>6 DEF WordOf
<1>8. ~(a < l)
  <2>1. a < l => l \in (a + 1)..b /\ l # 0
    BY <1>1, <1>2, <1>7
  <2> QED BY <1>6, <2>1 DEF WordOf
<1>9. ~(l < a)
  <2>1. l < a => a \in (l + 1)..r /\ a # 0
    BY <1>1, <1>2, <1>7
  <2> QED BY <1>6, <2>1 DEF WordOf
<1>10. ~(r < b)
  <2>1. r < b => r + 1 \in (a + 1)..b /\ r # Len(t)
    BY <1>1, <1>2, <1>7
  <2> QED BY <1>6, <2>1 DEF WordOf
<1>11. ~(b < r)
  <2>1. b < r => b + 1 \in (l + 1)..r /\ b # Len(t)
    BY <1>1, <1>2, <1>7
  <2> QED BY <1>6, <2>1 DEF WordOf
<1> QED BY <1>2, <1>4, <1>5, <1>7, <1>8, <1>9, <1>10, <1>11

\* What is selected carries the marker on both ends.
Carries(t, m, s, e) ==
  /\ e - s >= 2 * Len(m)
  /\ StandsAt(t, s, m) /\ StandsAt(t, e - Len(m), m)

LEMMA WrapIs ==
  ASSUME NEW t, NEW c, NEW m, NEW s, NEW e, SelectionBounds(t, c, m) = [start |-> s, end |-> e]
  PROVE  ToggleWrap(t, c, m) =
           IF Carries(t, m, s, e)
             THEN [text |-> Spliced(t, s, Sub(t, s + Len(m), e - Len(m)), e), caret |-> s]
             ELSE [text  |-> Spliced(t, s, m \o Sub(t, s, e) \o m, e),
                   caret |-> IF s = e THEN s + Len(m) ELSE e + 2 * Len(m)]
<1>1. PICK b : b = SelectionBounds(t, c, m)
  OBVIOUS
<1>2. b.start = s /\ b.end = e
  BY <1>1
<1>3. Wrapped(t, b, m) <=> Carries(t, m, s, e)
  BY <1>2 DEF Wrapped, Carries
<1>4. ToggleWrap(t, c, m) =
        IF Wrapped(t, b, m)
          THEN [text |-> Spliced(t, b.start, Sub(t, b.start + Len(m), b.end - Len(m)), b.end),
                caret |-> b.start]
          ELSE [text  |-> Spliced(t, b.start, m \o Sub(t, b.start, b.end) \o m, b.end),
                caret |-> IF b.start = b.end THEN b.start + Len(m) ELSE b.end + 2 * Len(m)]
  BY <1>1, Zenon DEF ToggleWrap
<1> QED BY <1>2, <1>3, <1>4, Zenon

(* What a press of a marker puts for what is selected.                       *)
WrapOf(t, c, m, s, e, n, x) ==
  /\ s \in 0..c /\ e \in c..Len(t)
  /\ n \in Seq(Characters) /\ Words(n) = Words(Sub(t, s, e))
  /\ x \in 0..Len(Spliced(t, s, n, e))
  /\ ToggleWrap(t, c, m) = [text |-> Spliced(t, s, n, e), caret |-> x]
  /\ \/ Len(n) < e - s
     \/ n = m \o Sub(t, s, e) \o m

LEMMA WrapOfIs ==
  ASSUME NEW t \in Seq(Characters), NEW c \in 0..Len(t), NEW m \in Markers,
         NEW s, NEW e, Selection(t, c, m, s, e)
  PROVE  \E n, x : WrapOf(t, c, m, s, e, n, x)
<1>1. Len(t) \in Nat /\ c \in Nat /\ m \in Seq(Characters) /\ Len(m) \in 1..2 /\ Len(m) \in Nat
      /\ Words(m) = <<>>
  BY LenProperties, MarkerFacts
<1>2. s \in 0..c /\ e \in c..Len(t) /\ SelectionBounds(t, c, m) = [start |-> s, end |-> e]
  BY DEF Selection
<1>3. s \in Nat /\ e \in Nat /\ s \in 0..Len(t) /\ e \in s..Len(t) /\ s <= e
  BY <1>1, <1>2
<1>4. Sub(t, s, e) \in Seq(Characters) /\ Len(Sub(t, s, e)) = e - s
  BY <1>3, SubFacts
<1>5. CASE Carries(t, m, s, e)
  <2>1. PICK f, g : f = s + Len(m) /\ g = e - Len(m)
    OBVIOUS
  <2>2. /\ f \in s..Len(t) /\ f \in 0..Len(t) /\ g \in f..Len(t) /\ e \in g..Len(t) /\ g \in s..Len(t)
        /\ g - f < e - s /\ g + Len(m) = e /\ g \in 0..Len(t)
    <3>1. e - s >= 2 * Len(m)
      BY <1>5 DEF Carries
    <3>2. \A w \in 1..2 : e - s >= 2 * w =>
            /\ s + w \in s..Len(t) /\ s + w \in 0..Len(t) /\ e - w \in (s + w)..Len(t)
            /\ e \in (e - w)..Len(t) /\ e - w \in s..Len(t)
            /\ (e - w) - (s + w) < e - s /\ (e - w) + w = e /\ e - w \in 0..Len(t)
      BY <1>1, <1>3
    <3> QED BY <1>1, <2>1, <3>1, <3>2
  <2>3. PICK n : n = Sub(t, f, g)
    OBVIOUS
  <2>4. n \in Seq(Characters) /\ Len(n) = g - f
    BY <2>2, <2>3, SubFacts
  <2>5. Words(n) = Words(Sub(t, s, e))
    <3>1. Sub(t, s, f) = m
      BY <1>5, <2>1 DEF StandsAt, Carries
    <3>2. Sub(t, g, e) = m
      BY <1>5, <2>1, <2>2 DEF StandsAt, Carries
    <3>3. Sub(t, s, f) \o Sub(t, f, g) = Sub(t, s, g)
      BY <1>3, <2>2, Adjacent
    <3>4. Sub(t, s, g) \o Sub(t, g, e) = Sub(t, s, e)
      BY <1>3, <2>2, Adjacent
    <3>5. Sub(t, s, g) = m \o n
      BY <2>3, <3>1, <3>3
    <3>6. Sub(t, s, e) = (m \o n) \o m
      BY <3>2, <3>4, <3>5
    <3>7. Words(n) \in Seq(Characters)
      BY <2>4, WordsSeq
    <3>8. m \o n \in Seq(Characters) /\ Words(m \o n) = <<>> \o Words(n)
      BY <1>1, <2>4, WordsConcat, ConcatProperties
    <3>9. Words((m \o n) \o m) = Words(m \o n) \o Words(m)
      BY <1>1, <3>8, WordsConcat
    <3>10. <<>> \o Words(n) = Words(n) /\ Words(n) \o <<>> = Words(n)
      BY <3>7, ConcatEmptySeq
    <3> QED BY <1>1, <3>6, <3>8, <3>9, <3>10
  <2>6. s \in 0..Len(Spliced(t, s, n, e))
    <3>1. Len(Spliced(t, s, n, e)) = Len(t) - (e - s) + Len(n)
      <4>1. IsSplice(Characters, Spliced(t, s, n, e), t, s, n, e)
        BY <1>3, <2>4, SplicedIs
      <4> QED BY <4>1 DEF IsSplice
    <3>2. Len(n) \in Nat
      BY <2>4, LenProperties
    <3> QED BY <1>1, <1>3, <3>1, <3>2
  <2>7. ToggleWrap(t, c, m) = [text |-> Spliced(t, s, n, e), caret |-> s]
    BY <1>2, <1>5, <2>1, <2>3, WrapIs, Zenon
  <2>8. WrapOf(t, c, m, s, e, n, s)
    BY <1>2, <2>2, <2>4, <2>5, <2>6, <2>7 DEF WrapOf
  <2> QED BY <2>8
<1>6. CASE ~Carries(t, m, s, e)
  <2>1. PICK n, w : w = Sub(t, s, e) /\ n = m \o w \o m
    OBVIOUS
  <2>2. w \in Seq(Characters) /\ Len(w) = e - s
    BY <1>4, <2>1
  <2>3. n \in Seq(Characters) /\ Len(n) = Len(m) + Len(w) + Len(m)
    BY <1>1, <2>1, <2>2, ThreeFacts
  <2>4. Words(n) = Words(w)
    <3>1. Words(w) \in Seq(Characters)
      BY <2>2, WordsSeq
    <3>2. m \o w \in Seq(Characters) /\ Words(m \o w) = <<>> \o Words(w)
      BY <1>1, <2>2, WordsConcat, ConcatProperties
    <3>3. Words((m \o w) \o m) = Words(m \o w) \o Words(m)
      BY <1>1, <3>2, WordsConcat
    <3>4. <<>> \o Words(w) = Words(w) /\ Words(w) \o <<>> = Words(w)
      BY <3>1, ConcatEmptySeq
    <3> QED BY <1>1, <2>1, <3>2, <3>3, <3>4
  <2>5. PICK x : x = IF s = e THEN s + Len(m) ELSE e + 2 * Len(m)
    OBVIOUS
  <2>6. x \in 0..Len(Spliced(t, s, n, e))
    <3>1. Len(Spliced(t, s, n, e)) = Len(t) - (e - s) + Len(n)
      <4>1. IsSplice(Characters, Spliced(t, s, n, e), t, s, n, e)
        BY <1>3, <2>3, SplicedIs
      <4> QED BY <4>1 DEF IsSplice
    <3>2. Len(Spliced(t, s, n, e)) = Len(t) + 2 * Len(m)
      BY <1>1, <1>3, <2>2, <2>3, <3>1
    <3> QED BY <1>1, <1>3, <2>5, <3>2
  <2>7. ToggleWrap(t, c, m) = [text |-> Spliced(t, s, n, e), caret |-> x]
    <3>1. ToggleWrap(t, c, m) = [text  |-> Spliced(t, s, m \o Sub(t, s, e) \o m, e),
                                 caret |-> IF s = e THEN s + Len(m) ELSE e + 2 * Len(m)]
      BY <1>2, <1>6, WrapIs
    <3>2. n = m \o Sub(t, s, e) \o m
      BY <2>1
    <3> HIDE <1>6
    <3> QED BY <2>5, <3>1, <3>2
  <2>8. WrapOf(t, c, m, s, e, n, x)
    BY <1>2, <2>1, <2>3, <2>4, <2>6, <2>7 DEF WrapOf
  <2> QED BY <2>8
<1> QED BY <1>5, <1>6

LEMMA WrapKeeps ==
  ASSUME NEW t \in Seq(Characters), NEW c \in 0..Len(t), NEW m \in Markers
  PROVE  \E u \in Seq(Characters) : \E x \in 0..Len(u) :
           ToggleWrap(t, c, m) = [text |-> u, caret |-> x] /\ Words(u) = Words(t)
<1>1. PICK s, e : Selection(t, c, m, s, e)
  BY SelectionFacts
<1>2. PICK n, x : WrapOf(t, c, m, s, e, n, x)
  BY <1>1, WrapOfIs
<1>3. Len(t) \in Nat /\ c \in Nat
  BY LenProperties
<1>4. s \in 0..Len(t) /\ e \in s..Len(t)
  BY <1>2, <1>3 DEF WrapOf
<1>5. Spliced(t, s, n, e) \in Seq(Characters)
  BY <1>2, <1>4, SplicedFacts DEF WrapOf
<1>6. Words(Spliced(t, s, n, e)) = Words(t)
  BY <1>2, <1>4, WordsSpliced DEF WrapOf
<1> QED BY <1>2, <1>5, <1>6 DEF WrapOf

(* A marker that a press has put around a word is taken out by the next      *)
(* press within the word.                                                    *)
LEMMA WrapTakesBack ==
  ASSUME NEW t \in Seq(Characters), NEW c \in 0..Len(t), NEW m \in Markers, InWord(t, c),
         NEW u, u = ToggleWrap(t, c, m).text, Len(u) > Len(t)
  PROVE  ToggleWrap(u, c + Len(m), m).text = t
<1>1. PICK l, r : l = LeftEdge(t, c) /\ r = RightEdge(t, c)
  OBVIOUS
<1>2. WordOf(t, c, l, r) /\ Selection(t, c, m, l, r)
  BY <1>1, EdgesFacts, SelectionFacts
<1>3. PICK n, x : WrapOf(t, c, m, l, r, n, x)
  BY <1>2, WrapOfIs
<1>4. u = Spliced(t, l, n, r) /\ n \in Seq(Characters)
  BY <1>3 DEF WrapOf
<1>5. PICK w : w = Len(m)
  OBVIOUS
<1>6. /\ Len(t) \in Nat /\ c \in Nat /\ m \in Seq(Characters) /\ w \in 1..2 /\ w \in Nat
      /\ Len(n) \in Nat
      /\ \A k \in 1..w : m[k] \notin Whitespace
  <2>1. /\ m \in Seq(Characters) /\ Len(m) \in 1..2 /\ Len(m) \in Nat
        /\ \A k \in 1..Len(m) : m[k] \notin Whitespace
    BY MarkerFacts
  <2>2. Len(t) \in Nat /\ c \in Nat /\ Len(n) \in Nat
    BY <1>4, LenProperties
  <2> QED BY <1>5, <2>1, <2>2, Zenon
<1>7. /\ l \in 0..c /\ r \in (c + 1)..Len(t) /\ l \in Nat /\ r \in Nat
      /\ l \in 0..Len(t) /\ r \in l..Len(t)
  BY <1>2, <1>6 DEF WordOf
<1>8. /\ u \in Seq(Characters) /\ Len(u) = Len(t) - (r - l) + Len(n)
      /\ \A k \in 1..l : u[k] = t[k]
      /\ \A k \in 1..Len(n) : u[l + k] = n[k]
      /\ \A k \in 1..(Len(t) - r) : u[l + Len(n) + k] = t[r + k]
  <2>1. IsSplice(Characters, u, t, l, n, r)
    BY <1>4, <1>7, SplicedIs
  <2> QED BY <2>1 DEF IsSplice
<1>9. PICK v \in Seq(Characters) : /\ v = Sub(t, l, r) /\ Len(v) = r - l
                                   /\ \A k \in 1..(r - l) : v[k] = t[l + k]
  <2>1. /\ Sub(t, l, r) \in Seq(Characters) /\ Len(Sub(t, l, r)) = r - l
        /\ \A k \in 1..(r - l) : Sub(t, l, r)[k] = t[l + k]
    BY <1>7, SubFacts
  <2> QED BY <2>1
<1>10. n = m \o v \o m
  <2>1. ~(Len(n) < r - l)
    BY <1>6, <1>7, <1>8
  <2> QED BY <1>3, <1>9, <2>1 DEF WrapOf
<1>11. /\ Len(n) = w + (r - l) + w
       /\ \A k \in 1..w : n[k] = m[k]
       /\ \A k \in 1..(r - l) : n[w + k] = v[k]
       /\ \A k \in 1..w : n[w + (r - l) + k] = m[k]
  <2>1. /\ Len(m \o v \o m) = Len(m) + Len(v) + Len(m)
        /\ \A k \in 1..Len(m) : (m \o v \o m)[k] = m[k]
        /\ \A k \in 1..Len(v) : (m \o v \o m)[Len(m) + k] = v[k]
        /\ \A k \in 1..Len(m) : (m \o v \o m)[Len(m) + Len(v) + k] = m[k]
    <3>1. m \in Seq(Characters) /\ v \in Seq(Characters)
      BY <1>6, <1>9
    <3> QED BY <3>1, ThreeFacts
  <2>2. Len(m) = w /\ Len(v) = r - l
    BY <1>5, <1>9
  <2>3. /\ Len(n) = Len(m) + Len(v) + Len(m)
        /\ \A k \in 1..Len(m) : n[k] = m[k]
        /\ \A k \in 1..Len(v) : n[Len(m) + k] = v[k]
        /\ \A k \in 1..Len(m) : n[Len(m) + Len(v) + k] = m[k]
    BY <1>10, <2>1, Zenon
  <2>4. /\ Len(n) = w + (r - l) + w
        /\ \A k \in 1..w : n[k] = m[k]
        /\ \A k \in 1..(r - l) : n[w + k] = v[k]
        /\ \A k \in 1..w : n[w + (r - l) + k] = m[k]
    BY <2>2, <2>3, Zenon
  <2> QED BY <2>4
<1>12. PICK y, f : y = c + w /\ f = l + Len(n)
  OBVIOUS
<1>13. /\ Len(u) \in Nat /\ y \in 0..Len(u) /\ l \in 0..y /\ f \in (y + 1)..Len(u)
       /\ f = r + w + w /\ l \in 0..Len(u) /\ f \in l..Len(u)
  BY <1>6, <1>7, <1>8, <1>11, <1>12
<1>14. \A k \in 1..Len(n) : n[k] \notin Whitespace
  <2> SUFFICES ASSUME NEW k \in 1..Len(n) PROVE n[k] \notin Whitespace
    OBVIOUS
  <2>1. CASE k \in 1..w
    BY <1>6, <1>11, <2>1
  <2>2. CASE k - w \in 1..(r - l)
    <3>1. w + (k - w) = k /\ l + (k - w) \in (l + 1)..r
      BY <1>6, <1>7, <2>2
    <3>2. n[k] = v[k - w] /\ v[k - w] = t[l + (k - w)]
      BY <1>9, <1>11, <2>2, <3>1
    <3> QED BY <1>2, <3>1, <3>2 DEF WordOf
  <2>3. CASE k - (w + (r - l)) \in 1..w
    <3>1. (w + (r - l)) + (k - (w + (r - l))) = k
      BY <1>6, <1>7
    <3>2. n[k] = m[k - (w + (r - l))]
      BY <1>11, <2>3, <3>1
    <3> QED BY <1>6, <2>3, <3>2
  <2>4. k \in 1..w \/ k - w \in 1..(r - l) \/ k - (w + (r - l)) \in 1..w
    BY <1>6, <1>7, <1>11
  <2> QED BY <2>1, <2>2, <2>3, <2>4
<1>15. WordOf(u, y, l, f)
  <2>1. \A k \in (l + 1)..f : u[k] \notin Whitespace
    <3> SUFFICES ASSUME NEW k \in (l + 1)..f PROVE u[k] \notin Whitespace
      OBVIOUS
    <3>1. k - l \in 1..Len(n) /\ l + (k - l) = k
      BY <1>6, <1>7, <1>12
    <3>2. u[k] = n[k - l]
      BY <1>8, <3>1
    <3> QED BY <1>14, <3>1, <3>2
  <2>2. l = 0 \/ u[l] \in Whitespace
    <3>1. CASE l = 0
      BY <3>1
    <3>2. CASE l # 0
      <4>1. l \in 1..l
        BY <1>7, <3>2
      <4>2. u[l] = t[l]
        BY <1>8, <4>1
      <4> QED BY <1>2, <3>2, <4>2 DEF WordOf
    <3> QED BY <3>1, <3>2
  <2>3. f = Len(u) \/ u[f + 1] \in Whitespace
    <3>1. CASE r = Len(t)
      BY <1>6, <1>7, <1>8, <1>12, <3>1
    <3>2. CASE r # Len(t)
      <4>1. 1 \in 1..(Len(t) - r)
        BY <1>6, <1>7, <3>2
      <4>2. u[l + Len(n) + 1] = t[r + 1]
        BY <1>8, <4>1
      <4>3. t[r + 1] \in Whitespace
        BY <1>2, <3>2 DEF WordOf
      <4> QED BY <1>12, <4>2, <4>3
    <3> QED BY <3>1, <3>2
  <2> QED BY <1>13, <2>1, <2>2, <2>3 DEF WordOf
<1>16. SelectionBounds(u, y, m) = [start |-> l, end |-> f]
  <2>1. InWord(u, y) /\ LeftEdge(u, y) = l /\ RightEdge(u, y) = f
    BY <1>8, <1>13, <1>15, WordIs
  <2>2. Selection(u, y, m, LeftEdge(u, y), RightEdge(u, y))
    BY <1>8, <1>13, <2>1, SelectionFacts
  <2> QED BY <2>1, <2>2 DEF Selection
<1>17. Carries(u, m, l, f)
  <2>1. f - l >= 2 * w
    BY <1>6, <1>7, <1>13
  <2>2. StandsAt(u, l, m)
    <3>1. l >= 0 /\ l + w <= Len(u)
      <4>1. w \in Nat /\ r \in Nat /\ l \in Nat /\ l <= r /\ Len(u) \in Nat /\ r + w + w <= Len(u)
        BY <1>6, <1>7, <1>13
      <4> QED BY <4>1
    <3>2. \A k \in 1..w : u[l + k] = m[k]
      BY <1>6, <1>7, <1>8, <1>11
    <3>3. l + Len(m) <= Len(u) /\ \A k \in 1..Len(m) : u[l + k] = m[k]
      BY <1>5, <3>1, <3>2, Zenon
    <3>4. l \in Int /\ m \in Seq(Characters) /\ u \in Seq(Characters)
      BY <1>6, <1>7, <1>8
    <3> QED BY <3>1, <3>3, <3>4, StandsFacts
  <2>3. StandsAt(u, f - w, m)
    <3>1. f - w \in Int /\ f - w >= 0 /\ (f - w) + w <= Len(u)
      BY <1>6, <1>7, <1>13
    <3>2. ASSUME NEW k \in 1..w PROVE u[(f - w) + k] = m[k]
      <4>1. w + (r - l) + k \in 1..Len(n) /\ l + (w + (r - l) + k) = (f - w) + k
        BY <1>6, <1>7, <1>11, <1>12
      <4>2. u[(f - w) + k] = n[w + (r - l) + k]
        BY <1>8, <4>1
      <4> QED BY <1>11, <4>2
    <3>3. (f - w) + Len(m) <= Len(u) /\ \A k \in 1..Len(m) : u[(f - w) + k] = m[k]
      BY <1>5, <3>1, <3>2, Zenon
    <3>4. m \in Seq(Characters) /\ u \in Seq(Characters)
      BY <1>6, <1>8
    <3> QED BY <3>1, <3>3, <3>4, StandsFacts
  <2> QED BY <1>5, <2>1, <2>2, <2>3 DEF Carries
<1>18. Sub(u, l + w, f - w) = v
  <2>1. PICK i, j : i = l + w /\ j = f - w
    OBVIOUS
  <2>2. i \in 0..Len(u) /\ j \in i..Len(u) /\ j - i = r - l
    <3>1. w \in Nat /\ r \in Nat /\ l \in Nat /\ l <= r /\ Len(u) \in Nat /\ r + w + w <= Len(u)
          /\ f = r + w + w
      BY <1>6, <1>7, <1>13
    <3>2. j = r + w
      BY <2>1, <3>1
    <3> QED BY <2>1, <3>1, <3>2
  <2>3. PICK z \in Seq(Characters) : /\ z = Sub(u, i, j) /\ Len(z) = r - l
                                     /\ \A k \in 1..(r - l) : z[k] = u[i + k]
    <3>1. /\ Sub(u, i, j) \in Seq(Characters) /\ Len(Sub(u, i, j)) = j - i
          /\ \A k \in 1..(j - i) : Sub(u, i, j)[k] = u[i + k]
      <4>1. u \in Seq(Characters) /\ i \in 0..Len(u) /\ j \in i..Len(u)
        BY <1>8, <2>2
      <4> QED BY <4>1, SubFacts
    <3> QED BY <2>2, <3>1
  <2>4. \A k \in 1..Len(z) : z[k] = v[k]
    <3> SUFFICES ASSUME NEW k \in 1..(r - l) PROVE z[k] = v[k]
      BY <2>3
    <3>1. w + k \in 1..Len(n) /\ l + (w + k) = i + k
      BY <1>6, <1>7, <1>11, <2>1
    <3>2. u[i + k] = n[w + k]
      BY <1>8, <3>1
    <3> QED BY <1>11, <2>3, <3>2
  <2>5. z = v
    BY <1>9, <2>3, <2>4, SeqEqual
  <2> QED BY <2>1, <2>3, <2>5
<1>19. ToggleWrap(u, y, m) = [text |-> Spliced(u, l, Sub(u, l + Len(m), f - Len(m)), f), caret |-> l]
  BY <1>16, <1>17, WrapIs
<1>20. ToggleWrap(u, y, m).text = Spliced(u, l, v, f)
  BY <1>5, <1>18, <1>19
<1>21. Spliced(u, l, v, l + Len(n)) = Spliced(t, l, v, r)
  BY <1>4, <1>7, <1>9, SplicedAgain
<1>22. Spliced(t, l, v, r) = t
  BY <1>7, <1>9, SplicedBack
<1> QED BY <1>5, <1>12, <1>20, <1>21, <1>22

-----------------------------------------------------------------------------
(* Inline markers: what a match is, and that the first one exists.           *)

MatchOf(b, i, x) ==
  /\ x.mark \in Markers /\ x.open \in i..Len(b) /\ x.close \in i..Len(b)
  /\ x.close > x.open + Len(x.mark) /\ x.close + Len(x.mark) <= Len(b)
  /\ \A k \in 1..Len(x.mark) : b[x.open + k] = x.mark[k] /\ b[x.close + k] = x.mark[k]

LEMMA InlineFacts ==
  ASSUME NEW b \in Seq(Characters), NEW i \in 0..Len(b), NEW x \in Matches(b, i)
  PROVE  MatchOf(b, i, x)
<1>1. Len(b) \in Nat
  BY LenProperties
<1>2. x \in [mark : Markers, open : i..Len(b), close : i..Len(b)]
  BY DEF Matches
<1>3. x.mark \in Markers /\ x.open \in i..Len(b) /\ x.close \in i..Len(b)
  BY <1>2
<1>4. x.close > x.open + Len(x.mark)
      /\ StandsAt(b, x.open, x.mark) /\ StandsAt(b, x.close, x.mark)
  BY DEF Matches
<1>5. PICK m, o, c : m = x.mark /\ o = x.open /\ c = x.close
  OBVIOUS
<1>6. m \in Seq(Characters) /\ o \in Int /\ c \in Int
  BY <1>1, <1>3, <1>5, MarkerFacts
<1>7. StandsAt(b, o, m) /\ StandsAt(b, c, m)
  BY <1>4, <1>5
<1>8. /\ \A k \in 1..Len(m) : b[o + k] = m[k]
      /\ c + Len(m) <= Len(b) /\ \A k \in 1..Len(m) : b[c + k] = m[k]
  BY <1>6, <1>7, StandsFacts
<1> QED BY <1>3, <1>4, <1>5, <1>8 DEF MatchOf

LEMMA FirstMatch ==
  ASSUME NEW b \in Seq(Characters), NEW i \in 0..Len(b), Matches(b, i) # {}
  PROVE  FindInline(Matches(b, i)) \in Matches(b, i)
<1> DEFINE M == Matches(b, i)
<1>1. Len(b) \in Nat
  BY LenProperties
<1>2. \A x \in M : MatchOf(b, i, x)
  BY InlineFacts
<1>3. \A x \in M : x.mark \in Markers /\ x.open \in Nat /\ x.close \in Nat
  BY <1>1, <1>2 DEF MatchOf
<1> HIDE DEF M
<1>4. PICK o \in Nat : (\E x \in M : x.open = o) /\ (\A x \in M : o <= x.open)
  <2> DEFINE S == {x.open : x \in M}
  <2>1. S \in SUBSET Nat /\ S # {}
    BY <1>3 DEF M
  <2>2. Least(S) \in S /\ \A y \in S : Least(S) <= y
    <3> HIDE DEF S
    <3> QED BY <2>1, LeastOf
  <2> QED BY <1>3, <2>2
<1>5. PICK m : /\ \E x \in M : x.open = o /\ x.mark = m
               /\ \A y \in M : y.open = o => y.mark = m \/ Len(m) > Len(y.mark)
  <2>1. CASE \E x \in M : x.open = o /\ x.mark = Strong
    <3>1. \A y \in M : y.mark = Strong \/ Len(Strong) > Len(y.mark)
      <4>1. \A n \in Markers : n = Strong \/ Len(Strong) > Len(n)
        <5>1. Len(Strong) = 2 /\ Len(Slant) = 1 /\ Len(Code) = 1
          BY DEF Strong, Slant, Code
        <5>2. Len(Strong) > Len(Slant) /\ Len(Strong) > Len(Code)
          BY <5>1
        <5> QED BY <5>2, Zenon DEF Markers
      <4> QED BY <1>3, <4>1
    <3> QED BY <2>1, <3>1
  <2>2. CASE ~\E x \in M : x.open = o /\ x.mark = Strong
    <3>1. PICK x \in M : x.open = o
      BY <1>4
    <3>2. ASSUME NEW y \in M, y.open = o PROVE y.mark = x.mark
      <4>1. x.mark \in {Slant, Code} /\ y.mark \in {Slant, Code}
        BY <1>3, <2>2, <3>1, <3>2 DEF Markers
      <4>2. Len(Slant) = 1 /\ Len(Code) = 1 /\ Slant[1] # Code[1]
        BY DEF Slant, Code
      <4>3. 1 \in 1..Len(x.mark) /\ 1 \in 1..Len(y.mark)
        <5>1. Len(x.mark) = 1 /\ Len(y.mark) = 1
          BY <4>1, <4>2, Zenon
        <5>2. 1 \in 1..1
          OBVIOUS
        <5> QED BY <5>1, <5>2, Zenon
      <4>4. b[o + 1] = x.mark[1] /\ b[o + 1] = y.mark[1]
        BY <1>2, <3>1, <3>2, <4>3 DEF MatchOf
      <4> QED BY <4>1, <4>2, <4>4
    <3> QED BY <3>1, <3>2
  <2> QED BY <2>1, <2>2
<1>6. PICK c \in Nat : /\ \E x \in M : x.open = o /\ x.mark = m /\ x.close = c
                       /\ \A y \in M : y.open = o /\ y.mark = m => c <= y.close
  <2> DEFINE N == {x \in M : x.open = o /\ x.mark = m}
             S == {x.close : x \in N}
  <2>1. S \in SUBSET Nat /\ S # {}
    BY <1>3, <1>5
  <2>2. Least(S) \in S /\ \A y \in S : Least(S) <= y
    <3> HIDE DEF S
    <3> QED BY <2>1, LeastOf
  <2> QED BY <1>3, <2>2
<1>7. PICK x \in M : x.open = o /\ x.mark = m /\ x.close = c
  BY <1>6
<1>8. \A y \in M : Earlier(x, y)
  <2> SUFFICES ASSUME NEW y \in M PROVE Earlier(x, y)
    OBVIOUS
  <2>1. o <= y.open /\ y.open \in Nat
    BY <1>3, <1>4
  <2>2. CASE y.open # o
    BY <1>4, <1>7, <2>1, <2>2 DEF Earlier
  <2>3. CASE y.open = o
    BY <1>5, <1>6, <1>7, <2>3 DEF Earlier
  <2> QED BY <2>2, <2>3
<1> QED BY <1>8 DEF FindInline, M

(* The two recursions over the matches of a body, one step at a time.        *)

NextOf(b, i) == LET x == FindInline(Matches(b, i)) IN x.close + Len(x.mark)

\* What the reader shows from offset i on, given what it shows after the match.
SpansMatch(b, i, rest) ==
  LET x == FindInline(Matches(b, i))
  IN Sub(b, i, x.open) \o Sub(b, x.open + Len(x.mark), x.close) \o rest

SpansOf(b) ==
  CHOOSE from : from = [i \in 0..Len(b) |->
                          IF Matches(b, i) = {} THEN Sub(b, i, Len(b))
                          ELSE SpansMatch(b, i, from[NextOf(b, i)])]

\* What the preview shows, given what it shows after the match.
BodyRest(b, i) == [sb |-> Sub(b, i, Len(b)), map |-> [k \in i..Len(b) |-> k - i]]

BodyMatch(b, i, rest) ==
  LET x     == FindInline(Matches(b, i))
      inner == x.open + Len(x.mark)
      next  == x.close + Len(x.mark)
      plain == x.open - i
      width == plain + x.close - inner
  IN [sb  |-> Sub(b, i, x.open) \o Sub(b, inner, x.close) \o rest.sb,
      map |-> [k \in i..Len(b) |->
                 CASE k < x.open               -> k - i
                   [] k \in x.open..(inner - 1)  -> plain
                   [] k \in inner..(x.close - 1) -> plain + k - inner
                   [] k \in x.close..(next - 1) -> width
                   [] k >= next                -> width + rest.map[k]]]

BodyOf(b) ==
  CHOOSE from : from = [i \in 0..Len(b) |->
                          IF Matches(b, i) = {} THEN BodyRest(b, i)
                          ELSE BodyMatch(b, i, from[NextOf(b, i)])]

LEMMA SpansAre == ASSUME NEW b PROVE Spans(b) = SpansOf(b)[0]
BY DEF Spans, SpansOf, SpansMatch, NextOf

LEMMA BodyIs == ASSUME NEW b PROVE BodyPreview(b) = BodyOf(b)[0]
BY DEF BodyPreview, BodyOf, BodyRest, BodyMatch, NextOf

LEMMA NextFacts ==
  ASSUME NEW b \in Seq(Characters), NEW i \in 0..Len(b), Matches(b, i) # {}
  PROVE  NextOf(b, i) \in (i + 1)..Len(b)
<1>1. Len(b) \in Nat
  BY LenProperties
<1>2. PICK x \in Matches(b, i) : x = FindInline(Matches(b, i))
  BY FirstMatch
<1>3. MatchOf(b, i, x)
  BY <1>2, InlineFacts
<1>4. Len(x.mark) \in 1..2 /\ x.open \in i..Len(b) /\ x.close \in i..Len(b)
      /\ x.close > x.open + Len(x.mark) /\ x.close + Len(x.mark) <= Len(b)
  BY <1>3, MarkFacts DEF MatchOf
<1>5. NextOf(b, i) = x.close + Len(x.mark)
  BY <1>2 DEF NextOf
<1> QED BY <1>1, <1>4, <1>5

LEMMA BodyUnfold ==
  ASSUME NEW b \in Seq(Characters), NEW i \in 0..Len(b)
  PROVE  BodyOf(b)[i] = IF Matches(b, i) = {} THEN BodyRest(b, i)
                        ELSE BodyMatch(b, i, BodyOf(b)[NextOf(b, i)])
<1> DEFINE n == Len(b)
           E(g, k) == IF Matches(b, k) = {} THEN BodyRest(b, k)
                      ELSE BodyMatch(b, k, g[NextOf(b, k)])
           S == {k \in 0..n : \E g : g = [j \in k..n |-> E(g, j)]}
<1>1. n \in Nat
  BY LenProperties
<1>2. \A k \in 0..n : Matches(b, k) # {} => NextOf(b, k) \in (k + 1)..n
  BY NextFacts
<1>3. ASSUME NEW k \in 0..n, \A j \in (k + 1)..n : j \in S PROVE k \in S
  <2>1. PICK g : \A j \in (k + 1)..n : j \in DOMAIN g /\ g[j] = E(g, j)
    <3>1. CASE k + 1 \in 0..n
      <4>1. k + 1 \in S
        <5>1. k + 1 \in (k + 1)..n
          BY <1>1, <3>1
        <5> QED BY <1>3, <5>1, Zenon
      <4>2. PICK g : g = [j \in (k + 1)..n |-> E(g, j)]
        BY <4>1
      <4>3. \A j \in (k + 1)..n : j \in DOMAIN g /\ g[j] = E(g, j)
        <5> HIDE DEF E
        <5> QED BY <4>2, Zenon
      <4> QED BY <4>3
    <3>2. CASE ~(k + 1 \in 0..n)
      <4>1. \A j \in (k + 1)..n : FALSE
        BY <1>1, <3>2
      <4> QED BY <4>1
    <3> QED BY <3>1, <3>2
  <2> DEFINE h == [j \in k..n |-> IF j = k THEN E(g, k) ELSE g[j]]
  <2>2. \A j \in k..n : j = k \/ j \in (k + 1)..n
    BY <1>1
  <2>3. ASSUME NEW j \in k..n PROVE h[j] = E(h, j)
    <3>1. E(h, j) = E(g, j)
      <4>1. CASE Matches(b, j) = {}
        BY <4>1
      <4>2. CASE Matches(b, j) # {}
        <5>1. NextOf(b, j) \in k..n /\ NextOf(b, j) # k
          BY <1>1, <1>2, <4>2
        <5>2. h[NextOf(b, j)] = g[NextOf(b, j)]
          BY <5>1
        <5> QED BY <5>2
      <4> QED BY <4>1, <4>2
    <3>2. h[j] = E(g, j)
      <4>1. h[j] = IF j = k THEN E(g, k) ELSE g[j]
        OBVIOUS
      <4> HIDE DEF E, h
      <4> QED BY <2>1, <2>2, <4>1
    <3> QED BY <3>1, <3>2
  <2>4. h = [j \in k..n |-> E(h, j)]
    <3>1. h = [j \in k..n |-> h[j]]
      OBVIOUS
    <3> HIDE DEF E, h
    <3> QED BY <2>3, <3>1
  <2> HIDE DEF h, E
  <2> QED BY <2>4
<1>4. 0 \in S
  <2>1. \A k \in 0..n : k \in S
    <3> HIDE DEF S
    <3> QED BY <1>1, <1>3, Backwards
  <2>2. 0 \in 0..n
    BY <1>1
  <2> QED BY <2>1, <2>2, Zenon
<1>5. PICK g : g = [j \in 0..n |-> E(g, j)]
  BY <1>4
<1>6. BodyOf(b) = [j \in 0..n |-> E(BodyOf(b), j)]
  BY <1>5, Zenon DEF BodyOf
<1> HIDE DEF E
<1>7. BodyOf(b)[i] = E(BodyOf(b), i)
  BY <1>6, Zenon
<1> QED BY <1>7 DEF E

LEMMA SpansUnfold ==
  ASSUME NEW b \in Seq(Characters), NEW i \in 0..Len(b)
  PROVE  SpansOf(b)[i] = IF Matches(b, i) = {} THEN Sub(b, i, Len(b))
                        ELSE SpansMatch(b, i, SpansOf(b)[NextOf(b, i)])
<1> DEFINE n == Len(b)
           E(g, k) == IF Matches(b, k) = {} THEN Sub(b, k, Len(b))
                      ELSE SpansMatch(b, k, g[NextOf(b, k)])
           S == {k \in 0..n : \E g : g = [j \in k..n |-> E(g, j)]}
<1>1. n \in Nat
  BY LenProperties
<1>2. \A k \in 0..n : Matches(b, k) # {} => NextOf(b, k) \in (k + 1)..n
  BY NextFacts
<1>3. ASSUME NEW k \in 0..n, \A j \in (k + 1)..n : j \in S PROVE k \in S
  <2>1. PICK g : \A j \in (k + 1)..n : j \in DOMAIN g /\ g[j] = E(g, j)
    <3>1. CASE k + 1 \in 0..n
      <4>1. k + 1 \in S
        <5>1. k + 1 \in (k + 1)..n
          BY <1>1, <3>1
        <5> QED BY <1>3, <5>1, Zenon
      <4>2. PICK g : g = [j \in (k + 1)..n |-> E(g, j)]
        BY <4>1
      <4>3. \A j \in (k + 1)..n : j \in DOMAIN g /\ g[j] = E(g, j)
        <5> HIDE DEF E
        <5> QED BY <4>2, Zenon
      <4> QED BY <4>3
    <3>2. CASE ~(k + 1 \in 0..n)
      <4>1. \A j \in (k + 1)..n : FALSE
        BY <1>1, <3>2
      <4> QED BY <4>1
    <3> QED BY <3>1, <3>2
  <2> DEFINE h == [j \in k..n |-> IF j = k THEN E(g, k) ELSE g[j]]
  <2>2. \A j \in k..n : j = k \/ j \in (k + 1)..n
    BY <1>1
  <2>3. ASSUME NEW j \in k..n PROVE h[j] = E(h, j)
    <3>1. E(h, j) = E(g, j)
      <4>1. CASE Matches(b, j) = {}
        BY <4>1
      <4>2. CASE Matches(b, j) # {}
        <5>1. NextOf(b, j) \in k..n /\ NextOf(b, j) # k
          BY <1>1, <1>2, <4>2
        <5>2. h[NextOf(b, j)] = g[NextOf(b, j)]
          BY <5>1
        <5> QED BY <5>2
      <4> QED BY <4>1, <4>2
    <3>2. h[j] = E(g, j)
      <4>1. h[j] = IF j = k THEN E(g, k) ELSE g[j]
        OBVIOUS
      <4> HIDE DEF E, h
      <4> QED BY <2>1, <2>2, <4>1
    <3> QED BY <3>1, <3>2
  <2>4. h = [j \in k..n |-> E(h, j)]
    <3>1. h = [j \in k..n |-> h[j]]
      OBVIOUS
    <3> HIDE DEF E, h
    <3> QED BY <2>3, <3>1
  <2> HIDE DEF h, E
  <2> QED BY <2>4
<1>4. 0 \in S
  <2>1. \A k \in 0..n : k \in S
    <3> HIDE DEF S
    <3> QED BY <1>1, <1>3, Backwards
  <2>2. 0 \in 0..n
    BY <1>1
  <2> QED BY <2>1, <2>2, Zenon
<1>5. PICK g : g = [j \in 0..n |-> E(g, j)]
  BY <1>4
<1>6. SpansOf(b) = [j \in 0..n |-> E(SpansOf(b), j)]
  BY <1>5, Zenon DEF SpansOf
<1> HIDE DEF E
<1>7. SpansOf(b)[i] = E(SpansOf(b), i)
  BY <1>6, Zenon
<1> QED BY <1>7 DEF E

(* A preview p of the offsets i..n of a text t is anchored: its columns are  *)
(* in order and within the display, and a character is at its own column.    *)
Signs == Characters \cup {"bar", "mark", "dot"}

StepKept(p, t, k) ==
  /\ p.map[k] <= p.map[k + 1]
  /\ p.map[k + 1] > p.map[k] => p.sb[p.map[k] + 1] = t[k + 1]
  /\ t[k + 1] \in Plain => p.map[k + 1] > p.map[k]

Anchors(p, t, i, n) ==
  /\ p.sb \in Seq(Signs) /\ p.map \in [i..n -> 0..Len(p.sb)]
  /\ p.map[n] = Len(p.sb)
  /\ \A k \in i..(n - 1) : StepKept(p, t, k)

LEMMA SignsFacts == ASSUME NEW t \in Seq(Characters) PROVE t \in Seq(Signs)
<1>1. \A k \in 1..Len(t) : t[k] \in Signs
  BY ElementOfSeq DEF Signs
<1>2. t = [k \in 1..Len(t) |-> t[k]] /\ Len(t) \in Nat
  BY LenProperties
<1>3. [k \in 1..Len(t) |-> t[k]] \in Seq(Signs)
  BY <1>1, <1>2
<1> QED BY <1>2, <1>3, Zenon

\* A piece of a text that is shown as it is written.
LEMMA WrittenFacts ==
  ASSUME NEW t \in Seq(Characters), NEW i \in 0..Len(t), NEW n \in i..Len(t), NEW p,
         p = [sb |-> Sub(t, i, n), map |-> [k \in i..n |-> k - i]]
  PROVE  Anchors(p, t, i, n) /\ p.map[i] = 0
<1>1. Len(t) \in Nat
  BY LenProperties
<1>2. /\ p.sb \in Seq(Characters) /\ Len(p.sb) = n - i
      /\ \A k \in 1..(n - i) : p.sb[k] = t[i + k]
  <2>1. /\ Sub(t, i, n) \in Seq(Characters) /\ Len(Sub(t, i, n)) = n - i
        /\ \A k \in 1..(n - i) : Sub(t, i, n)[k] = t[i + k]
    BY SubFacts
  <2> QED BY <2>1
<1>3. p.map = [k \in i..n |-> k - i]
  OBVIOUS
<1>4. \A k \in i..n : p.map[k] = k - i
  BY <1>3
<1>5. p.map \in [i..n -> 0..Len(p.sb)] /\ p.map[n] = Len(p.sb) /\ p.map[i] = 0
  <2>1. \A k \in i..n : k - i \in 0..(n - i)
    BY <1>1
  <2>2. p.map \in [i..n -> 0..(n - i)]
    BY <1>3, <2>1
  <2>3. n \in i..n /\ i \in i..n /\ i - i = 0
    BY <1>1
  <2> QED BY <1>2, <1>4, <2>2, <2>3
<1>6. ASSUME NEW k \in i..(n - 1) PROVE StepKept(p, t, k)
  <2>1. p.map[k] = k - i /\ p.map[k + 1] = (k + 1) - i
    BY <1>1, <1>4
  <2>2. (k - i) + 1 \in 1..(n - i) /\ i + ((k - i) + 1) = k + 1 /\ k - i < (k + 1) - i
        /\ k - i \in Int /\ (k + 1) - i \in Int
    BY <1>1
  <2>3. p.sb[(k - i) + 1] = t[k + 1]
    BY <1>2, <2>2
  <2>4. k - i <= (k + 1) - i /\ (k + 1) - i > k - i
    BY <2>2
  <2> QED BY <2>1, <2>3, <2>4, Zenon DEF StepKept
<1>7. p.sb \in Seq(Signs)
  BY <1>2, SignsFacts
<1> QED BY <1>5, <1>6, <1>7 DEF Anchors

\* The column of offset k in a body of which a match of a marker of length w,
\* open at o and closed at c, is the first from i on; z is its column after it.
ColumnAt(i, o, w, c, k, z) ==
  CASE k < o                      -> k - i
    [] k \in o..(o + w - 1)       -> o - i
    [] k \in (o + w)..(c - 1)     -> (o - i) + k - (o + w)
    [] k \in c..(c + w - 1)       -> (o - i) + c - (o + w)
    [] k >= c + w                 -> (o - i) + c - (o + w) + z

LEMMA BodyMatchIs ==
  ASSUME NEW b, NEW i, NEW rest
  PROVE  BodyMatch(b, i, rest) =
           LET x == FindInline(Matches(b, i))
           IN [sb  |-> Sub(b, i, x.open) \o Sub(b, x.open + Len(x.mark), x.close) \o rest.sb,
               map |-> [k \in i..Len(b) |->
                          ColumnAt(i, x.open, Len(x.mark), x.close, k, rest.map[k])]]
BY DEF BodyMatch, ColumnAt

ColumnOf(i, d, w, g, k, z, col) ==
  LET o == i + d
      v == o + w
      c == v + g
      y == c + w
  IN /\ k < o => col = k - i
     /\ o <= k /\ k < v => col = d
     /\ v <= k /\ k < c => col = d + (k - v)
     /\ c <= k /\ k < y => col = d + g
     /\ y <= k /\ z \in Nat => col = d + g + z

LEMMA ColumnIs ==
  ASSUME NEW i \in Nat, NEW d \in Nat, NEW w \in 1..2, NEW g \in Nat, g > 0,
         NEW k \in Nat, i <= k, NEW z
  PROVE  ColumnOf(i, d, w, g, k, z, ColumnAt(i, i + d, w, ((i + d) + w) + g, k, z))
<1>1. PICK o, v, c, y, col : /\ o = i + d /\ v = o + w /\ c = v + g /\ y = c + w
                             /\ col = ColumnAt(i, i + d, w, ((i + d) + w) + g, k, z)
  OBVIOUS
<1>2. col = ColumnAt(i, o, w, c, k, z)
  BY <1>1, Zenon
<1>3. o \in Nat /\ v \in Nat /\ c \in Nat /\ y \in Nat
  BY <1>1
<1>4. k < o => col = k - i
  BY <1>1, <1>2, <1>3 DEF ColumnAt
<1>5. o <= k /\ k < v => col = d
  BY <1>1, <1>2, <1>3 DEF ColumnAt
<1>6. v <= k /\ k < c => col = d + (k - v)
  BY <1>1, <1>2, <1>3 DEF ColumnAt
<1>7. c <= k /\ k < y => col = d + g
  BY <1>1, <1>2, <1>3 DEF ColumnAt
<1>8. y <= k /\ z \in Nat => col = d + g + z
  BY <1>1, <1>2, <1>3 DEF ColumnAt
<1> QED BY <1>1, <1>4, <1>5, <1>6, <1>7, <1>8, Zenon DEF ColumnOf

\* Where the next offset is.
LEMMA NextColumn ==
  ASSUME NEW i \in Nat, NEW d \in Nat, NEW w \in 1..2, NEW g \in Nat, g > 0,
         NEW o, o = i + d, NEW v, v = o + w, NEW c, c = v + g, NEW y, y = c + w,
         NEW k \in Nat, i <= k, NEW r \in Nat
  PROVE  /\ k < o \/ (o <= k /\ k < v) \/ (v <= k /\ k < c) \/ (c <= k /\ k < y) \/ y <= k
         /\ k < o => k - i \in 0..(d + g + r)
         /\ d \in 0..(d + g + r) /\ d + g \in 0..(d + g + r)
         /\ v <= k /\ k < c => d + (k - v) \in 0..(d + g + r)
         /\ \A z \in 0..r : d + g + z \in 0..(d + g + r)
         /\ k < o => /\ k + 1 < o \/ (o <= k + 1 /\ k + 1 < v /\ d = (k - i) + 1)
                     /\ (k + 1) - i = (k - i) + 1
                     /\ (k - i) + 1 \in 1..d /\ i + ((k - i) + 1) = k + 1 /\ k - i \in Int
         /\ o <= k /\ k < v =>
              /\ (o <= k + 1 /\ k + 1 < v) \/ (v <= k + 1 /\ k + 1 < c /\ d + ((k + 1) - v) = d)
              /\ (k + 1) - o \in 1..w /\ o + ((k + 1) - o) = k + 1
         /\ v <= k /\ k < c =>
              /\ (v <= k + 1 /\ k + 1 < c) \/ (c <= k + 1 /\ k + 1 < y /\ d + g = (d + (k - v)) + 1)
              /\ d + ((k + 1) - v) = (d + (k - v)) + 1
              /\ (k - v) + 1 \in 1..g /\ v + ((k - v) + 1) = k + 1
              /\ d + ((k - v) + 1) = (d + (k - v)) + 1 /\ d + (k - v) \in Int
         /\ c <= k /\ k < y =>
              /\ (c <= k + 1 /\ k + 1 < y) \/ k + 1 = y
              /\ (k + 1) - c \in 1..w /\ c + ((k + 1) - c) = k + 1
         /\ y <= k => y <= k + 1
<1>1. o \in Nat /\ v \in Nat /\ c \in Nat /\ y \in Nat
  OBVIOUS
<1> QED BY <1>1

\* A display that goes on after another one.
LEMMA LaterColumn ==
  ASSUME NEW h \in Nat, NEW r \in Nat, NEW a \in 0..r, NEW e \in 0..r
  PROVE  /\ e > a => a + 1 \in 1..r /\ h + (a + 1) = (h + a) + 1
         /\ h + a <= h + e <=> a <= e
         /\ h + e > h + a <=> e > a
OBVIOUS

\* From a match on, given that it is so after the match.
LEMMA BodyMatchFacts ==
  ASSUME NEW b \in Seq(Characters), NEW i \in 0..Len(b), Matches(b, i) # {},
         NEW rest, Anchors(rest, b, NextOf(b, i), Len(b)), rest.map[NextOf(b, i)] = 0,
         NEW p, p = BodyMatch(b, i, rest)
  PROVE  /\ Anchors(p, b, i, Len(b)) /\ p.map[i] = 0
         /\ p.sb = SpansMatch(b, i, rest.sb)
<1>1. Len(b) \in Nat
  BY LenProperties
<1>2. PICK x \in Matches(b, i) : x = FindInline(Matches(b, i))
  BY FirstMatch
<1>3. MatchOf(b, i, x)
  BY <1>2, InlineFacts
<1>4. PICK n, m, w, o, c, v, y :
        /\ n = Len(b) /\ m = x.mark /\ w = Len(x.mark) /\ o = x.open /\ c = x.close
        /\ v = o + w /\ y = c + w
  OBVIOUS
<1>5. w \in 1..2 /\ \A k \in 1..w : m[k] \notin Plain
  <2>1. Len(m) \in 1..2 /\ \A k \in 1..Len(m) : m[k] \notin Plain
    BY <1>3, <1>4, MarkerFacts DEF MatchOf
  <2> QED BY <1>4, <2>1, Zenon
<1>6. /\ n \in Nat /\ i \in Nat /\ o \in Nat /\ v \in Nat /\ c \in Nat /\ y \in Nat
      /\ i <= o /\ v = o + w /\ v < c /\ y = c + w /\ y <= n /\ i < y
  <2>1. x.open \in i..n /\ x.close \in i..n /\ x.close > x.open + w /\ x.close + w <= n
    BY <1>3, <1>4 DEF MatchOf
  <2>2. o \in i..n /\ c \in i..n /\ c > o + w /\ c + w <= n /\ n \in Nat
    BY <1>1, <1>4, <2>1, Zenon
  <2>3. v = o + w /\ y = c + w /\ w \in 1..2 /\ i \in 0..n
    BY <1>4, <1>5, Zenon
  <2> QED BY <2>2, <2>3
<1>7. \A k \in 1..w : b[o + k] \notin Plain /\ b[c + k] \notin Plain
  <2>1. \A k \in 1..w : b[x.open + k] = m[k] /\ b[x.close + k] = m[k]
    BY <1>3, <1>4 DEF MatchOf
  <2> QED BY <1>4, <1>5, <2>1
<1>8. y = NextOf(b, i)
  BY <1>2, <1>4 DEF NextOf
<1>9. /\ rest.sb \in Seq(Signs) /\ rest.map \in [y..n -> 0..Len(rest.sb)]
      /\ rest.map[n] = Len(rest.sb) /\ rest.map[y] = 0
      /\ \A k \in y..(n - 1) : StepKept(rest, b, k)
  BY <1>4, <1>8 DEF Anchors
<1>10. PICK P, Q : P = Sub(b, i, o) /\ Q = Sub(b, v, c)
  OBVIOUS
<1>11. /\ P \in Seq(Characters) /\ Len(P) = o - i
       /\ \A k \in 1..(o - i) : P[k] = b[i + k]
  <2>1. i \in 0..Len(b) /\ o \in i..Len(b)
    <3>1. i \in 0..n /\ o \in i..n
      <4>1. w \in Nat
        BY <1>5
      <4> QED BY <1>6, <4>1
    <3> QED BY <1>4, <3>1, Zenon
  <2>2. /\ Sub(b, i, o) \in Seq(Characters) /\ Len(Sub(b, i, o)) = o - i
        /\ \A k \in 1..(o - i) : Sub(b, i, o)[k] = b[i + k]
    BY <2>1, SubFacts
  <2> QED BY <1>10, <2>2
<1>12. /\ Q \in Seq(Characters) /\ Len(Q) = c - v
       /\ \A k \in 1..(c - v) : Q[k] = b[v + k]
  <2>1. v \in 0..Len(b) /\ c \in v..Len(b)
    <3>1. v \in 0..n /\ c \in v..n
      <4>1. w \in Nat
        BY <1>5
      <4> QED BY <1>6, <4>1
    <3> QED BY <1>4, <3>1, Zenon
  <2>2. /\ Sub(b, v, c) \in Seq(Characters) /\ Len(Sub(b, v, c)) = c - v
        /\ \A k \in 1..(c - v) : Sub(b, v, c)[k] = b[v + k]
    BY <2>1, SubFacts
  <2> QED BY <1>10, <2>2
<1>13. PICK d, g, R : d = o - i /\ g = c - v /\ R = rest.sb
  OBVIOUS
<1>14. d \in Nat /\ g \in Nat /\ o = i + d /\ c = v + g /\ g > 0
  BY <1>6, <1>13
<1>15. R \in Seq(Signs) /\ Len(R) \in Nat
  BY <1>9, <1>13, LenProperties
<1>16. /\ p.sb = P \o Q \o R
       /\ p.map = [k \in i..n |-> ColumnAt(i, o, w, c, k, rest.map[k])]
  <2>1. p = [sb  |-> Sub(b, i, x.open) \o Sub(b, x.open + Len(x.mark), x.close) \o rest.sb,
             map |-> [k \in i..Len(b) |->
                        ColumnAt(i, x.open, Len(x.mark), x.close, k, rest.map[k])]]
    BY <1>2, BodyMatchIs, Zenon
  <2>2. p = [sb  |-> P \o Q \o R, map |-> [k \in i..n |-> ColumnAt(i, o, w, c, k, rest.map[k])]]
    BY <1>4, <1>10, <1>13, <2>1, Zenon
  <2> QED BY <2>2
<1>17. /\ p.sb \in Seq(Signs) /\ Len(p.sb) = d + g + Len(R)
       /\ \A k \in 1..d : p.sb[k] = b[i + k]
       /\ \A k \in 1..g : p.sb[d + k] = b[v + k]
       /\ \A k \in 1..Len(R) : p.sb[d + g + k] = R[k]
  <2>1. P \in Seq(Signs) /\ Q \in Seq(Signs)
    BY <1>11, <1>12, SignsFacts
  <2>2. /\ P \o Q \o R \in Seq(Signs)
        /\ Len(P \o Q \o R) = Len(P) + Len(Q) + Len(R)
        /\ \A k \in 1..Len(P) : (P \o Q \o R)[k] = P[k]
        /\ \A k \in 1..Len(Q) : (P \o Q \o R)[Len(P) + k] = Q[k]
        /\ \A k \in 1..Len(R) : (P \o Q \o R)[Len(P) + Len(Q) + k] = R[k]
    BY <1>15, <2>1, ThreeFacts
  <2>3. Len(P) = d /\ Len(Q) = g
    BY <1>11, <1>12, <1>13
  <2>4. /\ p.sb \in Seq(Signs) /\ Len(p.sb) = d + g + Len(R)
        /\ \A k \in 1..d : p.sb[k] = P[k]
        /\ \A k \in 1..g : p.sb[d + k] = Q[k]
        /\ \A k \in 1..Len(R) : p.sb[d + g + k] = R[k]
    BY <1>16, <2>2, <2>3, Zenon
  <2>5. (\A k \in 1..d : P[k] = b[i + k]) /\ (\A k \in 1..g : Q[k] = b[v + k])
    BY <1>11, <1>12, <1>13, Zenon
  <2> QED BY <2>4, <2>5
<1>18. /\ w \in 1..2 /\ g > 0 /\ i \in Nat /\ d \in Nat /\ g \in Nat
       /\ o = i + d /\ v = o + w /\ c = v + g /\ y = c + w
  BY <1>5, <1>6, <1>14
<1>19. ASSUME NEW k \in i..n
       PROVE  /\ k < o => p.map[k] = k - i
              /\ o <= k /\ k < v => p.map[k] = d
              /\ v <= k /\ k < c => p.map[k] = d + (k - v)
              /\ c <= k /\ k < y => p.map[k] = d + g
              /\ y <= k => rest.map[k] \in 0..Len(R) /\ p.map[k] = d + g + rest.map[k]
  <2>1. p.map[k] = ColumnAt(i, o, w, c, k, rest.map[k])
    BY <1>16
  <2>2. k \in Nat /\ i <= k
    BY <1>6
  <2>3. y <= k => rest.map[k] \in 0..Len(R) /\ rest.map[k] \in Nat
    <3>1. y <= k => k \in y..n
      BY <1>6
    <3>2. y <= k => rest.map[k] \in 0..Len(R)
      BY <1>9, <1>13, <3>1
    <3> QED BY <1>15, <3>2
  <2>4. ColumnOf(i, d, w, g, k, rest.map[k],
                 ColumnAt(i, i + d, w, ((i + d) + w) + g, k, rest.map[k]))
    BY <1>18, <2>2, ColumnIs
  <2>5. ColumnOf(i, d, w, g, k, rest.map[k], p.map[k])
    BY <1>18, <2>1, <2>4, Zenon
  <2>6. /\ k < o => p.map[k] = k - i
        /\ o <= k /\ k < v => p.map[k] = d
        /\ v <= k /\ k < c => p.map[k] = d + (k - v)
        /\ c <= k /\ k < y => p.map[k] = d + g
        /\ y <= k /\ rest.map[k] \in Nat => p.map[k] = d + g + rest.map[k]
    BY <1>18, <2>5, Zenon DEF ColumnOf
  <2> QED BY <2>3, <2>6, Zenon
<1>20. p.map \in [i..n -> 0..Len(p.sb)]
  <2>1. ASSUME NEW k \in i..n PROVE p.map[k] \in 0..Len(p.sb)
    <3>0. k \in Nat /\ i <= k
      BY <1>6
    <3>1. k < o \/ (o <= k /\ k < v) \/ (v <= k /\ k < c) \/ (c <= k /\ k < y) \/ y <= k
      BY <1>18, <3>0, NextColumn
    <3>2. /\ k < o => k - i \in 0..(d + g + Len(R))
          /\ d \in 0..(d + g + Len(R)) /\ d + g \in 0..(d + g + Len(R))
          /\ v <= k /\ k < c => d + (k - v) \in 0..(d + g + Len(R))
          /\ \A z \in 0..Len(R) : d + g + z \in 0..(d + g + Len(R))
      BY <1>15, <1>18, <3>0, NextColumn
    <3> QED BY <1>17, <1>19, <3>1, <3>2, Zenon
  <2> QED BY <1>16, <2>1
<1>21. p.map[n] = Len(p.sb) /\ p.map[i] = 0
  <2>1. n \in i..n /\ i \in i..n /\ (i < o \/ (o <= i /\ i < v)) /\ i - i = 0 /\ (o <= i => d = 0)
    BY <1>5, <1>6, <1>13
  <2>2. p.map[i] = 0
    BY <1>19, <2>1
  <2>3. p.map[n] = d + g + Len(R)
    BY <1>6, <1>9, <1>13, <1>19, <2>1
  <2> QED BY <1>17, <2>2, <2>3
<1>22. ASSUME NEW k \in i..(n - 1) PROVE StepKept(p, b, k)
  <2>1. k \in i..n /\ k + 1 \in i..n /\ k \in Nat /\ i <= k
    BY <1>6
  <2>2. CASE k < o
    <3>1. p.map[k] = k - i /\ p.map[k + 1] = (k - i) + 1
      <4>1. k + 1 < o \/ (o <= k + 1 /\ k + 1 < v /\ d = (k - i) + 1)
        BY <1>18, <2>1, <2>2, NextColumn
      <4>2. (k + 1) - i = (k - i) + 1
        BY <1>18, <2>1, <2>2, NextColumn
      <4> QED BY <1>19, <2>1, <2>2, <4>1, <4>2
    <3>2. (k - i) + 1 \in 1..d /\ i + ((k - i) + 1) = k + 1 /\ k - i \in Int
      BY <1>18, <2>1, <2>2, NextColumn
    <3>3. p.sb[(k - i) + 1] = b[k + 1]
      BY <1>17, <3>2
    <3>4. k - i <= (k - i) + 1 /\ (k - i) + 1 > k - i
      BY <3>2
    <3> QED BY <3>1, <3>3, <3>4, Zenon DEF StepKept
  <2>3. CASE o <= k /\ k < v
    <3>1. p.map[k] = d /\ p.map[k + 1] = d
      <4>1. (o <= k + 1 /\ k + 1 < v) \/ (v <= k + 1 /\ k + 1 < c /\ d + ((k + 1) - v) = d)
        BY <1>18, <2>1, <2>3, NextColumn
      <4> QED BY <1>19, <2>1, <2>3, <4>1
    <3>2. (k + 1) - o \in 1..w /\ o + ((k + 1) - o) = k + 1
      BY <1>18, <2>1, <2>3, NextColumn
    <3>3. b[k + 1] \notin Plain
      BY <1>7, <3>2
    <3> QED BY <1>14, <3>1, <3>3 DEF StepKept
  <2>4. CASE v <= k /\ k < c
    <3>1. p.map[k] = d + (k - v) /\ p.map[k + 1] = (d + (k - v)) + 1
      <4>1. /\ (v <= k + 1 /\ k + 1 < c) \/ (c <= k + 1 /\ k + 1 < y /\ d + g = (d + (k - v)) + 1)
            /\ d + ((k + 1) - v) = (d + (k - v)) + 1
        BY <1>18, <2>1, <2>4, NextColumn
      <4> QED BY <1>19, <2>1, <2>4, <4>1
    <3>2. /\ (k - v) + 1 \in 1..g /\ v + ((k - v) + 1) = k + 1
          /\ d + ((k - v) + 1) = (d + (k - v)) + 1 /\ d + (k - v) \in Int
      BY <1>18, <2>1, <2>4, NextColumn
    <3>3. p.sb[(d + (k - v)) + 1] = b[k + 1]
      BY <1>17, <3>2
    <3>4. d + (k - v) <= (d + (k - v)) + 1 /\ (d + (k - v)) + 1 > d + (k - v)
      BY <3>2
    <3> QED BY <3>1, <3>3, <3>4, Zenon DEF StepKept
  <2>5. CASE c <= k /\ k < y
    <3>1. p.map[k] = d + g /\ p.map[k + 1] = d + g
      <4>1. (c <= k + 1 /\ k + 1 < y) \/ k + 1 = y
        BY <1>18, <2>1, <2>5, NextColumn
      <4>2. y <= y /\ d + g + 0 = d + g
        BY <1>6, <1>14
      <4>3. k + 1 = y => p.map[k + 1] = d + g
        BY <1>9, <1>19, <2>1, <4>2
      <4> QED BY <1>19, <2>1, <2>5, <4>1, <4>3
    <3>2. (k + 1) - c \in 1..w /\ c + ((k + 1) - c) = k + 1
      BY <1>18, <2>1, <2>5, NextColumn
    <3>3. b[k + 1] \notin Plain
      BY <1>7, <3>2
    <3> QED BY <1>14, <3>1, <3>3 DEF StepKept
  <2>6. CASE y <= k
    <3>1. /\ p.map[k] = d + g + rest.map[k] /\ p.map[k + 1] = d + g + rest.map[k + 1]
          /\ rest.map[k] \in 0..Len(R) /\ rest.map[k + 1] \in 0..Len(R)
      <4>1. y <= k + 1
        BY <1>18, <2>1, <2>6, NextColumn
      <4> QED BY <1>19, <2>1, <2>6, <4>1
    <3>2. StepKept(rest, b, k)
      BY <1>6, <1>9, <2>1, <2>6
    <3>3. PICK a, e : a = rest.map[k] /\ e = rest.map[k + 1]
      OBVIOUS
    <3>4. a \in 0..Len(R) /\ e \in 0..Len(R) /\ p.map[k] = d + g + a /\ p.map[k + 1] = d + g + e
      BY <3>1, <3>3
    <3>5. a <= e /\ (e > a => R[a + 1] = b[k + 1]) /\ (b[k + 1] \in Plain => e > a)
      BY <1>13, <3>2, <3>3 DEF StepKept
    <3>6. e > a => p.sb[(d + g + a) + 1] = b[k + 1]
      <4>1. e > a => a + 1 \in 1..Len(R) /\ (d + g) + (a + 1) = ((d + g) + a) + 1
        BY <1>14, <1>15, <3>4, LaterColumn
      <4> QED BY <1>17, <3>5, <4>1
    <3>7. d + g + a <= d + g + e /\ (d + g + e > d + g + a <=> e > a)
      BY <1>14, <1>15, <3>4, <3>5, LaterColumn
    <3> QED BY <3>4, <3>5, <3>6, <3>7, Zenon DEF StepKept
  <2>7. k < o \/ (o <= k /\ k < v) \/ (v <= k /\ k < c) \/ (c <= k /\ k < y) \/ y <= k
    <3>1. 0 \in Nat
      OBVIOUS
    <3> QED BY <1>18, <2>1, <3>1, NextColumn
  <2> QED BY <2>2, <2>3, <2>4, <2>5, <2>6, <2>7
<1>23. p.sb = SpansMatch(b, i, rest.sb)
  BY <1>2, <1>4, <1>10, <1>13, <1>16 DEF SpansMatch
<1> QED BY <1>4, <1>17, <1>20, <1>21, <1>22, <1>23 DEF Anchors

LEMMA BodyAnchored ==
  ASSUME NEW b \in Seq(Characters)
  PROVE  /\ Anchors(BodyPreview(b), b, 0, Len(b)) /\ BodyPreview(b).map[0] = 0
         /\ BodyPreview(b).sb = Spans(b)
<1> DEFINE n == Len(b)
           S == {i \in 0..n : /\ Anchors(BodyOf(b)[i], b, i, n) /\ BodyOf(b)[i].map[i] = 0
                              /\ BodyOf(b)[i].sb = SpansOf(b)[i]}
<1>1. n \in Nat
  BY LenProperties
<1>2. ASSUME NEW i \in 0..n, \A j \in (i + 1)..n : j \in S PROVE i \in S
  <2>1. CASE Matches(b, i) = {}
    <3>1. BodyOf(b)[i] = BodyRest(b, i) /\ SpansOf(b)[i] = Sub(b, i, n)
      BY <2>1, BodyUnfold, SpansUnfold
    <3>2. BodyOf(b)[i] = [sb |-> Sub(b, i, n), map |-> [k \in i..n |-> k - i]]
      BY <3>1 DEF BodyRest
    <3>3. n \in i..n
      BY <1>1
    <3>4. Anchors(BodyOf(b)[i], b, i, n) /\ BodyOf(b)[i].map[i] = 0
      BY <3>2, <3>3, WrittenFacts
    <3>5. BodyOf(b)[i].sb = SpansOf(b)[i]
      BY <3>1, <3>2
    <3> QED BY <3>4, <3>5
  <2>2. CASE Matches(b, i) # {}
    <3>1. PICK j \in (i + 1)..n : j = NextOf(b, i)
      BY <2>2, NextFacts
    <3>2. j \in S
      BY <1>2
    <3>3. PICK rest : rest = BodyOf(b)[j]
      OBVIOUS
    <3>4. Anchors(rest, b, NextOf(b, i), n) /\ rest.map[NextOf(b, i)] = 0 /\ rest.sb = SpansOf(b)[j]
      BY <3>1, <3>2, <3>3
    <3>5. BodyOf(b)[i] = BodyMatch(b, i, rest) /\ SpansOf(b)[i] = SpansMatch(b, i, rest.sb)
      <4>1. /\ BodyOf(b)[i] = BodyMatch(b, i, BodyOf(b)[NextOf(b, i)])
            /\ SpansOf(b)[i] = SpansMatch(b, i, SpansOf(b)[NextOf(b, i)])
        BY <2>2, BodyUnfold, SpansUnfold
      <4> QED BY <3>1, <3>3, <3>4, <4>1
    <3>6. /\ Anchors(BodyOf(b)[i], b, i, n) /\ BodyOf(b)[i].map[i] = 0
          /\ BodyOf(b)[i].sb = SpansMatch(b, i, rest.sb)
      BY <2>2, <3>4, <3>5, BodyMatchFacts
    <3> QED BY <3>5, <3>6
  <2> QED BY <2>1, <2>2
<1>3. 0 \in S
  <2>1. \A k \in 0..n : k \in S
    <3> HIDE DEF S
    <3> QED BY <1>1, <1>2, Backwards
  <2>2. 0 \in 0..n
    BY <1>1
  <2> QED BY <2>1, <2>2, Zenon
<1> QED BY <1>3, BodyIs, SpansAre

(* What is hidden in front of a line is marks.                               *)
LEMMA IndentFacts ==
  ASSUME NEW line \in Seq(Characters)
  PROVE  Indent(line) \in 0..Len(line) /\ \A k \in 1..Indent(line) : line[k] = SP
<1> DEFINE S == {i \in 0..Len(line) : i = Len(line) \/ line[i + 1] # SP}
<1>1. Len(line) \in Nat
  BY LenProperties
<1>2. Len(line) \in S /\ S \in SUBSET Nat
  BY <1>1
<1>3. PICK w : w = Indent(line)
  OBVIOUS
<1>4. w \in S /\ \A x \in S : w <= x
  <2>1. Least(S) \in S /\ \A x \in S : Least(S) <= x
    <3> HIDE DEF S
    <3> QED BY <1>2, LeastOf
  <2> QED BY <1>3, <2>1 DEF Indent
<1>5. ASSUME NEW k \in 1..w PROVE line[k] = SP
  <2>1. k - 1 \in 0..Len(line) /\ (k - 1) + 1 = k /\ ~(w <= k - 1)
    BY <1>1, <1>4
  <2> QED BY <1>4, <2>1
<1> QED BY <1>3, <1>4, <1>5

\* The first p characters of a line are marks.
Marked(line, p) == p \in 0..Len(line) /\ \A k \in 1..p : line[k] \notin Plain

LEMMA MarkOnce ==
  ASSUME NEW line \in Seq(Characters), NEW p, Marked(line, p), NEW ch \in Characters \ Plain,
         StandsAt(line, p, <<ch>>)
  PROVE  Marked(line, p + 1)
<1>1. Len(line) \in Nat
  BY LenProperties
<1>2. PICK m \in Seq(Characters) : m = <<ch>>
  <2>1. ch \in Characters
    OBVIOUS
  <2>2. <<ch>> \in Seq(Characters)
    BY <2>1
  <2> QED BY <2>2
<1>3. Len(m) = 1 /\ m[1] = ch
  BY <1>2
<1>4. p \in Int /\ p >= 0 /\ p <= Len(line)
  BY <1>1 DEF Marked
<1>5. p + 1 <= Len(line) /\ line[p + 1] = ch
  <2>1. p + Len(m) <= Len(line) /\ \A k \in 1..Len(m) : line[p + k] = m[k]
    <3>1. StandsAt(line, p, m)
      BY <1>2, Zenon
    <3>2. m \in Seq(Characters) /\ p \in Int
      BY <1>4
    <3> QED BY <3>1, <3>2, StandsFacts
  <2> QED BY <1>3, <2>1
<1>6. \A k \in 1..(p + 1) : k \in 1..p \/ k = p + 1
  BY <1>4
<1>7. ch \notin Plain
  OBVIOUS
<1>8. \A k \in 1..(p + 1) : line[k] \notin Plain
  BY <1>5, <1>6, <1>7 DEF Marked
<1>9. p + 1 \in 0..Len(line)
  BY <1>1, <1>4, <1>5
<1> QED BY <1>8, <1>9 DEF Marked

LEMMA GapMarked ==
  ASSUME NEW line \in Seq(Characters), NEW p, Marked(line, p)
  PROVE  Marked(line, Gap(line, p))
<1>1. SP \in Characters \ Plain
  BY DEF Characters, Whitespace, Plain, SP, NL
<1> QED BY <1>1, MarkOnce DEF Gap

LEMMA PrefixMarked ==
  ASSUME NEW line \in Seq(Characters)
  PROVE  /\ Marked(line, ParseLine(line).prefix)
         /\ Ornament(ParseLine(line).kind) \in Seq(Signs)
<1>1. Len(line) \in Nat
  BY LenProperties
<1>2. "-" \in Characters \ Plain /\ ">" \in Characters \ Plain /\ SP \notin Plain
      /\ "#" \notin Plain /\ \A ch \in Boxes : ch \notin Plain
  BY DEF Characters, Plain, SP, NL, Boxes
<1>3. PICK w : w = Indent(line)
  OBVIOUS
<1>4. w \in 0..Len(line) /\ w \in Int /\ w >= 0
  BY <1>1, <1>3, IndentFacts
<1>5. Marked(line, w)
  <2>1. \A k \in 1..w : line[k] = SP
    BY <1>3, IndentFacts
  <2> QED BY <1>2, <1>4, <2>1 DEF Marked
<1>6. Marked(line, 0)
  BY <1>1 DEF Marked
<1> DEFINE check  == StandsAt(line, w, <<"-", SP>>) /\ w + 2 < Len(line) /\ line[w + 3] \in Boxes
           bullet == IF StandsAt(line, w, <<"-">>) THEN Gap(line, w + 1) ELSE 0
           listed == ~check /\ bullet > 0 /\ \E i \in (bullet + 1)..Len(line) : line[i] # SP
<1>7. ASSUME check PROVE Marked(line, Gap(line, w + 3))
  <2>1. PICK m \in Seq(Characters) : m = <<"-", SP>>
    <3>1. "-" \in Characters /\ SP \in Characters
      BY DEF Characters, Whitespace
    <3>2. \A u, v \in Characters : <<u, v>> \in Seq(Characters)
      OBVIOUS
    <3> QED BY <3>1, <3>2
  <2>2. Len(m) = 2 /\ m[1] = "-" /\ m[2] = SP
    BY <2>1
  <2>3. line[w + 1] = "-" /\ line[w + 2] = SP
    <3>1. \A k \in 1..Len(m) : line[w + k] = m[k]
      <4>1. StandsAt(line, w, m)
        BY <1>7, <2>1, Zenon
      <4>2. m \in Seq(Characters) /\ w \in Int
        BY <1>4
      <4> QED BY <4>1, <4>2, StandsFacts
    <3> QED BY <2>2, <3>1
  <2>4. w + 3 \in 0..Len(line) /\ \A k \in 1..(w + 3) : k \in 1..w \/ k = w + 1 \/ k = w + 2 \/ k = w + 3
    BY <1>1, <1>4, <1>7
  <2>5. line[w + 1] \notin Plain /\ line[w + 2] \notin Plain /\ line[w + 3] \notin Plain
    BY <1>2, <1>7, <2>3
  <2>6. Marked(line, w + 3)
    BY <1>5, <2>4, <2>5 DEF Marked
  <2> QED BY <2>6, GapMarked
<1>8. Marked(line, HeadingPrefix(line))
  <2>1. PICK h : h = HeadingPrefix(line)
    OBVIOUS
  <2>2. h \in {0, 2, 3, 4} /\ h <= Len(line)
        /\ (h > 0 => line[h] = SP /\ \A k \in 1..(h - 1) : line[k] = "#")
    BY <2>1, HeadingFacts
  <2>3. h \in 0..Len(line) /\ \A k \in 1..h : h > 0 /\ (k = h \/ k \in 1..(h - 1))
    BY <1>1, <2>2
  <2>4. \A k \in 1..h : line[k] \notin Plain
    BY <1>2, <2>2, <2>3
  <2> QED BY <2>1, <2>3, <2>4 DEF Marked
<1>9. StandsAt(line, 0, <<">">>) => Marked(line, Gap(line, 1))
  <2>1. StandsAt(line, 0, <<">">>) => Marked(line, 0 + 1)
    BY <1>2, <1>6, MarkOnce
  <2> QED BY <2>1, GapMarked
<1>10. listed => Marked(line, bullet)
  <2>1. CASE StandsAt(line, w, <<"-">>)
    <3>1. Marked(line, w + 1)
      BY <1>2, <1>5, <2>1, MarkOnce
    <3> QED BY <2>1, <3>1, GapMarked
  <2>2. CASE ~StandsAt(line, w, <<"-">>)
    BY <1>6, <2>2
  <2> QED BY <2>1, <2>2
<1>11. \/ ParseLine(line) = [kind |-> "check", prefix |-> Gap(line, w + 3)] /\ check
       \/ ParseLine(line) = [kind |-> "heading", prefix |-> HeadingPrefix(line)]
       \/ ParseLine(line) = [kind |-> "quote", prefix |-> Gap(line, 1)] /\ StandsAt(line, 0, <<">">>)
       \/ ParseLine(line) = [kind |-> "list", prefix |-> bullet] /\ listed
       \/ ParseLine(line) = [kind |-> "paragraph", prefix |-> 0]
  BY <1>3 DEF ParseLine
<1>12. ParseLine(line).kind \in {"check", "heading", "quote", "list", "paragraph"}
  <2> HIDE DEF check, listed, bullet
  <2> QED BY <1>11
<1>13. Marked(line, ParseLine(line).prefix)
  <2> HIDE DEF check, listed, bullet
  <2> QED BY <1>6, <1>7, <1>8, <1>9, <1>10, <1>11
<1>14. \A kind \in {"check", "heading", "quote", "list", "paragraph"} : Ornament(kind) \in Seq(Signs)
  <2>1. SP \in Signs /\ "bar" \in Signs /\ "mark" \in Signs /\ "dot" \in Signs
    BY DEF Signs, Characters, Whitespace
  <2>2. Ornament("check") \in Seq(Signs)
    BY <2>1 DEF Ornament
  <2>3. Ornament("heading") \in Seq(Signs)
    BY <2>1 DEF Ornament
  <2>4. Ornament("quote") \in Seq(Signs)
    BY <2>1 DEF Ornament
  <2>5. Ornament("list") \in Seq(Signs)
    BY <2>1 DEF Ornament
  <2>6. Ornament("paragraph") \in Seq(Signs)
    BY <2>1 DEF Ornament
  <2> QED BY <2>2, <2>3, <2>4, <2>5, <2>6
<1> QED BY <1>12, <1>13, <1>14

(* One line of the preview, and all of them.                                 *)
\* What a line away from the caret is shown as, according to the reader.
LineShown(t, s, e, cursor) ==
  LET line == Sub(t, s, e)
      b    == ParseLine(line)
  IN IF Verbatim(t, s, e, cursor) THEN line
     ELSE Ornament(b.kind) \o Spans(Sub(line, b.prefix, Len(line)))

\* And according to the preview, the line being of offsets s..e.
Hidden(s, e, line) ==
  LET b    == ParseLine(line)
      lead == Ornament(b.kind)
      body == BodyPreview(Sub(line, b.prefix, Len(line)))
  IN [sb  |-> lead \o body.sb,
      map |-> [k \in s..e |-> IF k - s < b.prefix THEN Len(lead)
                              ELSE Len(lead) + body.map[k - s - b.prefix]]]

LEMMA HiddenIs ==
  ASSUME NEW t, NEW s, NEW e, NEW cursor, ~Verbatim(t, s, e, cursor)
  PROVE  LinePreview(t, s, e, cursor) = Hidden(s, e, Sub(t, s, e))
BY DEF LinePreview, Hidden

LEMMA LineAnchored ==
  ASSUME NEW t \in Seq(Characters), NEW s \in 0..Len(t), NEW e \in s..Len(t), NEW cursor
  PROVE  /\ Anchors(LinePreview(t, s, e, cursor), t, s, e)
         /\ LinePreview(t, s, e, cursor).sb = LineShown(t, s, e, cursor)
<1>1. Len(t) \in Nat /\ s \in Nat /\ e \in Nat /\ s <= e
  BY LenProperties
<1>2. PICK line \in Seq(Characters) : /\ line = Sub(t, s, e) /\ Len(line) = e - s
                                      /\ \A k \in 1..(e - s) : line[k] = t[s + k]
  <2>1. /\ Sub(t, s, e) \in Seq(Characters) /\ Len(Sub(t, s, e)) = e - s
        /\ \A k \in 1..(e - s) : Sub(t, s, e)[k] = t[s + k]
    BY SubFacts
  <2> QED BY <2>1
<1>3. CASE Verbatim(t, s, e, cursor)
  <2>1. /\ LinePreview(t, s, e, cursor) = [sb |-> Sub(t, s, e), map |-> [k \in s..e |-> k - s]]
        /\ LineShown(t, s, e, cursor) = Sub(t, s, e)
    BY <1>3 DEF LinePreview, LineShown
  <2>2. Anchors(LinePreview(t, s, e, cursor), t, s, e)
    BY <2>1, WrittenFacts
  <2> QED BY <2>1, <2>2
<1>4. CASE ~Verbatim(t, s, e, cursor)
  <2>1. PICK x, lead, rest, body, n :
          /\ x = ParseLine(line).prefix /\ lead = Ornament(ParseLine(line).kind)
          /\ rest = Sub(line, x, Len(line)) /\ body = BodyPreview(rest) /\ n = Len(lead)
    OBVIOUS
  <2>2. PICK p : p = LinePreview(t, s, e, cursor)
    OBVIOUS
  <2>3. p = [sb  |-> lead \o body.sb,
             map |-> [k \in s..e |-> IF k - s < x THEN n ELSE n + body.map[k - s - x]]]
    <3>1. p = Hidden(s, e, line)
      <4>1. line = Sub(t, s, e)
        BY <1>2
      <4> QED BY <1>4, <2>2, <4>1, HiddenIs, Zenon
    <3>2. PICK block : block = ParseLine(line) /\ x = block.prefix /\ lead = Ornament(block.kind)
      BY <2>1
    <3>3. p = [sb  |-> lead \o BodyPreview(Sub(line, x, Len(line))).sb,
               map |-> [k \in s..e |->
                          IF k - s < x THEN Len(lead)
                          ELSE Len(lead) + BodyPreview(Sub(line, x, Len(line))).map[k - s - x]]]
      BY <3>1, <3>2 DEF Hidden
    <3> QED BY <2>1, <3>3
  <2>4. LineShown(t, s, e, cursor) = lead \o Spans(rest)
    BY <1>2, <1>4, <2>1 DEF LineShown
  <2>5. Marked(line, x) /\ lead \in Seq(Signs)
    BY <2>1, PrefixMarked
  <2>6. x \in 0..(e - s) /\ x \in Nat /\ \A k \in 1..x : line[k] \notin Plain
    BY <1>1, <1>2, <2>5 DEF Marked
  <2>7. n \in Nat
    BY <2>1, <2>5, LenProperties
  <2>8. PICK l : l = (e - s) - x
    OBVIOUS
  <2>9. /\ rest \in Seq(Characters) /\ Len(rest) = l
        /\ \A k \in 1..l : rest[k] = line[x + k]
    <3>1. x \in 0..Len(line) /\ Len(line) \in x..Len(line)
      BY <1>1, <1>2, <2>6
    <3>2. /\ Sub(line, x, Len(line)) \in Seq(Characters) /\ Len(Sub(line, x, Len(line))) = Len(line) - x
          /\ \A k \in 1..(Len(line) - x) : Sub(line, x, Len(line))[k] = line[x + k]
      BY <3>1, SubFacts
    <3>3. Len(line) - x = l
      BY <1>2, <2>8
    <3> QED BY <2>1, <3>2, <3>3, Zenon
  <2>10. /\ l \in Nat /\ e = s + x + l
         /\ Anchors(body, rest, 0, l) /\ body.map[0] = 0 /\ body.sb = Spans(rest)
    <3>1. Anchors(body, rest, 0, Len(rest)) /\ body.map[0] = 0 /\ body.sb = Spans(rest)
      BY <2>1, <2>9, BodyAnchored
    <3>2. l \in Nat /\ e = s + x + l
      BY <1>1, <2>6, <2>8
    <3> QED BY <2>9, <3>1, <3>2
  <2>11. PICK R, r : R = body.sb /\ r = Len(body.sb)
    OBVIOUS
  <2>12. /\ R \in Seq(Signs) /\ r \in Nat /\ r = Len(R)
         /\ body.map \in [0..l -> 0..r] /\ body.map[l] = r
         /\ \A k \in 0..(l - 1) : StepKept(body, rest, k)
    BY <2>10, <2>11, LenProperties DEF Anchors
  <2>13. /\ p.sb \in Seq(Signs) /\ Len(p.sb) = n + r
         /\ \A k \in 1..r : p.sb[n + k] = R[k]
    <3>1. p.sb = lead \o R
      BY <2>3, <2>11
    <3>2. /\ lead \o R \in Seq(Signs) /\ Len(lead \o R) = Len(lead) + Len(R)
          /\ \A k \in 1..(Len(lead) + Len(R)) :
               (lead \o R)[k] = IF k <= Len(lead) THEN lead[k] ELSE R[k - Len(lead)]
      BY <2>5, <2>12, ConcatProperties
    <3>3. /\ p.sb \in Seq(Signs) /\ Len(p.sb) = n + r
          /\ \A k \in 1..(n + r) : p.sb[k] = IF k <= n THEN lead[k] ELSE R[k - n]
      BY <2>1, <2>12, <3>1, <3>2, Zenon
    <3>4. \A k \in 1..r : n + k \in 1..(n + r) /\ ~(n + k <= n) /\ (n + k) - n = k
      BY <2>7, <2>12
    <3> QED BY <3>3, <3>4
  <2>14. p.map = [k \in s..e |-> IF k - s < x THEN n ELSE n + body.map[k - s - x]]
    BY <2>3
  <2>15. ASSUME NEW k \in s..e
         PROVE  /\ k - s < x => p.map[k] = n
                /\ ~(k - s < x) => /\ (k - s) - x \in 0..l /\ body.map[(k - s) - x] \in 0..r
                                   /\ p.map[k] = n + body.map[(k - s) - x]
    <3>1. p.map[k] = IF k - s < x THEN n ELSE n + body.map[k - s - x]
      BY <2>14
    <3>2. ~(k - s < x) => (k - s) - x \in 0..l
      <4>1. k \in Nat /\ s <= k /\ k <= s + x + l /\ s \in Nat /\ x \in Nat /\ l \in Nat
        BY <1>1, <2>6, <2>10
      <4> QED BY <4>1
    <3>3. ~(k - s < x) => body.map[(k - s) - x] \in 0..r
      BY <2>12, <3>2
    <3> QED BY <3>1, <3>2, <3>3
  <2>16. p.map \in [s..e -> 0..Len(p.sb)]
    <3>1. \A z \in 0..r : n + z \in 0..(n + r)
      BY <2>7, <2>12
    <3>2. n \in 0..(n + r)
      BY <2>7, <2>12
    <3>3. \A k \in s..e : p.map[k] \in 0..(n + r)
      BY <2>15, <3>1, <3>2, Zenon
    <3> QED BY <2>13, <2>14, <3>3
  <2>17. p.map[e] = Len(p.sb)
    <3>1. e \in s..e /\ ~(e - s < x) /\ (e - s) - x = l
      BY <1>1, <2>6, <2>10
    <3>2. p.map[e] = n + body.map[l]
      BY <2>15, <3>1
    <3> QED BY <2>12, <2>13, <3>2
  <2>18. ASSUME NEW k \in s..(e - 1) PROVE StepKept(p, t, k)
    <3>1. k \in s..e /\ k + 1 \in s..e /\ k \in Nat /\ k - s \in Nat /\ (k + 1) - s = (k - s) + 1
      BY <1>1
    <3>2. CASE k - s < x
      <4>1. p.map[k] = n
        BY <2>15, <3>1, <3>2
      <4>2. p.map[k + 1] = n
        <5>1. CASE (k + 1) - s < x
          BY <2>15, <3>1, <5>1
        <5>2. CASE ~((k + 1) - s < x)
          <6>1. ((k + 1) - s) - x = 0
            BY <2>6, <3>1, <3>2, <5>2
          <6>2. p.map[k + 1] = n + body.map[0]
            BY <2>15, <3>1, <5>2, <6>1
          <6> QED BY <2>7, <2>10, <6>2
        <5> QED BY <5>1, <5>2
      <4>3. t[k + 1] \notin Plain
        <5>1. (k - s) + 1 \in 1..x /\ (k - s) + 1 \in 1..(e - s) /\ s + ((k - s) + 1) = k + 1
          BY <1>1, <2>6, <3>1, <3>2
        <5> QED BY <1>2, <2>6, <5>1
      <4> QED BY <2>7, <4>1, <4>2, <4>3 DEF StepKept
    <3>3. CASE ~(k - s < x)
      <4>1. PICK h : h = (k - s) - x
        OBVIOUS
      <4>2. /\ h \in 0..(l - 1) /\ h \in Nat /\ ((k + 1) - s) - x = h + 1 /\ ~((k + 1) - s < x)
            /\ h + 1 \in 1..l /\ x + (h + 1) \in 1..(e - s) /\ s + (x + (h + 1)) = k + 1
        BY <1>1, <2>6, <2>10, <3>1, <3>3, <4>1
      <4>3. /\ p.map[k] = n + body.map[h] /\ body.map[h] \in 0..r
        BY <2>15, <3>1, <3>3, <4>1
      <4>4. p.map[k + 1] = n + body.map[h + 1] /\ body.map[h + 1] \in 0..r
        BY <2>15, <3>1, <4>2
      <4>5. PICK a, c : a = body.map[h] /\ c = body.map[h + 1]
        OBVIOUS
      <4>6. a \in 0..r /\ c \in 0..r /\ p.map[k] = n + a /\ p.map[k + 1] = n + c
        BY <4>3, <4>4, <4>5
      <4>7. rest[h + 1] = t[k + 1]
        BY <1>2, <2>9, <4>2
      <4>8. a <= c /\ (c > a => R[a + 1] = t[k + 1]) /\ (t[k + 1] \in Plain => c > a)
        <5>1. StepKept(body, rest, h)
          BY <2>12, <4>2
        <5> QED BY <2>11, <4>5, <4>7, <5>1, Zenon DEF StepKept
      <4>9. c > a => p.sb[(n + a) + 1] = t[k + 1]
        <5>1. c > a => a + 1 \in 1..r /\ n + (a + 1) = (n + a) + 1
          BY <2>7, <2>12, <4>6, LaterColumn
        <5> QED BY <2>13, <4>8, <5>1
      <4>10. n + a <= n + c /\ (n + c > n + a <=> c > a)
        BY <2>7, <2>12, <4>6, <4>8, LaterColumn
      <4> QED BY <4>6, <4>8, <4>9, <4>10, Zenon DEF StepKept
    <3> QED BY <3>2, <3>3
  <2>19. Anchors(p, t, s, e)
    BY <2>13, <2>16, <2>17, <2>18 DEF Anchors
  <2>20. p.sb = LineShown(t, s, e, cursor)
    <3>1. p.sb = lead \o body.sb
      BY <2>3
    <3> QED BY <2>4, <2>10, <3>1
  <2> QED BY <2>2, <2>19, <2>20
<1> QED BY <1>3, <1>4

(* The recursion over the lines, one step at a time.                         *)
NextLine(t, s) == LineEnd(t, s) + 1

LiveMore(t, s, cursor, rest) ==
  LET e    == LineEnd(t, s)
      line == LinePreview(t, s, e, cursor)
  IN [sb  |-> Append(line.sb, NL) \o rest.sb,
      map |-> [k \in s..Len(t) |-> IF k <= e THEN line.map[k]
                                   ELSE Len(line.sb) + 1 + rest.map[k]]]

PreviewOf(t, cursor) ==
  CHOOSE from : from = [s \in 0..Len(t) |->
                          IF LineEnd(t, s) = Len(t) THEN LinePreview(t, s, LineEnd(t, s), cursor)
                          ELSE LiveMore(t, s, cursor, from[NextLine(t, s)])]

ShownMore(t, s, cursor, rest) == Append(LineShown(t, s, LineEnd(t, s), cursor), NL) \o rest

ShownOf(t, cursor) ==
  CHOOSE from : from = [s \in 0..Len(t) |->
                          IF LineEnd(t, s) = Len(t) THEN LineShown(t, s, LineEnd(t, s), cursor)
                          ELSE ShownMore(t, s, cursor, from[NextLine(t, s)])]

LEMMA PreviewIs == ASSUME NEW t, NEW cursor PROVE LivePreview(t, cursor) = PreviewOf(t, cursor)[0]
BY DEF LivePreview, PreviewOf, LiveMore, NextLine

LEMMA ShownIs == Shown = ShownOf(text, caret)[0]
BY DEF Shown, ShownOf, ShownMore, LineShown, NextLine

LEMMA LineNext ==
  ASSUME NEW t \in Seq(Characters), NEW i \in 0..Len(t)
  PROVE  LineEnd(t, i) \in i..Len(t)
         /\ (LineEnd(t, i) # Len(t) => NextLine(t, i) \in (i + 1)..Len(t) /\ t[NextLine(t, i)] = NL)
<1>1. Len(t) \in Nat
  BY LenProperties
<1>2. PICK e : e = LineEnd(t, i)
  OBVIOUS
<1>3. e \in i..Len(t) /\ (e = Len(t) \/ t[e + 1] = NL)
  BY <1>2, LineEndFacts
<1> QED BY <1>1, <1>2, <1>3 DEF NextLine

LEMMA PreviewUnfold ==
  ASSUME NEW t \in Seq(Characters), NEW cursor, NEW i \in 0..Len(t)
  PROVE  PreviewOf(t, cursor)[i] = IF LineEnd(t, i) = Len(t) THEN LinePreview(t, i, LineEnd(t, i), cursor)
                        ELSE LiveMore(t, i, cursor, PreviewOf(t, cursor)[NextLine(t, i)])
<1> DEFINE n == Len(t)
           E(g, k) == IF LineEnd(t, k) = Len(t) THEN LinePreview(t, k, LineEnd(t, k), cursor)
                      ELSE LiveMore(t, k, cursor, g[NextLine(t, k)])
           S == {k \in 0..n : \E g : g = [j \in k..n |-> E(g, j)]}
<1>1. n \in Nat
  BY LenProperties
<1>2. \A k \in 0..n : LineEnd(t, k) # Len(t) => NextLine(t, k) \in (k + 1)..n
  BY LineNext
<1>3. ASSUME NEW k \in 0..n, \A j \in (k + 1)..n : j \in S PROVE k \in S
  <2>1. PICK g : \A j \in (k + 1)..n : j \in DOMAIN g /\ g[j] = E(g, j)
    <3>1. CASE k + 1 \in 0..n
      <4>1. k + 1 \in S
        <5>1. k + 1 \in (k + 1)..n
          BY <1>1, <3>1
        <5> QED BY <1>3, <5>1, Zenon
      <4>2. PICK g : g = [j \in (k + 1)..n |-> E(g, j)]
        BY <4>1
      <4>3. \A j \in (k + 1)..n : j \in DOMAIN g /\ g[j] = E(g, j)
        <5> HIDE DEF E
        <5> QED BY <4>2, Zenon
      <4> QED BY <4>3
    <3>2. CASE ~(k + 1 \in 0..n)
      <4>1. \A j \in (k + 1)..n : FALSE
        BY <1>1, <3>2
      <4> QED BY <4>1
    <3> QED BY <3>1, <3>2
  <2> DEFINE h == [j \in k..n |-> IF j = k THEN E(g, k) ELSE g[j]]
  <2>2. \A j \in k..n : j = k \/ j \in (k + 1)..n
    BY <1>1
  <2>3. ASSUME NEW j \in k..n PROVE h[j] = E(h, j)
    <3>1. E(h, j) = E(g, j)
      <4>1. CASE LineEnd(t, j) = Len(t)
        BY <4>1
      <4>2. CASE LineEnd(t, j) # Len(t)
        <5>1. NextLine(t, j) \in k..n /\ NextLine(t, j) # k
          BY <1>1, <1>2, <4>2
        <5>2. h[NextLine(t, j)] = g[NextLine(t, j)]
          BY <5>1
        <5> QED BY <5>2
      <4> QED BY <4>1, <4>2
    <3>2. h[j] = E(g, j)
      <4>1. h[j] = IF j = k THEN E(g, k) ELSE g[j]
        OBVIOUS
      <4> HIDE DEF E, h
      <4> QED BY <2>1, <2>2, <4>1
    <3> QED BY <3>1, <3>2
  <2>4. h = [j \in k..n |-> E(h, j)]
    <3>1. h = [j \in k..n |-> h[j]]
      OBVIOUS
    <3> HIDE DEF E, h
    <3> QED BY <2>3, <3>1
  <2> HIDE DEF h, E
  <2> QED BY <2>4
<1>4. 0 \in S
  <2>1. \A k \in 0..n : k \in S
    <3> HIDE DEF S
    <3> QED BY <1>1, <1>3, Backwards
  <2>2. 0 \in 0..n
    BY <1>1
  <2> QED BY <2>1, <2>2, Zenon
<1>5. PICK g : g = [j \in 0..n |-> E(g, j)]
  BY <1>4
<1>6. PreviewOf(t, cursor) = [j \in 0..n |-> E(PreviewOf(t, cursor), j)]
  BY <1>5, Zenon DEF PreviewOf
<1> HIDE DEF E
<1>7. PreviewOf(t, cursor)[i] = E(PreviewOf(t, cursor), i)
  BY <1>6, Zenon
<1> QED BY <1>7 DEF E

LEMMA ShownUnfold ==
  ASSUME NEW t \in Seq(Characters), NEW cursor, NEW i \in 0..Len(t)
  PROVE  ShownOf(t, cursor)[i] = IF LineEnd(t, i) = Len(t) THEN LineShown(t, i, LineEnd(t, i), cursor)
                        ELSE ShownMore(t, i, cursor, ShownOf(t, cursor)[NextLine(t, i)])
<1> DEFINE n == Len(t)
           E(g, k) == IF LineEnd(t, k) = Len(t) THEN LineShown(t, k, LineEnd(t, k), cursor)
                      ELSE ShownMore(t, k, cursor, g[NextLine(t, k)])
           S == {k \in 0..n : \E g : g = [j \in k..n |-> E(g, j)]}
<1>1. n \in Nat
  BY LenProperties
<1>2. \A k \in 0..n : LineEnd(t, k) # Len(t) => NextLine(t, k) \in (k + 1)..n
  BY LineNext
<1>3. ASSUME NEW k \in 0..n, \A j \in (k + 1)..n : j \in S PROVE k \in S
  <2>1. PICK g : \A j \in (k + 1)..n : j \in DOMAIN g /\ g[j] = E(g, j)
    <3>1. CASE k + 1 \in 0..n
      <4>1. k + 1 \in S
        <5>1. k + 1 \in (k + 1)..n
          BY <1>1, <3>1
        <5> QED BY <1>3, <5>1, Zenon
      <4>2. PICK g : g = [j \in (k + 1)..n |-> E(g, j)]
        BY <4>1
      <4>3. \A j \in (k + 1)..n : j \in DOMAIN g /\ g[j] = E(g, j)
        <5> HIDE DEF E
        <5> QED BY <4>2, Zenon
      <4> QED BY <4>3
    <3>2. CASE ~(k + 1 \in 0..n)
      <4>1. \A j \in (k + 1)..n : FALSE
        BY <1>1, <3>2
      <4> QED BY <4>1
    <3> QED BY <3>1, <3>2
  <2> DEFINE h == [j \in k..n |-> IF j = k THEN E(g, k) ELSE g[j]]
  <2>2. \A j \in k..n : j = k \/ j \in (k + 1)..n
    BY <1>1
  <2>3. ASSUME NEW j \in k..n PROVE h[j] = E(h, j)
    <3>1. E(h, j) = E(g, j)
      <4>1. CASE LineEnd(t, j) = Len(t)
        BY <4>1
      <4>2. CASE LineEnd(t, j) # Len(t)
        <5>1. NextLine(t, j) \in k..n /\ NextLine(t, j) # k
          BY <1>1, <1>2, <4>2
        <5>2. h[NextLine(t, j)] = g[NextLine(t, j)]
          BY <5>1
        <5> QED BY <5>2
      <4> QED BY <4>1, <4>2
    <3>2. h[j] = E(g, j)
      <4>1. h[j] = IF j = k THEN E(g, k) ELSE g[j]
        OBVIOUS
      <4> HIDE DEF E, h
      <4> QED BY <2>1, <2>2, <4>1
    <3> QED BY <3>1, <3>2
  <2>4. h = [j \in k..n |-> E(h, j)]
    <3>1. h = [j \in k..n |-> h[j]]
      OBVIOUS
    <3> HIDE DEF E, h
    <3> QED BY <2>3, <3>1
  <2> HIDE DEF h, E
  <2> QED BY <2>4
<1>4. 0 \in S
  <2>1. \A k \in 0..n : k \in S
    <3> HIDE DEF S
    <3> QED BY <1>1, <1>3, Backwards
  <2>2. 0 \in 0..n
    BY <1>1
  <2> QED BY <2>1, <2>2, Zenon
<1>5. PICK g : g = [j \in 0..n |-> E(g, j)]
  BY <1>4
<1>6. ShownOf(t, cursor) = [j \in 0..n |-> E(ShownOf(t, cursor), j)]
  BY <1>5, Zenon DEF ShownOf
<1> HIDE DEF E
<1>7. ShownOf(t, cursor)[i] = E(ShownOf(t, cursor), i)
  BY <1>6, Zenon
<1> QED BY <1>7 DEF E

LEMMA MoreAnchored ==
  ASSUME NEW t \in Seq(Characters), NEW s \in 0..Len(t), NEW cursor, LineEnd(t, s) # Len(t),
         NEW rest, Anchors(rest, t, NextLine(t, s), Len(t)),
         NEW p, p = LiveMore(t, s, cursor, rest)
  PROVE  /\ Anchors(p, t, s, Len(t))
         /\ p.sb = ShownMore(t, s, cursor, rest.sb)
<1>1. PICK n, e, f, line : /\ n = Len(t) /\ e = LineEnd(t, s) /\ f = NextLine(t, s)
                           /\ line = LinePreview(t, s, LineEnd(t, s), cursor)
  OBVIOUS
<1>2. /\ n \in Nat /\ s \in Nat /\ e \in Nat /\ s <= e /\ f = e + 1 /\ f <= n /\ t[f] = NL
  <2>1. Len(t) \in Nat /\ LineEnd(t, s) \in s..Len(t)
        /\ NextLine(t, s) \in (s + 1)..Len(t) /\ t[NextLine(t, s)] = NL
        /\ NextLine(t, s) = LineEnd(t, s) + 1
    BY LenProperties, LineNext DEF NextLine
  <2>2. n \in Nat /\ e \in s..n /\ f \in (s + 1)..n /\ t[f] = NL /\ f = e + 1 /\ s \in 0..n
    BY <1>1, <2>1, Zenon
  <2> QED BY <2>2
<1>3. Anchors(line, t, s, e) /\ line.sb = LineShown(t, s, e, cursor)
  <2>1. LineEnd(t, s) \in s..Len(t)
    BY LineNext
  <2> QED BY <1>1, <2>1, LineAnchored
<1>4. PICK L, R, l, r : L = line.sb /\ R = rest.sb /\ l = Len(line.sb) /\ r = Len(rest.sb)
  OBVIOUS
<1>5. /\ L \in Seq(Signs) /\ l \in Nat /\ l = Len(L)
      /\ line.map \in [s..e -> 0..l] /\ line.map[e] = l
      /\ \A k \in s..(e - 1) : StepKept(line, t, k)
  BY <1>3, <1>4, LenProperties DEF Anchors
<1>6. /\ R \in Seq(Signs) /\ r \in Nat /\ r = Len(R)
      /\ rest.map \in [f..n -> 0..r] /\ rest.map[n] = r
      /\ \A k \in f..(n - 1) : StepKept(rest, t, k)
  BY <1>1, <1>4, LenProperties DEF Anchors
<1>7. PICK N \in Seq(Signs) : N = <<NL>> /\ Len(N) = 1 /\ N[1] = NL
  <2>1. NL \in Signs
    BY DEF Signs, Characters, Whitespace
  <2>2. <<NL>> \in Seq(Signs)
    BY <2>1
  <2> QED BY <2>2
<1>8. /\ p.sb = Append(L, NL) \o R
      /\ p.map = [k \in s..n |-> IF k <= e THEN line.map[k] ELSE l + 1 + rest.map[k]]
  <2>1. PICK A, F : /\ A = Append(L, NL) \o R
                    /\ F = [k \in s..n |-> IF k <= e THEN line.map[k] ELSE l + 1 + rest.map[k]]
    OBVIOUS
  <2>2. LiveMore(t, s, cursor, rest) = [sb |-> A, map |-> F]
    BY <1>1, <1>4, <2>1 DEF LiveMore
  <2>3. p = [sb |-> A, map |-> F]
    BY <2>2, Zenon
  <2>4. p.sb = A /\ p.map = F
    BY <2>3
  <2> QED BY <2>1, <2>4, Zenon
<1>9. /\ p.sb \in Seq(Signs) /\ Len(p.sb) = l + 1 + r
      /\ \A k \in 1..l : p.sb[k] = L[k]
      /\ p.sb[l + 1] = NL
      /\ \A k \in 1..r : p.sb[l + 1 + k] = R[k]
  <2>1. Append(L, NL) = L \o N
    <3>1. NL \in Signs
      BY DEF Signs, Characters, Whitespace
    <3> QED BY <1>5, <1>7, <3>1, AppendIsConcat
  <2>2. /\ L \o N \o R \in Seq(Signs)
        /\ Len(L \o N \o R) = Len(L) + Len(N) + Len(R)
        /\ \A k \in 1..Len(L) : (L \o N \o R)[k] = L[k]
        /\ \A k \in 1..Len(N) : (L \o N \o R)[Len(L) + k] = N[k]
        /\ \A k \in 1..Len(R) : (L \o N \o R)[Len(L) + Len(N) + k] = R[k]
    BY <1>5, <1>6, ThreeFacts
  <2>3. p.sb = L \o N \o R
    BY <1>8, <2>1
  <2>4. Len(L) = l /\ Len(N) = 1 /\ Len(R) = r
    BY <1>5, <1>6, <1>7
  <2>5. /\ p.sb \in Seq(Signs) /\ Len(p.sb) = l + 1 + r
        /\ \A k \in 1..l : p.sb[k] = L[k]
        /\ \A k \in 1..1 : p.sb[l + k] = N[k]
        /\ \A k \in 1..r : p.sb[l + 1 + k] = R[k]
    BY <2>2, <2>3, <2>4, Zenon
  <2>6. 1 \in 1..1
    OBVIOUS
  <2> QED BY <1>7, <2>5, <2>6, Zenon
<1>10. ASSUME NEW k \in s..n
       PROVE  /\ k <= e => line.map[k] \in 0..l /\ p.map[k] = line.map[k]
              /\ f <= k => rest.map[k] \in 0..r /\ p.map[k] = (l + 1) + rest.map[k]
  <2>1. p.map[k] = IF k <= e THEN line.map[k] ELSE l + 1 + rest.map[k]
    BY <1>8
  <2>2. k <= e => k \in s..e
    BY <1>2
  <2>3. f <= k => k \in f..n /\ ~(k <= e)
    BY <1>2
  <2> QED BY <1>5, <1>6, <2>1, <2>2, <2>3
<1>11. p.map \in [s..n -> 0..Len(p.sb)]
  <2>1. ASSUME NEW k \in s..n PROVE p.map[k] \in 0..Len(p.sb)
    <3>1. k <= e \/ f <= k
      BY <1>2
    <3>2. (\A z \in 0..l : z \in 0..(l + 1 + r)) /\ (\A z \in 0..r : (l + 1) + z \in 0..(l + 1 + r))
      BY <1>5, <1>6
    <3> QED BY <1>9, <1>10, <3>1, <3>2, Zenon
  <2> QED BY <1>8, <2>1
<1>12. p.map[n] = Len(p.sb)
  <2>1. n \in s..n /\ f <= n
    BY <1>2
  <2> QED BY <1>6, <1>9, <1>10, <2>1
<1>13. ASSUME NEW k \in s..(n - 1) PROVE StepKept(p, t, k)
  <2>1. k \in s..n /\ k + 1 \in s..n /\ k \in Nat
    BY <1>2
  <2>2. CASE k + 1 <= e
    <3>1. k <= e /\ k \in s..(e - 1)
      BY <1>2, <2>1, <2>2
    <3>2. PICK a, c : a = line.map[k] /\ c = line.map[k + 1]
      OBVIOUS
    <3>3. p.map[k] = a /\ p.map[k + 1] = c /\ a \in 0..l /\ c \in 0..l
      BY <1>10, <2>1, <2>2, <3>1, <3>2
    <3>4. a <= c /\ (c > a => L[a + 1] = t[k + 1]) /\ (t[k + 1] \in Plain => c > a)
      <4>1. StepKept(line, t, k)
        BY <1>5, <3>1
      <4> QED BY <1>4, <3>2, <4>1, Zenon DEF StepKept
    <3>5. c > a => a + 1 \in 1..l
      BY <1>5, <3>3
    <3>6. c > a => p.sb[a + 1] = t[k + 1]
      BY <1>9, <3>4, <3>5
    <3> QED BY <3>3, <3>4, <3>6, Zenon DEF StepKept
  <2>3. CASE k = e
    <3>1. p.map[k] = l
      BY <1>2, <1>5, <1>10, <2>1, <2>3
    <3>2. PICK c : c = rest.map[k + 1]
      OBVIOUS
    <3>3. k + 1 = f /\ f <= k + 1
      BY <1>2, <2>3
    <3>4. p.map[k + 1] = (l + 1) + c /\ c \in 0..r
      BY <1>10, <2>1, <3>2, <3>3
    <3>5. (l + 1) + c > l /\ l <= (l + 1) + c
      BY <1>5, <1>6, <3>4
    <3>6. p.sb[l + 1] = t[k + 1]
      BY <1>2, <1>9, <3>3
    <3> QED BY <3>1, <3>4, <3>5, <3>6, Zenon DEF StepKept
  <2>4. CASE f <= k
    <3>1. f <= k + 1 /\ k \in f..(n - 1)
      BY <1>2, <2>1, <2>4
    <3>2. PICK a, c : a = rest.map[k] /\ c = rest.map[k + 1]
      OBVIOUS
    <3>3. p.map[k] = (l + 1) + a /\ p.map[k + 1] = (l + 1) + c /\ a \in 0..r /\ c \in 0..r
      BY <1>10, <2>1, <2>4, <3>1, <3>2
    <3>4. a <= c /\ (c > a => R[a + 1] = t[k + 1]) /\ (t[k + 1] \in Plain => c > a)
      <4>1. StepKept(rest, t, k)
        BY <1>6, <3>1
      <4> QED BY <1>4, <3>2, <4>1, Zenon DEF StepKept
    <3>5. l + 1 \in Nat
      BY <1>5
    <3>6. c > a => p.sb[((l + 1) + a) + 1] = t[k + 1]
      <4>1. c > a => a + 1 \in 1..r /\ (l + 1) + (a + 1) = ((l + 1) + a) + 1
        BY <1>6, <3>3, <3>5, LaterColumn
      <4> QED BY <1>9, <3>4, <4>1
    <3>7. (l + 1) + a <= (l + 1) + c /\ ((l + 1) + c > (l + 1) + a <=> c > a)
      BY <1>6, <3>3, <3>4, <3>5, LaterColumn
    <3> QED BY <3>3, <3>4, <3>6, <3>7, Zenon DEF StepKept
  <2>5. k + 1 <= e \/ k = e \/ f <= k
    BY <1>2, <2>1
  <2> QED BY <2>2, <2>3, <2>4, <2>5
<1>14. Anchors(p, t, s, n)
  BY <1>9, <1>11, <1>12, <1>13 DEF Anchors
<1>15. p.sb = ShownMore(t, s, cursor, rest.sb)
  BY <1>1, <1>3, <1>4, <1>8 DEF ShownMore
<1> QED BY <1>1, <1>14, <1>15

(* The whole preview.                                                        *)
LEMMA LiveAnchored ==
  ASSUME NEW t \in Seq(Characters), NEW cursor
  PROVE  /\ Anchors(LivePreview(t, cursor), t, 0, Len(t))
         /\ LivePreview(t, cursor).sb = ShownOf(t, cursor)[0]
<1> DEFINE n == Len(t)
           S == {i \in 0..n : /\ Anchors(PreviewOf(t, cursor)[i], t, i, n)
                              /\ PreviewOf(t, cursor)[i].sb = ShownOf(t, cursor)[i]}
<1>1. n \in Nat
  BY LenProperties
<1>2. ASSUME NEW i \in 0..n, \A j \in (i + 1)..n : j \in S PROVE i \in S
  <2>1. CASE LineEnd(t, i) = n
    <3>1. /\ PreviewOf(t, cursor)[i] = LinePreview(t, i, n, cursor)
          /\ ShownOf(t, cursor)[i] = LineShown(t, i, n, cursor)
      BY <2>1, PreviewUnfold, ShownUnfold
    <3>2. n \in i..n
      BY <1>1
    <3> QED BY <3>1, <3>2, LineAnchored
  <2>2. CASE LineEnd(t, i) # n
    <3>1. PICK j \in (i + 1)..n : j = NextLine(t, i)
      BY <2>2, LineNext
    <3>2. j \in S
      BY <1>2
    <3>3. PICK rest : rest = PreviewOf(t, cursor)[j]
      OBVIOUS
    <3>4. Anchors(rest, t, NextLine(t, i), n) /\ rest.sb = ShownOf(t, cursor)[j]
      BY <3>1, <3>2, <3>3
    <3>5. /\ PreviewOf(t, cursor)[i] = LiveMore(t, i, cursor, rest)
          /\ ShownOf(t, cursor)[i] = ShownMore(t, i, cursor, rest.sb)
      <4>1. /\ PreviewOf(t, cursor)[i] = LiveMore(t, i, cursor, PreviewOf(t, cursor)[NextLine(t, i)])
            /\ ShownOf(t, cursor)[i] = ShownMore(t, i, cursor, ShownOf(t, cursor)[NextLine(t, i)])
        BY <2>2, PreviewUnfold, ShownUnfold
      <4> QED BY <3>1, <3>3, <3>4, <4>1
    <3>6. /\ Anchors(PreviewOf(t, cursor)[i], t, i, n)
          /\ PreviewOf(t, cursor)[i].sb = ShownMore(t, i, cursor, rest.sb)
      BY <2>2, <3>4, <3>5, MoreAnchored
    <3> QED BY <3>5, <3>6
  <2> QED BY <2>1, <2>2
<1>3. 0 \in S
  <2>1. \A k \in 0..n : k \in S
    <3> HIDE DEF S
    <3> QED BY <1>1, <1>2, Backwards
  <2>2. 0 \in 0..n
    BY <1>1
  <2> QED BY <2>1, <2>2, Zenon
<1> QED BY <1>3, PreviewIs

\* Where a tap leads.
LEMMA TapFacts ==
  ASSUME NEW t, NEW n \in Nat, NEW p, Anchors(p, t, 0, n), NEW col \in 0..Len(p.sb)
  PROVE  /\ ToOriginal(p, col) \in 0..n
         /\ ToOriginal(p, col) < n /\ p.map[ToOriginal(p, col)] <= col =>
              p.map[ToOriginal(p, col) + 1] > p.map[ToOriginal(p, col)]
<1> DEFINE S == {0} \cup {i \in DOMAIN p.map : p.map[i] <= col}
<1>1. PICK l : l = Len(p.sb) /\ p.sb \in Seq(Signs) /\ l \in Nat /\ p.map \in [0..n -> 0..l]
  BY LenProperties DEF Anchors
<1>2. S \in SUBSET (0..n) /\ S # {}
  BY <1>1
<1>3. PICK i : i = ToOriginal(p, col)
  OBVIOUS
<1>4. i \in S /\ \A x \in S : i >= x
  <2>1. Greatest(S) \in S /\ \A x \in S : Greatest(S) >= x
    <3> HIDE DEF S
    <3> QED BY <1>2, GreatestOf
  <2> QED BY <1>3, <2>1 DEF ToOriginal
<1>5. i \in 0..n
  BY <1>2, <1>4
<1>6. ASSUME i < n, p.map[i] <= col PROVE p.map[i + 1] > p.map[i]
  <2>1. i + 1 \in 0..n /\ ~(i >= i + 1)
    BY <1>5, <1>6
  <2>2. ~(p.map[i + 1] <= col)
    <3>1. DOMAIN p.map = 0..n
      BY <1>1
    <3> QED BY <1>4, <2>1, <3>1
  <2>3. p.map[i] \in 0..l /\ p.map[i + 1] \in 0..l /\ col \in Int
    BY <1>1, <1>5, <2>1
  <2> QED BY <1>1, <1>6, <2>2, <2>3
<1> QED BY <1>3, <1>5, <1>6

-----------------------------------------------------------------------------
(* The body field: what holds of every text and caret.                       *)

LEMMA AnchoredAnywhere ==
  ASSUME text \in Seq(Characters), caret \in 0..Len(text)
  PROVE  PreviewIsAnchored
<1>1. PICK n : n = Len(text) /\ n \in Nat
  BY LenProperties
<1>2. PICK p : p = Preview
  OBVIOUS
<1>3. Anchors(p, text, 0, n) /\ p.sb = Shown
  BY <1>1, <1>2, LiveAnchored, ShownIs DEF Preview
<1>4. /\ p.map \in [0..n -> 0..Len(p.sb)] /\ p.map[n] = Len(p.sb)
      /\ \A k \in 0..(n - 1) : StepKept(p, text, k)
  BY <1>3 DEF Anchors
<1>5. \A i \in 0..n : p.map[i] \in 0..Len(p.sb)
  BY <1>4
<1>6. \A col \in 0..Len(p.sb) :
        ToOriginal(p, col) < n /\ p.map[ToOriginal(p, col)] <= col =>
          p.map[ToOriginal(p, col) + 1] > p.map[ToOriginal(p, col)]
  BY <1>1, <1>3, TapFacts
<1>7. Anchored(p)
  BY <1>1, <1>3, <1>4, <1>5, <1>6, Zenon DEF Anchored, StepKept, Plain
<1> QED BY <1>2, <1>7 DEF PreviewIsAnchored

LEMMA TakenBackAnywhere ==
  ASSUME text \in Seq(Characters), caret \in 0..Len(text)
  PROVE  PressTakesBack
<1>1. ASSUME NEW m \in Markers
      PROVE  /\ Words(ToggleWrap(text, caret, m).text) = Words(text)
             /\ ToggleWrap(text, caret, m).caret \in 0..Len(ToggleWrap(text, caret, m).text)
             /\ InWord(text, caret) /\ Len(ToggleWrap(text, caret, m).text) > Len(text) =>
                  ToggleWrap(ToggleWrap(text, caret, m).text, caret + Len(m), m).text = text
  <2>1. PICK u \in Seq(Characters) : \E x \in 0..Len(u) :
          ToggleWrap(text, caret, m) = [text |-> u, caret |-> x] /\ Words(u) = Words(text)
    BY WrapKeeps
  <2>2. PICK x \in 0..Len(u) :
          ToggleWrap(text, caret, m) = [text |-> u, caret |-> x] /\ Words(u) = Words(text)
    BY <2>1
  <2>3. ToggleWrap(text, caret, m).text = u /\ ToggleWrap(text, caret, m).caret = x
    BY <2>2
  <2>4. InWord(text, caret) /\ Len(u) > Len(text) => ToggleWrap(u, caret + Len(m), m).text = text
    BY <2>3, WrapTakesBack
  <2> QED BY <2>2, <2>3, <2>4
<1>2. ASSUME ~Throws(text, caret), NEW now, now = [text |-> text, caret |-> caret],
             NEW kind \in PrefixKinds
      PROVE  Words(Press(now, kind).text) = Words(text)
  <2>1. PICK s, e, line, n, x : PressOf(text, caret, kind, s, e, line, n, x)
    BY <1>2, PressIs
  <2>2. ToggleLinePrefix(text, caret, kind) = [text |-> Spliced(text, s, n, e), caret |-> x]
        /\ Words(Spliced(text, s, n, e)) = Words(text)
    BY <2>1 DEF PressOf
  <2>3. Press(now, kind) = [text |-> Spliced(text, s, n, e), caret |-> x]
    <3>1. now.text = text /\ now.caret = caret
      BY <1>2
    <3> QED BY <2>2, <3>1 DEF Press
  <2> QED BY <2>2, <2>3
<1>3. ASSUME ~Throws(text, caret), NEW now, now = [text |-> text, caret |-> caret],
             NEW kind \in PrefixKinds \ {"HEADING"},
             Len(Press(now, kind).text) > Len(text)
      PROVE  Press(Press(now, kind), kind) = now
  BY <1>3, PlainTakesBack
<1>4. ASSUME ~Throws(text, caret), NEW now, now = [text |-> text, caret |-> caret],
             HeadingPrefix(Sub(text, LineStart(text, caret), LineEnd(text, caret))) = 0
      PROVE  Press(Press(Press(Press(now, "HEADING"), "HEADING"), "HEADING"), "HEADING") = now
  BY <1>4, HeadingTakesBack
<1>5. "HEADING" \in PrefixKinds
  BY DEF PrefixKinds
<1> QED BY <1>1, <1>2, <1>3, <1>4, <1>5, Zenon DEF PressTakesBack, InWord

LEMMA LineKeptAnywhere ==
  ASSUME text \in Seq(Characters), caret \in 0..Len(text)
  PROVE  PrefixKeepsLine
BY LineKept, Zenon DEF PrefixKeepsLine

\* Every change of the field leaves a text, and the caret within it.
LEMMA FieldStep ==
  ASSUME FieldAssumption, FieldTypes, [FieldNext]_fieldVars
  PROVE  FieldTypes'
<1>1. text \in Seq(Characters) /\ caret \in 0..Len(text) /\ Len(text) \in Nat
      /\ changes \in 0..MaxChanges /\ thrown \in BOOLEAN
  BY LenProperties DEF FieldTypes
<1>2. ASSUME NEW u \in Seq(Characters), NEW x \in 0..Len(u), Apply([text |-> u, caret |-> x])
      PROVE  FieldTypes'
  <2>1. text' = u /\ caret' = x /\ changes' = changes + 1 /\ changes < MaxChanges /\ thrown' = thrown
    BY <1>2 DEF Apply
  <2>2. changes' \in 0..MaxChanges
    BY <1>1, <2>1, FieldAssumption DEF FieldAssumption
  <2> QED BY <1>1, <2>1, <2>2 DEF FieldTypes
<1>3. ASSUME NEW w \in Seq(Characters), Insert(w) PROVE FieldTypes'
  <2>1. /\ Spliced(text, caret, w, caret) \in Seq(Characters)
        /\ Len(Spliced(text, caret, w, caret)) = Len(text) + Len(w)
    <3>1. caret \in 0..Len(text) /\ caret \in caret..Len(text)
      BY <1>1
    <3>2. IsSplice(Characters, Spliced(text, caret, w, caret), text, caret, w, caret)
      BY <1>1, <3>1, SplicedIs
    <3>3. Len(w) \in Nat
      BY LenProperties
    <3>4. Len(text) - (caret - caret) + Len(w) = Len(text) + Len(w)
      BY <1>1, <3>3
    <3> QED BY <3>2, <3>4 DEF IsSplice
  <2>2. caret + Len(w) \in 0..Len(Spliced(text, caret, w, caret))
    <3>1. Len(w) \in Nat
      BY LenProperties
    <3>2. caret + Len(w) \in 0..(Len(text) + Len(w))
      BY <1>1, <3>1
    <3> QED BY <2>1, <3>2
  <2>3. Apply([text |-> Spliced(text, caret, w, caret), caret |-> caret + Len(w)])
    BY <1>3 DEF Insert, Spliced
  <2> QED BY <1>2, <2>1, <2>2, <2>3
<1>4. ASSUME TypeKey PROVE FieldTypes'
  <2>1. PICK key \in Keys : Insert(<<key>>)
    BY <1>4 DEF TypeKey
  <2>2. key \in Characters
    BY FieldAssumption DEF FieldAssumption
  <2>3. <<key>> \in Seq(Characters)
    BY <2>2
  <2> QED BY <1>3, <2>1, <2>3
<1>5. ASSUME Erase PROVE FieldTypes'
  <2>1. caret > 0 /\ Apply([text |-> RemoveAt(text, caret), caret |-> caret - 1])
    BY <1>5 DEF Erase
  <2>2. caret - 1 \in 0..Len(text) /\ caret \in (caret - 1)..Len(text)
        /\ (caret - 1) + 1 = caret
    BY <1>1, <2>1
  <2>3. /\ Sub(text, 0, caret - 1) \in Seq(Characters) /\ Len(Sub(text, 0, caret - 1)) = caret - 1
        /\ Sub(text, caret, Len(text)) \in Seq(Characters)
        /\ Len(Sub(text, caret, Len(text))) = Len(text) - caret
    <3>1. 0 \in 0..Len(text) /\ caret - 1 \in 0..Len(text) /\ Len(text) \in caret..Len(text)
      BY <1>1, <2>2
    <3>2. (caret - 1) - 0 = caret - 1
      BY <1>1
    <3>3. /\ Sub(text, 0, caret - 1) \in Seq(Characters)
          /\ Len(Sub(text, 0, caret - 1)) = (caret - 1) - 0
      BY <1>1, <3>1, SubFacts
    <3>4. /\ Sub(text, caret, Len(text)) \in Seq(Characters)
          /\ Len(Sub(text, caret, Len(text))) = Len(text) - caret
      BY <1>1, <3>1, SubFacts
    <3> QED BY <3>2, <3>3, <3>4
  <2>4. RemoveAt(text, caret) = Sub(text, 0, caret - 1) \o Sub(text, caret, Len(text))
    <3>1. 0 + 1 = 1
      OBVIOUS
    <3> QED BY <3>1 DEF RemoveAt, Sub
  <2>5. /\ RemoveAt(text, caret) \in Seq(Characters)
        /\ Len(RemoveAt(text, caret)) = (caret - 1) + (Len(text) - caret)
    <3>1. PICK a \in Seq(Characters), b \in Seq(Characters) :
            a = Sub(text, 0, caret - 1) /\ b = Sub(text, caret, Len(text))
      BY <2>3
    <3>2. a \o b \in Seq(Characters) /\ Len(a \o b) = Len(a) + Len(b)
      BY ConcatProperties
    <3>3. RemoveAt(text, caret) = a \o b
      BY <2>4, <3>1
    <3>4. Len(a) = caret - 1 /\ Len(b) = Len(text) - caret
      BY <2>3, <3>1, Zenon
    <3> QED BY <3>2, <3>3, <3>4, Zenon
  <2>6. caret - 1 \in 0..((caret - 1) + (Len(text) - caret))
    BY <1>1, <2>1
  <2> QED BY <1>2, <2>1, <2>5, <2>6
<1>6. ASSUME Dictate PROVE FieldTypes'
  <2>1. SP \in Characters /\ "a" \in Characters
    BY DEF Characters, Whitespace
  <2>2. \A c, d \in Characters : <<c>> \in Seq(Characters) /\ <<c, d>> \in Seq(Characters)
    OBVIOUS
  <2>3. Insert(<<"a">>) \/ Insert(<<SP, "a">>)
    BY <1>6 DEF Dictate
  <2> QED BY <1>3, <2>1, <2>2, <2>3
<1>7. ASSUME Tap PROVE FieldTypes'
  <2>1. PICK p : p = Preview
    OBVIOUS
  <2>2. PICK col \in 0..Len(p.sb) : caret' = ToOriginal(p, col)
    BY <1>7, <2>1 DEF Tap
  <2>3. Anchors(p, text, 0, Len(text))
    BY <1>1, <2>1, LiveAnchored DEF Preview
  <2>4. ToOriginal(p, col) \in 0..Len(text)
    BY <1>1, <2>3, TapFacts
  <2> QED BY <1>1, <1>7, <2>2, <2>4 DEF Tap, FieldTypes
<1>8. ASSUME Wrap PROVE FieldTypes'
  <2>1. PICK m \in Markers : Apply(ToggleWrap(text, caret, m))
    BY <1>8 DEF Wrap
  <2>2. PICK u \in Seq(Characters) : \E x \in 0..Len(u) :
          ToggleWrap(text, caret, m) = [text |-> u, caret |-> x]
    BY <1>1, WrapKeeps
  <2> QED BY <1>2, <2>1, <2>2
<1>9. ASSUME Prefix PROVE FieldTypes'
  <2>1. PICK kind \in PrefixKinds : Apply(ToggleLinePrefix(text, caret, kind))
    BY <1>9 DEF Prefix
  <2>2. ~Throws(text, caret)
    BY <1>9 DEF Prefix
  <2>3. PICK s, e, line, n, x : PressOf(text, caret, kind, s, e, line, n, x)
    BY <1>1, <2>2, PressIs
  <2>4. /\ ToggleLinePrefix(text, caret, kind) = [text |-> Spliced(text, s, n, e), caret |-> x]
        /\ Spliced(text, s, n, e) \in Seq(Characters) /\ x \in 0..Len(Spliced(text, s, n, e))
    BY <2>3 DEF PressOf
  <2> QED BY <1>2, <2>1, <2>4
<1>10. ASSUME Throw PROVE FieldTypes'
  BY <1>1, <1>10 DEF Throw, FieldTypes
<1>11. ASSUME UNCHANGED fieldVars PROVE FieldTypes'
  BY <1>1, <1>11 DEF fieldVars, FieldTypes
<1> QED BY <1>4, <1>5, <1>6, <1>7, <1>8, <1>9, <1>10, <1>11 DEF FieldNext

(* The types of the field: whatever is typed, dictated, erased, pressed or   *)
(* tapped, the text stays a text and the caret within it.                    *)
THEOREM FieldTypeCorrect == FieldSpec => []FieldTypes
<1>1. FieldInit => FieldTypes
  <2> SUFFICES ASSUME FieldInit PROVE FieldTypes
    OBVIOUS
  <2>1. text \in Seq(Characters) /\ caret = Len(text) /\ changes = 0 /\ MaxChanges \in Nat
    BY FieldAssumption DEF FieldInit, FieldAssumption
  <2>2. Len(text) \in Nat
    BY <2>1, LenProperties
  <2>3. thrown \in BOOLEAN
    BY Zenon DEF FieldInit
  <2> QED BY <2>1, <2>2, <2>3 DEF FieldTypes
<1>2. FieldTypes /\ [FieldNext]_fieldVars => FieldTypes'
  BY FieldStep, FieldAssumption
<1> QED BY <1>1, <1>2, PTL DEF FieldSpec

(* The live preview of every text and caret is anchored to its source: the   *)
(* columns of livePreviewTransform stay within the display and in order, a   *)
(* character is shown at its own column, the display is what the reader      *)
(* would show, and no tap leads inside a hidden marker.                      *)
THEOREM PreviewAnchored == FieldSpec => []PreviewIsAnchored
<1>1. FieldTypes => PreviewIsAnchored
  BY AnchoredAnywhere DEF FieldTypes
<1> QED BY <1>1, FieldTypeCorrect, PTL

(* What a press of the toolbar has put in, pressing again takes out, and no  *)
(* press touches anything but marker characters, whatever the text.          *)
THEOREM PressReversible == FieldSpec => []PressTakesBack
<1>1. FieldTypes => PressTakesBack
  BY TakenBackAnywhere DEF FieldTypes
<1> QED BY <1>1, FieldTypeCorrect, PTL

(* A press changes the line of the caret and leaves the caret on it, but for *)
(* the two exceptions the property names, whatever the text.                 *)
THEOREM PressStaysOnLine == FieldSpec => []PrefixKeepsLine
<1>1. FieldTypes => PrefixKeepsLine
  BY LineKeptAnywhere DEF FieldTypes
<1> QED BY <1>1, FieldTypeCorrect, PTL
=============================================================================
