---------------------------- MODULE ModelEngines ----------------------------
(***************************************************************************)
(* The two on-device engines: WhisperTranscriber over its JNI context and  *)
(* OnDeviceAiClient over MediaPipe, with the disk they stage their models  *)
(* on, the requests made of them, the poll of AiAvailability and the death *)
(* of the process at any point.                                            *)
(*                                                                         *)
(* A request holds its engine's mutex while it stages and loads the model; *)
(* whisper's keeps it for the inference too.  Files are modelled by their  *)
(* length in blocks.  What an inference says is not modelled: a request    *)
(* that reaches one is "served", or "failed" when the inference gives      *)
(* null; "null" is the answer of one that never reached its engine.        *)
(***************************************************************************)
EXTENDS Integers, Sequences, FiniteSets, SequencesExt

CONSTANTS WhisperCalls,  \* the coroutines that call transcribe or warmUp
          LlmCalls,      \* the coroutines that call generate
          Size,          \* the length of a whole model
          MinValid,      \* MIN_VALID_BYTES: no longer than this is incomplete
          Rooms,         \* the disk sizes considered
          MaxFaults      \* bound on deaths and on failing system calls

Calls   == WhisperCalls \cup LlmCalls
Engines == {"whisper", "llm"}
EngineOf(c) == IF c \in WhisperCalls THEN "whisper" ELSE "llm"
Absent  == -1
Length  == Absent..Size

ASSUME EnginesAssumption ==
  /\ WhisperCalls \cap LlmCalls = {} /\ Calls \cap (Engines \cup {"none"}) = {}
  /\ Size \in Nat /\ MinValid \in Nat /\ MinValid < Size
  /\ Rooms \subseteq Nat /\ MaxFaults \in Nat

VARIABLES
  room,          \* the blocks the app may use; never changes
  asset,         \* the length of each bundled model; never changes
  out, tmp,      \* each engine's model file and its "<model>.tmp"
  old,           \* is there a whisper model of a previous generation?
  holder,        \* each engine's mutex: the request that holds it, or "none",
  waiting,       \* and those that wait for it, in order
  pc, answer,    \* what each request is about to do, and what it returned
  loaded,        \* initialized with g_ctx; llm
  state,         \* OnDeviceAiClient's EngineState
  available,     \* AiAvailability.available
  polled         \* what the poll has found and not published yet

VARIABLES
  faults,        \* the number of faults so far
  missed,        \* history: the last sweep failed to delete the previous generation
  hurt           \* history: requests that met a failure, and "llm" if one has failed

disk == <<room, asset, out, tmp, old, missed>>
lock == <<holder, waiting>>
poll == <<available, polled>>
vars == <<disk, lock, pc, answer, loaded, state, poll, faults, hurt>>

Init ==
  /\ room \in Rooms
  /\ asset \in [Engines -> {Absent, MinValid, Size}]
  /\ out = [e \in Engines |-> Absent]
  /\ tmp = [e \in Engines |-> Absent]
  /\ old \in BOOLEAN
  /\ holder = [e \in Engines |-> "none"]
  /\ waiting = [e \in Engines |-> <<>>]
  /\ pc = [c \in Calls |-> "idle"]
  /\ answer = [c \in Calls |-> "none"]
  /\ loaded = [e \in Engines |-> FALSE]
  /\ state = "LOADING"
  /\ available = FALSE /\ polled = "none"
  /\ faults = 0 /\ missed = FALSE /\ hurt = {}

-----------------------------------------------------------------------------
(* Requests and the mutexes.                                               *)

\* Mutant: the mutex does not exclude.
AtUnlocked(c, p) == pc[c] = p

At(c, p) == pc[c] = p /\ holder[EngineOf(c)] = c

To(c, p) == pc' = [pc EXCEPT ![c] = p]

\* Kotlin's mutex is fair: it is handed to the one that waits longest.
Unlock(c) ==
  LET e == EngineOf(c) IN
    IF waiting[e] = <<>>
      THEN holder' = [holder EXCEPT ![e] = "none"] /\ UNCHANGED waiting
      ELSE /\ holder' = [holder EXCEPT ![e] = Head(waiting[e])]
           /\ waiting' = [waiting EXCEPT ![e] = Tail(@)]

Return(c, a) == To(c, "idle") /\ answer' = [answer EXCEPT ![c] = a]

\* A free mutex is taken at once, without a suspension.
Request(c) ==
  /\ pc[c] = "idle"
  /\ answer' = [answer EXCEPT ![c] = "none"]
  /\ LET e == EngineOf(c) IN
       IF holder[e] = "none"
         THEN To(c, "enter") /\ holder' = [holder EXCEPT ![e] = c] /\ UNCHANGED waiting
         ELSE To(c, "wait") /\ waiting' = [waiting EXCEPT ![e] = Append(@, c)] /\ UNCHANGED holder
  /\ hurt' = hurt \ {c}
  /\ UNCHANGED <<disk, loaded, state, poll, faults>>

\* A caller is cancelled while it waits, or when the mutex has been handed to it
\* and it has not resumed: then it passes the mutex on.  Past that the block has
\* no suspension point and runs to its end.
Cancel(c) ==
  /\ pc[c] = "wait"
  /\ To(c, "idle")
  /\ \/ holder[EngineOf(c)] = c /\ Unlock(c)
     \/ /\ holder[EngineOf(c)] # c
        /\ \E i \in DOMAIN waiting[EngineOf(c)] :
             /\ waiting[EngineOf(c)][i] = c
             /\ waiting' = [waiting EXCEPT ![EngineOf(c)] = RemoveAt(@, i)]
        /\ UNCHANGED holder
  /\ UNCHANGED <<disk, answer, loaded, state, poll, faults, hurt>>

\* Mutant: the exception leaves the mutex locked.
FailLocked(c) ==
  /\ Return(c, "null") /\ UNCHANGED lock
  /\ state' = IF c \in LlmCalls THEN "UNAVAILABLE" ELSE state
  /\ UNCHANGED loaded

\* Staging or loading throws: whisper's request returns null and the next one
\* starts over, the language model is given up for the life of the process.
Fail(c) ==
  /\ Return(c, "null") /\ Unlock(c)
  /\ state' = IF c \in LlmCalls THEN "UNAVAILABLE" ELSE state
  /\ UNCHANGED loaded

Hurt(c) == hurt' = hurt \cup {c, EngineOf(c)}
Fault   == faults < MaxFaults /\ faults' = faults + 1
NoFault == UNCHANGED <<faults, hurt>>

-----------------------------------------------------------------------------
(* stagedModel.                                                            *)

Valid(e) == out[e] > MinValid

\* Mutant: a request that finds the language model not READY is refused.
CheckReady(c) ==
  /\ At(c, "wait") \/ At(c, "enter")
  /\ LET e == EngineOf(c) IN
       \/ loaded[e] /\ To(c, "run") /\ UNCHANGED answer
          /\ IF e = "llm" THEN Unlock(c) ELSE UNCHANGED lock
       \/ ~loaded[e] /\ e = "llm" /\ Return(c, "null") /\ Unlock(c)
       \/ ~loaded[e] /\ e = "whisper"
          /\ To(c, IF Valid(e) THEN "load" ELSE "sweep") /\ UNCHANGED <<lock, answer>>
  /\ UNCHANGED <<disk, loaded, state, poll, faults, hurt>>

\* Is there an engine, is it given up, is there a file?
Check(c) ==
  /\ At(c, "wait") \/ At(c, "enter")
  /\ LET e == EngineOf(c) IN
       \/ loaded[e] /\ To(c, "run") /\ UNCHANGED answer
          /\ IF e = "llm" THEN Unlock(c) ELSE UNCHANGED lock
       \/ ~loaded[e] /\ e = "llm" /\ state = "UNAVAILABLE"
          /\ Return(c, "null") /\ Unlock(c)
       \/ ~loaded[e] /\ ~(e = "llm" /\ state = "UNAVAILABLE")
          /\ To(c, IF Valid(e) THEN "load" ELSE IF e = "whisper" THEN "sweep" ELSE "open")
          /\ UNCHANGED <<lock, answer>>
  /\ UNCHANGED <<disk, loaded, state, poll, faults, hurt>>

\* Mutant: only the temporary file is deleted.
SweepTmp(c) ==
  /\ c \in WhisperCalls /\ At(c, "sweep")
  /\ tmp' = [tmp EXCEPT !["whisper"] = Absent]
  /\ To(c, "open")
  /\ UNCHANGED <<room, asset, out, old, missed, lock, answer, loaded, state, poll, faults, hurt>>

\* whisper deletes what is named ggml-* and is not its model: models of previous
\* generations, and its own temporary file.  A listing that is null and a delete
\* that fails go unnoticed: what is left stays.
Sweep(c) ==
  /\ c \in WhisperCalls /\ At(c, "sweep")
  /\ \/ old /\ old' = FALSE /\ missed' = FALSE /\ UNCHANGED <<tmp, pc, faults>>
     \/ tmp["whisper"] # Absent /\ tmp' = [tmp EXCEPT !["whisper"] = Absent]
        /\ UNCHANGED <<old, missed, pc, faults>>
     \/ ~old /\ tmp["whisper"] = Absent /\ To(c, "open")
        /\ UNCHANGED <<old, missed, tmp, faults>>
     \/ (old \/ tmp["whisper"] # Absent) /\ Fault /\ To(c, "open") /\ missed' = old
        /\ UNCHANGED <<old, tmp>>
  /\ UNCHANGED <<room, asset, out, lock, answer, loaded, state, poll, hurt>>

\* The asset is opened and the temporary file created or truncated.
Open(c) ==
  /\ At(c, "open")
  /\ \/ asset[EngineOf(c)] = Absent /\ Fail(c) /\ UNCHANGED tmp /\ NoFault
     \/ /\ asset[EngineOf(c)] # Absent /\ To(c, "copy")
        /\ tmp' = [tmp EXCEPT ![EngineOf(c)] = 0]
        /\ UNCHANGED <<lock, answer, loaded, state>> /\ NoFault
     \/ Fault /\ Fail(c) /\ Hurt(c) /\ UNCHANGED tmp
  /\ UNCHANGED <<room, asset, out, old, missed, poll>>

Blocks(n) == IF n = Absent THEN 0 ELSE n
Used == Blocks(out["whisper"]) + Blocks(tmp["whisper"]) + Blocks(out["llm"])
          + Blocks(tmp["llm"]) + (IF old THEN Size ELSE 0)

Copy(c) ==
  /\ At(c, "copy") /\ tmp[EngineOf(c)] < asset[EngineOf(c)] /\ Used < room
  /\ tmp' = [tmp EXCEPT ![EngineOf(c)] = @ + 1]
  /\ UNCHANGED <<room, asset, out, old, missed, lock, pc, answer, loaded, state, poll, faults, hurt>>

\* Mutant: a copy that fails is taken for one that has ended.
CopyStops(c) ==
  /\ At(c, "copy") /\ tmp[EngineOf(c)] < asset[EngineOf(c)] /\ Used >= room
  /\ IF tmp[EngineOf(c)] <= MinValid
       THEN Fail(c)
       ELSE To(c, "rename") /\ UNCHANGED <<lock, answer, loaded, state>>
  /\ UNCHANGED <<disk, poll, faults, hurt>>

\* What both models need, with a previous generation that could not be deleted.
Needed == 2 * Size + (IF missed THEN Size ELSE 0)

\* The disk is full, or the copy fails.  The part that is written stays.
CopyFails(c) ==
  /\ At(c, "copy") /\ Fail(c)
  /\ \/ /\ tmp[EngineOf(c)] < asset[EngineOf(c)] /\ Used >= room
        /\ IF room < Needed THEN Hurt(c) ELSE UNCHANGED hurt
        /\ UNCHANGED faults
     \/ Fault /\ Hurt(c)
  /\ UNCHANGED <<disk, poll>>

\* The copy has ended: is it long enough?  A short one is deleted, the result of
\* that ignored.
Measure(c) ==
  /\ At(c, "copy") /\ tmp[EngineOf(c)] = asset[EngineOf(c)]
  /\ IF tmp[EngineOf(c)] <= MinValid
       THEN /\ Fail(c)
            /\ \/ tmp' = [tmp EXCEPT ![EngineOf(c)] = Absent] /\ UNCHANGED faults
               \/ Fault /\ UNCHANGED tmp
       ELSE To(c, "rename") /\ UNCHANGED <<tmp, lock, answer, loaded, state, faults>>
  /\ UNCHANGED <<room, asset, out, old, missed, poll, hurt>>

\* renameTo, its result ignored.
Rename(c) ==
  /\ At(c, "rename")
  /\ To(c, "load")
  /\ \/ /\ out' = [out EXCEPT ![EngineOf(c)] = tmp[EngineOf(c)]]
        /\ tmp' = [tmp EXCEPT ![EngineOf(c)] = Absent]
        /\ NoFault
     \/ UNCHANGED <<out, tmp>> /\ Fault /\ Hurt(c)
  /\ UNCHANGED <<room, asset, old, missed, lock, answer, loaded, state, poll>>

-----------------------------------------------------------------------------
(* Loading and inference.                                                  *)

Loaded(c) ==
  /\ loaded' = [loaded EXCEPT ![EngineOf(c)] = TRUE]
  /\ To(c, "run")
  /\ IF c \in LlmCalls THEN state' = "READY" /\ Unlock(c) ELSE UNCHANGED <<state, lock>>
  /\ UNCHANGED answer

\* nativeInit, and the CPU attempt of the language model: without a file it
\* fails, with one it may (for want of memory).
Load(c) ==
  /\ At(c, IF c \in WhisperCalls THEN "load" ELSE "cpu")
  /\ \/ out[EngineOf(c)] # Absent /\ Loaded(c) /\ NoFault
     \/ out[EngineOf(c)] # Absent /\ Fail(c) /\ Fault /\ Hurt(c)
     \/ out[EngineOf(c)] = Absent /\ Fail(c) /\ NoFault
  /\ UNCHANGED <<disk, poll>>

\* The GPU attempt; devices whose GPU delegate fails reload on the CPU.
LoadGpu(c) ==
  /\ c \in LlmCalls /\ At(c, "load")
  /\ \/ out["llm"] # Absent /\ Loaded(c)
     \/ To(c, "cpu") /\ UNCHANGED <<lock, answer, loaded, state>>
  /\ UNCHANGED <<disk, poll, faults, hurt>>

\* nativeTranscribe under the mutex, respond without it.  Either may give null,
\* and the engine is kept: nothing was said, or the inference failed.  What the
\* conversation's constructor throws nobody catches: that is Die.
Infer(c) ==
  /\ pc[c] = "run"
  /\ \E a \in {"served", "failed"} : Return(c, a)
  /\ IF c \in WhisperCalls THEN Unlock(c) ELSE UNCHANGED lock
  /\ UNCHANGED <<disk, loaded, state, poll, faults, hurt>>

\* A model file is brought to the engine and used.
Serve(c) == Check(c) \/ Sweep(c) \/ Open(c) \/ Copy(c) \/ CopyFails(c) \/ Measure(c)
              \/ Rename(c) \/ Load(c) \/ LoadGpu(c) \/ Infer(c)

-----------------------------------------------------------------------------
(* The poll, and the process.                                              *)

PollReads ==
  /\ polled = "none"
  /\ polled' = IF state # "UNAVAILABLE" /\ asset["llm"] >= 0 THEN "on" ELSE "off"
  /\ UNCHANGED <<disk, lock, pc, answer, loaded, state, available, faults, hurt>>

PollPublishes ==
  /\ polled # "none"
  /\ available' = (polled = "on")
  /\ polled' = "none"
  /\ UNCHANGED <<disk, lock, pc, answer, loaded, state, faults, hurt>>

\* The process dies and is started again: files survive, nothing else does.
Die ==
  /\ Fault
  /\ holder' = [e \in Engines |-> "none"]
  /\ waiting' = [e \in Engines |-> <<>>]
  /\ pc' = [c \in Calls |-> "idle"]
  /\ answer' = [c \in Calls |-> "none"]
  /\ loaded' = [e \in Engines |-> FALSE]
  /\ state' = "LOADING"
  /\ available' = FALSE /\ polled' = "none"
  /\ hurt' = {}
  /\ UNCHANGED disk

Next ==
  \/ \E c \in Calls : Request(c) \/ Cancel(c) \/ Serve(c)
  \/ PollReads \/ PollPublishes
  \/ Die

Spec == Init /\ [][Next]_vars

\* Threads run, and the poll is a loop with a delay.
Fairness == /\ \A c \in Calls : WF_vars(Serve(c))
            /\ WF_vars(PollReads) /\ WF_vars(PollPublishes)

FairSpec == Spec /\ Fairness

-----------------------------------------------------------------------------
(* Properties.                                                             *)

\* The disk, the mutexes and the requests are of their types, and the app keeps
\* to the room it has.
TypeOK ==
  /\ room \in Rooms /\ asset \in [Engines -> Length]
  /\ out \in [Engines -> Length] /\ tmp \in [Engines -> Length] /\ old \in BOOLEAN
  /\ holder \in [Engines -> Calls \cup {"none"}] /\ waiting \in [Engines -> Seq(Calls)]
  /\ \A e \in Engines : /\ IsInjective(waiting[e])
                        /\ \A c \in Calls : Contains(waiting[e], c) => EngineOf(c) = e
  /\ pc \in [Calls -> {"idle", "wait", "enter", "sweep", "open", "copy", "rename", "load", "cpu", "run"}]
  /\ answer \in [Calls -> {"none", "null", "failed", "served"}]
  /\ loaded \in [Engines -> BOOLEAN] /\ state \in {"LOADING", "READY", "UNAVAILABLE"}
  /\ available \in BOOLEAN /\ polled \in {"none", "on", "off"}
  /\ faults \in 0..MaxFaults /\ missed \in BOOLEAN /\ hurt \subseteq Calls \cup Engines

\* stagedModel is as good as an atomic copy: whatever the process dies of and
\* whenever the disk is full, a model file is absent or whole, and an engine is
\* loaded from a whole one.
Store == INSTANCE ModelStore WITH file <- out, Whole <- Size
StagesWhole == Store!Spec

\* At most one request at a time stages, loads or uses whisper's only context.
Busy(c) == pc[c] \notin {"idle", "wait", "enter"}
OneContext == \A c, d \in WhisperCalls : Busy(c) /\ Busy(d) => c = d

\* A model of a previous generation stays beside the current one only if the last
\* sweep could not delete it: no death between sweep, copy and rename, and no copy
\* that is begun again, leaves one behind.
NoOldGeneration == out["whisper"] # Absent /\ old => missed

\* A request never reaches its engine only for a reason: the build bundles no
\* whole model, the disk is too small for both models and what a sweep could not
\* delete, or staging or loading failed: while it was at work, for whisper, and
\* for the language model once since the process started.  An inference that
\* gives null is no such reason: it costs nobody else an answer.
NullIsExplained ==
  \A c \in Calls :
    answer[c] = "null" => \/ asset[EngineOf(c)] # Size
                          \/ c \in hurt
                          \/ c \in LlmCalls /\ "llm" \in hurt

\* Every request is answered, whatever fails before it; and once the language
\* model is given up, the availability every screen shows is switched off.
Answered == /\ \A c \in Calls : (pc[c] # "idle") ~> (pc[c] = "idle")
            /\ (state = "UNAVAILABLE") ~> ~available
=============================================================================
