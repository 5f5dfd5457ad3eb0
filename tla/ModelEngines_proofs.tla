------------------------ MODULE ModelEngines_proofs ------------------------
(* Proofs about ModelEngines for any number of requests, any length of the  *)
(* models and any disk, with deaths and failures without bound.             *)
EXTENDS ModelEngines, SequenceTheorems, TLAPS

Staging == {"sweep", "open", "copy", "rename", "load", "cpu"}
Labels  == Staging \cup {"idle", "wait", "enter", "run"}

Types ==
  /\ room \in Nat /\ asset \in [Engines -> {Absent, MinValid, Size}]
  /\ out \in [Engines -> Length] /\ tmp \in [Engines -> Length]
  /\ old \in BOOLEAN /\ missed \in BOOLEAN
  /\ loaded \in [Engines -> BOOLEAN]
  /\ pc \in [Calls -> Labels] /\ answer \in [Calls -> {"none", "null", "failed", "served"}]
  /\ holder = [e \in Engines |-> holder[e]]

(* A request holds the mutex from its first look at the disk until its      *)
(* engine is loaded, whisper's until its inference ends.                    *)
LockInv ==
  \A c \in Calls :
    pc[c] \in Staging \/ (c \in WhisperCalls /\ pc[c] = "run") => holder[EngineOf(c)] = c

(* The temporary file is what its writer has copied, and whole when renamed.*)
FileInv ==
  /\ \A e \in Engines : out[e] \in {Absent, Size}
  /\ \A c \in Calls : /\ pc[c] = "copy" => tmp[EngineOf(c)] \in 0..asset[EngineOf(c)]
                      /\ pc[c] = "rename" => tmp[EngineOf(c)] = Size

(* Previous generations are gone before the copy begins, unless the sweep   *)
(* could not delete them.                                                   *)
SweepInv ==
  /\ NoOldGeneration
  /\ \A c \in WhisperCalls : pc[c] \in {"open", "copy", "rename"} => ~old \/ missed

(* Only a request of an engine without a model stages one, and a model has   *)
(* no temporary file beside it: each engine takes the room of one model.     *)
RoomInv ==
  /\ \A e \in Engines : out[e] = Size => tmp[e] = Absent
  /\ \A c \in Calls : pc[c] \in {"sweep", "open", "copy", "rename"} => out[EngineOf(c)] = Absent
  /\ old /\ ~missed => tmp["whisper"] = Absent

(* Who loads without a file has lost it to a rename that failed, and the     *)
(* language model is given up for a reason that outlives the request.        *)
HurtInv ==
  /\ \A c \in Calls : /\ c \in hurt => EngineOf(c) \in hurt
                      /\ pc[c] \in {"load", "cpu"} /\ out[EngineOf(c)] = Absent => c \in hurt
  /\ state = "UNAVAILABLE" => asset["llm"] # Size \/ "llm" \in hurt
  /\ NullIsExplained

IInv == Types /\ LockInv /\ FileInv /\ SweepInv /\ RoomInv /\ HurtInv

-----------------------------------------------------------------------------
LEMMA EngineOfType == \A c \in Calls : EngineOf(c) \in Engines
  BY DEF EngineOf, Engines

LEMMA Lengths == {Absent, 0, MinValid, Size} \subseteq Length
  BY EnginesAssumption DEF Length, Absent

LEMMA InitIInv == Init => IInv
<1> SUFFICES ASSUME Init PROVE IInv
  OBVIOUS
<1>1. Types
  BY Lengths, EnginesAssumption DEF Init, Types, Labels, Staging
<1>2. LockInv
  BY DEF Init, LockInv, Staging
<1>3. FileInv
  BY DEF Init, FileInv
<1>4. SweepInv
  BY DEF Init, SweepInv, NoOldGeneration, Engines, Calls
<1>5. RoomInv
  BY EngineOfType, EnginesAssumption DEF Init, RoomInv, Engines, Absent
<1>6. HurtInv
  BY DEF Init, HurtInv, NullIsExplained
<1> QED BY <1>1, <1>2, <1>3, <1>4, <1>5, <1>6 DEF IInv

LEMMA TypesStep == ASSUME IInv, [Next]_vars PROVE Types'
<1> USE EngineOfType, Lengths
<1> USE DEF IInv, Types, Labels, Staging, To, Return, Fail, Unlock
<1>1. CASE UNCHANGED vars
  BY <1>1 DEF vars, disk, lock
<1>2. ASSUME NEW c \in Calls, Request(c) PROVE Types'
  BY <1>2 DEF Request, disk, lock
<1>3. ASSUME NEW c \in Calls, Cancel(c) PROVE Types'
  BY <1>3 DEF Cancel, disk, lock
<1>4. ASSUME NEW c \in Calls, Check(c) PROVE Types'
  BY <1>4 DEF Check, disk, lock
<1>5. ASSUME NEW c \in Calls, Sweep(c) PROVE Types'
  <2>1. tmp' \in [Engines -> Length]
    BY <1>5 DEF Sweep
  <2>2. old' \in BOOLEAN
    BY <1>5, Zenon DEF Sweep
  <2>3. pc' \in [Calls -> Labels]
    BY <1>5 DEF Sweep
  <2> QED BY <1>5, <2>1, <2>2, <2>3 DEF Sweep, lock
<1>6. ASSUME NEW c \in Calls, Open(c) PROVE Types'
  BY <1>6 DEF Open, lock
<1>7. ASSUME NEW c \in Calls, Copy(c) PROVE Types'
  <2>1. tmp[EngineOf(c)] + 1 \in Length
    BY <1>7, EnginesAssumption DEF Copy, At, FileInv, Length, Absent
  <2> QED BY <1>7, <2>1 DEF Copy, lock
<1>8. ASSUME NEW c \in Calls, CopyFails(c) PROVE Types'
  BY <1>8 DEF CopyFails, disk, lock
<1>9. ASSUME NEW c \in Calls, Measure(c) PROVE Types'
  BY <1>9 DEF Measure, lock
<1>10. ASSUME NEW c \in Calls, Rename(c) PROVE Types'
  BY <1>10 DEF Rename, At, lock
<1>11. ASSUME NEW c \in Calls, Load(c) PROVE Types'
  BY <1>11 DEF Load, Loaded, disk, lock
<1>12. ASSUME NEW c \in Calls, LoadGpu(c) PROVE Types'
  BY <1>12 DEF LoadGpu, Loaded, disk, lock
<1>13. ASSUME NEW c \in Calls, Infer(c) PROVE Types'
  BY <1>13 DEF Infer, disk, lock
<1>14. CASE PollReads \/ PollPublishes
  BY <1>14 DEF PollReads, PollPublishes, disk, lock
<1>15. CASE Die
  BY <1>15 DEF Die, disk
<1> QED
  BY <1>1, <1>2, <1>3, <1>4, <1>5, <1>6, <1>7, <1>8, <1>9, <1>10, <1>11, <1>12, <1>13,
     <1>14, <1>15 DEF Next, Serve

LEMMA LockInvStep == ASSUME IInv, [Next]_vars PROVE LockInv'
<1> USE EngineOfType, EnginesAssumption
<1> USE DEF IInv, Types, LockInv, Labels, Staging, At, To, Return, Fail, Unlock, EngineOf, Calls, Engines
<1>1. CASE UNCHANGED vars
  BY <1>1 DEF vars, lock
<1>2. ASSUME NEW c \in Calls, Request(c) PROVE LockInv'
  BY <1>2 DEF Request
<1>3. ASSUME NEW c \in Calls, Cancel(c) PROVE LockInv'
  BY <1>3 DEF Cancel
<1>4. ASSUME NEW c \in Calls, Check(c) PROVE LockInv'
  BY <1>4 DEF Check, lock
<1>5. ASSUME NEW c \in Calls, Sweep(c) PROVE LockInv'
  BY <1>5 DEF Sweep, lock
<1>6. ASSUME NEW c \in Calls, Open(c) PROVE LockInv'
  BY <1>6 DEF Open, lock
<1>7. ASSUME NEW c \in Calls, Copy(c) PROVE LockInv'
  BY <1>7 DEF Copy, lock
<1>8. ASSUME NEW c \in Calls, CopyFails(c) PROVE LockInv'
  BY <1>8 DEF CopyFails
<1>9. ASSUME NEW c \in Calls, Measure(c) PROVE LockInv'
  BY <1>9 DEF Measure, lock
<1>10. ASSUME NEW c \in Calls, Rename(c) PROVE LockInv'
  BY <1>10 DEF Rename, lock
<1>11. ASSUME NEW c \in Calls, Load(c) PROVE LockInv'
  BY <1>11 DEF Load, Loaded, lock
<1>12. ASSUME NEW c \in Calls, LoadGpu(c) PROVE LockInv'
  BY <1>12 DEF LoadGpu, Loaded, lock
<1>13. ASSUME NEW c \in Calls, Infer(c) PROVE LockInv'
  BY <1>13 DEF Infer, lock
<1>14. CASE PollReads \/ PollPublishes
  BY <1>14 DEF PollReads, PollPublishes, lock
<1>15. CASE Die
  BY <1>15 DEF Die
<1> QED
  BY <1>1, <1>2, <1>3, <1>4, <1>5, <1>6, <1>7, <1>8, <1>9, <1>10, <1>11, <1>12, <1>13,
     <1>14, <1>15 DEF Next, Serve

(* Who writes the temporary file or renames it holds the mutex, so that no   *)
(* other request is copying or renaming.                                     *)
LEMMA FileInvStep == ASSUME IInv, [Next]_vars PROVE FileInv'
<1> USE EngineOfType, Lengths, EnginesAssumption
<1> USE DEF IInv, Types, FileInv, At, To, Return, Fail
<1>1. CASE UNCHANGED vars
  BY <1>1 DEF vars, disk
<1>2. ASSUME NEW c \in Calls, Request(c) PROVE FileInv'
  BY <1>2 DEF Request, disk, lock
<1>3. ASSUME NEW c \in Calls, Cancel(c) PROVE FileInv'
  BY <1>3 DEF Cancel, disk, lock
<1>4. ASSUME NEW c \in Calls, Check(c) PROVE FileInv'
  BY <1>4 DEF Check, disk, lock
<1>5. ASSUME NEW c \in Calls, Sweep(c) PROVE FileInv'
  <2>1. EngineOf(c) = "whisper"
    BY <1>5, EnginesAssumption DEF Sweep, EngineOf
  <2>2. \A d \in Calls : pc[d] \in {"copy", "rename"} => EngineOf(d) # "whisper"
    BY <1>5, <2>1 DEF Sweep, LockInv, Staging
  <2>3. \A d \in Calls : pc'[d] \in {"copy", "rename"} =>
          pc'[d] = pc[d] /\ EngineOf(d) # "whisper"
    BY <1>5, <2>2 DEF Sweep
  <2>4. \A e \in Engines : e # "whisper" => tmp'[e] = tmp[e]
    BY <1>5, EnginesAssumption DEF Sweep, EngineOf
  <2> QED BY <1>5, <2>3, <2>4 DEF Sweep
<1>6. ASSUME NEW c \in Calls, Open(c) PROVE FileInv'
  BY <1>6 DEF Open, LockInv, Staging, Length, Absent
<1>7. ASSUME NEW c \in Calls, Copy(c) PROVE FileInv'
  BY <1>7 DEF Copy, LockInv, Staging, Length, Absent
<1>8. ASSUME NEW c \in Calls, CopyFails(c) PROVE FileInv'
  BY <1>8 DEF CopyFails, disk, lock
<1>9. ASSUME NEW c \in Calls, Measure(c) PROVE FileInv'
  BY <1>9 DEF Measure, LockInv, Staging, Length, Absent
<1>10. ASSUME NEW c \in Calls, Rename(c) PROVE FileInv'
  BY <1>10 DEF Rename, LockInv, Staging, Length, Absent
<1>11. ASSUME NEW c \in Calls, Load(c) PROVE FileInv'
  BY <1>11 DEF Load, Loaded, disk, lock
<1>12. ASSUME NEW c \in Calls, LoadGpu(c) PROVE FileInv'
  BY <1>12 DEF LoadGpu, Loaded, disk, lock
<1>13. ASSUME NEW c \in Calls, Infer(c) PROVE FileInv'
  BY <1>13 DEF Infer, disk, lock
<1>14. CASE PollReads \/ PollPublishes
  BY <1>14 DEF PollReads, PollPublishes, disk
<1>15. CASE Die
  BY <1>15 DEF Die, disk
<1> QED
  BY <1>1, <1>2, <1>3, <1>4, <1>5, <1>6, <1>7, <1>8, <1>9, <1>10, <1>11, <1>12, <1>13,
     <1>14, <1>15 DEF Next, Serve

LEMMA SweepInvStep == ASSUME IInv, [Next]_vars PROVE SweepInv'
<1> USE EngineOfType, Lengths
<1> USE DEF IInv, Types, SweepInv, NoOldGeneration, At, To, Return, Fail, EngineOf, Calls, Engines
<1>1. CASE UNCHANGED vars
  BY <1>1 DEF vars, disk
<1>2. ASSUME NEW c \in Calls, Request(c) PROVE SweepInv'
  BY <1>2 DEF Request, disk, lock
<1>3. ASSUME NEW c \in Calls, Cancel(c) PROVE SweepInv'
  BY <1>3 DEF Cancel, disk, lock
<1>4. ASSUME NEW c \in Calls, Check(c) PROVE SweepInv'
  BY <1>4 DEF Check, disk, lock
<1>5. ASSUME NEW c \in Calls, Sweep(c) PROVE SweepInv'
  BY <1>5 DEF Sweep
<1>6. ASSUME NEW c \in Calls, Open(c) PROVE SweepInv'
  BY <1>6 DEF Open
<1>7. ASSUME NEW c \in Calls, Copy(c) PROVE SweepInv'
  BY <1>7 DEF Copy
<1>8. ASSUME NEW c \in Calls, CopyFails(c) PROVE SweepInv'
  BY <1>8 DEF CopyFails, disk, lock
<1>9. ASSUME NEW c \in Calls, Measure(c) PROVE SweepInv'
  BY <1>9 DEF Measure
<1>10. ASSUME NEW c \in Calls, Rename(c) PROVE SweepInv'
  BY <1>10, EnginesAssumption DEF Rename
<1>11. ASSUME NEW c \in Calls, Load(c) PROVE SweepInv'
  BY <1>11 DEF Load, Loaded, disk, lock
<1>12. ASSUME NEW c \in Calls, LoadGpu(c) PROVE SweepInv'
  BY <1>12 DEF LoadGpu, Loaded, disk, lock
<1>13. ASSUME NEW c \in Calls, Infer(c) PROVE SweepInv'
  BY <1>13 DEF Infer, disk, lock
<1>14. CASE PollReads \/ PollPublishes
  BY <1>14 DEF PollReads, PollPublishes, disk
<1>15. CASE Die
  BY <1>15 DEF Die, disk
<1> QED
  BY <1>1, <1>2, <1>3, <1>4, <1>5, <1>6, <1>7, <1>8, <1>9, <1>10, <1>11, <1>12, <1>13,
     <1>14, <1>15 DEF Next, Serve

LEMMA RoomInvStep == ASSUME IInv, [Next]_vars PROVE RoomInv'
<1> USE EngineOfType, Lengths, EnginesAssumption
<1> USE DEF IInv, Types, RoomInv, At, To, Return, Fail, EngineOf, Calls, Engines, Absent
<1>1. CASE UNCHANGED vars
  BY <1>1 DEF vars, disk
<1>2. ASSUME NEW c \in Calls, Request(c) PROVE RoomInv'
  BY <1>2 DEF Request, disk, lock
<1>3. ASSUME NEW c \in Calls, Cancel(c) PROVE RoomInv'
  BY <1>3 DEF Cancel, disk, lock
<1>4. ASSUME NEW c \in Calls, Check(c) PROVE RoomInv'
  BY <1>4 DEF Check, Valid, FileInv, disk, lock
<1>5. ASSUME NEW c \in Calls, Sweep(c) PROVE RoomInv'
  BY <1>5 DEF Sweep, LockInv, Staging, SweepInv, FileInv, lock
<1>6. ASSUME NEW c \in Calls, Open(c) PROVE RoomInv'
  BY <1>6 DEF Open, LockInv, Staging, SweepInv, FileInv, lock
<1>7. ASSUME NEW c \in Calls, Copy(c) PROVE RoomInv'
  BY <1>7 DEF Copy, LockInv, Staging, SweepInv, FileInv, lock
<1>8. ASSUME NEW c \in Calls, CopyFails(c) PROVE RoomInv'
  BY <1>8 DEF CopyFails, disk, lock
<1>9. ASSUME NEW c \in Calls, Measure(c) PROVE RoomInv'
  BY <1>9 DEF Measure, LockInv, Staging, SweepInv, FileInv, lock
<1>10. ASSUME NEW c \in Calls, Rename(c) PROVE RoomInv'
  BY <1>10 DEF Rename, LockInv, Staging, SweepInv, FileInv, lock
<1>11. ASSUME NEW c \in Calls, Load(c) PROVE RoomInv'
  BY <1>11 DEF Load, Loaded, disk, lock
<1>12. ASSUME NEW c \in Calls, LoadGpu(c) PROVE RoomInv'
  BY <1>12 DEF LoadGpu, Loaded, disk, lock
<1>13. ASSUME NEW c \in Calls, Infer(c) PROVE RoomInv'
  BY <1>13 DEF Infer, disk, lock
<1>14. CASE PollReads \/ PollPublishes
  BY <1>14 DEF PollReads, PollPublishes, disk
<1>15. CASE Die
  BY <1>15 DEF Die, disk
<1> QED
  BY <1>1, <1>2, <1>3, <1>4, <1>5, <1>6, <1>7, <1>8, <1>9, <1>10, <1>11, <1>12, <1>13,
     <1>14, <1>15 DEF Next, Serve

(* A copy of a whole model stops only on a disk without room for two models: *)
(* its own engine has no more than a part of one, the other no more than one. *)
LEMMA ShortOfRoom ==
  ASSUME IInv, NEW c \in Calls, pc[c] = "copy",
         tmp[EngineOf(c)] < asset[EngineOf(c)], Used >= room, asset[EngineOf(c)] = Size
  PROVE  room < Needed
<1> USE DEF IInv, Types, Length
<1>1. \A e \in Engines : Blocks(out[e]) + Blocks(tmp[e]) \in 0..Size
  <2> TAKE e \in Engines
  <2>1. CASE out[e] = Size
    BY <2>1, EnginesAssumption DEF RoomInv, Blocks, Absent
  <2>2. CASE out[e] = Absent
    BY <2>2, EnginesAssumption DEF Blocks, Absent
  <2> QED BY <2>1, <2>2 DEF FileInv
<1>2. Blocks(out[EngineOf(c)]) + Blocks(tmp[EngineOf(c)]) \in 0..(Size - 1)
  <2>1. out[EngineOf(c)] = Absent /\ tmp[EngineOf(c)] \in 0..(Size - 1)
    BY EngineOfType, EnginesAssumption DEF RoomInv, FileInv, Absent
  <2> QED BY <2>1, EnginesAssumption DEF Blocks, Absent
<1>3. \A e \in Engines : Blocks(out[e]) \in Nat /\ Blocks(tmp[e]) \in Nat
  BY EnginesAssumption DEF Blocks, Absent
<1>4. CASE c \in WhisperCalls
  <2>1. (~old \/ missed) /\ EngineOf(c) = "whisper"
    BY <1>4 DEF SweepInv, EngineOf
  <2> QED BY <1>1, <1>2, <1>3, <2>1, EnginesAssumption DEF Used, Engines, Needed
<1>5. CASE c \notin WhisperCalls
  <2>1. EngineOf(c) = "llm"
    BY <1>5 DEF EngineOf
  <2>2. old /\ ~missed => Blocks(out["whisper"]) + Blocks(tmp["whisper"]) = 0
    BY EnginesAssumption DEF SweepInv, NoOldGeneration, RoomInv, Engines, Blocks, Absent
  <2> QED BY <1>1, <1>2, <1>3, <2>1, <2>2, EnginesAssumption DEF Used, Engines, Needed
<1> QED BY <1>4, <1>5

LEMMA HurtInvStep == ASSUME IInv, [Next]_vars PROVE HurtInv'
<1> USE EngineOfType, EnginesAssumption
<1> USE DEF IInv, Types, HurtInv, NullIsExplained, At, To, Return, Fail, EngineOf, Calls, Engines, Absent
<1>1. CASE UNCHANGED vars
  BY <1>1 DEF vars, disk
<1>2. ASSUME NEW c \in Calls, Request(c) PROVE HurtInv'
  BY <1>2 DEF Request, disk, lock
<1>3. ASSUME NEW c \in Calls, Cancel(c) PROVE HurtInv'
  BY <1>3 DEF Cancel, disk, lock
<1>4. ASSUME NEW c \in Calls, Check(c) PROVE HurtInv'
  BY <1>4 DEF Check, Valid, disk, lock
<1>5. ASSUME NEW c \in Calls, Sweep(c) PROVE HurtInv'
  BY <1>5 DEF Sweep, lock
<1>6. ASSUME NEW c \in Calls, Open(c) PROVE HurtInv'
  BY <1>6 DEF Open, lock, NoFault, Hurt
<1>7. ASSUME NEW c \in Calls, Copy(c) PROVE HurtInv'
  BY <1>7 DEF Copy, lock
<1>8. ASSUME NEW c \in Calls, CopyFails(c) PROVE HurtInv'
  <2>1. /\ asset[EngineOf(c)] = Size /\ tmp[EngineOf(c)] < asset[EngineOf(c)] /\ Used >= room
        => room < Needed
    BY <1>8, ShortOfRoom DEF CopyFails, At
  <2>2. \/ hurt' = hurt \cup {c, EngineOf(c)}
        \/ asset[EngineOf(c)] # Size /\ hurt' = hurt
    BY <1>8, <2>1 DEF CopyFails, Hurt
  <2>3. \A d \in Calls : /\ pc'[d] \in {pc[d], "idle"}
                         /\ d # c => answer'[d] = answer[d]
    BY <1>8 DEF CopyFails
  <2>4. /\ state' = state \/ c \in LlmCalls
        /\ UNCHANGED <<asset, out>>
    BY <1>8 DEF CopyFails, disk
  <2>5. \A d \in Calls : d \notin Engines
    BY EnginesAssumption
  <2>6. CASE hurt' = hurt \cup {c, EngineOf(c)}
    BY <2>3, <2>4, <2>5, <2>6
  <2>7. CASE asset[EngineOf(c)] # Size /\ hurt' = hurt
    BY <2>3, <2>4, <2>5, <2>7
  <2> QED BY <2>2, <2>6, <2>7
<1>9. ASSUME NEW c \in Calls, Measure(c) PROVE HurtInv'
  BY <1>9 DEF Measure, lock
<1>10. ASSUME NEW c \in Calls, Rename(c) PROVE HurtInv'
  BY <1>10 DEF Rename, FileInv, lock, NoFault, Hurt
<1>11. ASSUME NEW c \in Calls, Load(c) PROVE HurtInv'
  BY <1>11 DEF Load, Loaded, NoFault, Hurt, disk, lock
<1>12. ASSUME NEW c \in Calls, LoadGpu(c) PROVE HurtInv'
  BY <1>12 DEF LoadGpu, Loaded, disk, lock
<1>13. ASSUME NEW c \in Calls, Infer(c) PROVE HurtInv'
  BY <1>13 DEF Infer, disk, lock
<1>14. CASE PollReads \/ PollPublishes
  BY <1>14 DEF PollReads, PollPublishes, disk
<1>15. CASE Die
  BY <1>15 DEF Die, disk
<1> QED
  BY <1>1, <1>2, <1>3, <1>4, <1>5, <1>6, <1>7, <1>8, <1>9, <1>10, <1>11, <1>12, <1>13,
     <1>14, <1>15 DEF Next, Serve

LEMMA Inductive == Spec => []IInv
<1>1. IInv /\ [Next]_vars => IInv'
  BY TypesStep, LockInvStep, FileInvStep, SweepInvStep, RoomInvStep, HurtInvStep DEF IInv
<1> QED BY InitIInv, <1>1, PTL DEF Spec

-----------------------------------------------------------------------------
(* whisper's one context is staged, loaded and used by one request at a     *)
(* time: the mutex of WhisperTranscriber covers all three.                  *)
THEOREM OneContextHolds == Spec => []OneContext
<1>1. IInv => OneContext
  BY DEF IInv, Types, LockInv, OneContext, Busy, Labels, EngineOf, Calls
<1> QED BY Inductive, <1>1, PTL

(* A model of a previous generation is gone before the current one exists,   *)
(* unless the sweep before it could not delete it: whatever the process dies *)
(* of, and however often a copy is begun again.                              *)
THEOREM NoOldGenerationHolds == Spec => []NoOldGeneration
<1>1. IInv => NoOldGeneration
  BY DEF IInv, SweepInv
<1> QED BY Inductive, <1>1, PTL

(* Who never reaches its engine has a reason: no whole model in the build, a *)
(* disk too small for both and what a sweep has left, or a failure, its own  *)
(* or, for the language model, one since the process started.                *)
THEOREM NullIsExplainedHolds == Spec => []NullIsExplained
<1>1. IInv => NullIsExplained
  BY DEF IInv, HurtInv
<1> QED BY Inductive, <1>1, PTL

(* Every step of a request is a step of the store or leaves it alone: the    *)
(* rename stages a file, a load that succeeds loads one.                     *)
LEMMA StoreStep == ASSUME IInv, [Next]_vars PROVE [Store!Next]_(Store!vars)
<1> USE EngineOfType
<1> USE DEF IInv, Types, Store!Next, Store!vars
<1>1. CASE UNCHANGED vars
  BY <1>1 DEF vars, disk
<1>2. ASSUME NEW c \in Calls, Request(c) PROVE [Store!Next]_(Store!vars)
  BY <1>2 DEF Request, disk, lock
<1>3. ASSUME NEW c \in Calls, Cancel(c) PROVE [Store!Next]_(Store!vars)
  BY <1>3 DEF Cancel, disk, lock
<1>4. ASSUME NEW c \in Calls, Check(c) PROVE [Store!Next]_(Store!vars)
  BY <1>4 DEF Check, disk, lock
<1>5. ASSUME NEW c \in Calls, Sweep(c) PROVE [Store!Next]_(Store!vars)
  BY <1>5 DEF Sweep, disk, lock
<1>6. ASSUME NEW c \in Calls, Open(c) PROVE [Store!Next]_(Store!vars)
  BY <1>6 DEF Open, Fail
<1>7. ASSUME NEW c \in Calls, Copy(c) PROVE [Store!Next]_(Store!vars)
  BY <1>7 DEF Copy, disk, lock
<1>8. ASSUME NEW c \in Calls, CopyFails(c) PROVE [Store!Next]_(Store!vars)
  BY <1>8 DEF CopyFails, Fail, disk
<1>9. ASSUME NEW c \in Calls, Measure(c) PROVE [Store!Next]_(Store!vars)
  BY <1>9 DEF Measure, Fail
<1>10. ASSUME NEW c \in Calls, Rename(c) PROVE [Store!Next]_(Store!vars)
  BY <1>10 DEF Rename, At, FileInv, Store!Stage
<1>11. ASSUME NEW c \in Calls, Load(c) PROVE [Store!Next]_(Store!vars)
  <2>1. CASE out[EngineOf(c)] # Absent /\ Loaded(c)
    <3>1. out[EngineOf(c)] = Size /\ UNCHANGED out
      BY <1>11, <2>1 DEF Load, disk, FileInv
    <3> QED BY <2>1, <3>1 DEF Loaded, Store!Load
  <2>2. CASE Fail(c)
    BY <1>11, <2>2 DEF Load, Fail, disk
  <2> QED BY <1>11, <2>1, <2>2 DEF Load
<1>12. ASSUME NEW c \in Calls, LoadGpu(c) PROVE [Store!Next]_(Store!vars)
  <2>1. CASE out["llm"] # Absent /\ Loaded(c)
    <3>1. EngineOf(c) = "llm"
      BY <1>12, EnginesAssumption DEF LoadGpu, EngineOf
    <3>2. out["llm"] = Size /\ UNCHANGED out
      BY <1>12, <2>1 DEF LoadGpu, disk, FileInv, Engines
    <3> QED BY <2>1, <3>1, <3>2 DEF Loaded, Store!Load
  <2>2. CASE UNCHANGED <<out, loaded>>
    BY <2>2
  <2> QED BY <1>12, <2>1, <2>2 DEF LoadGpu, disk
<1>13. ASSUME NEW c \in Calls, Infer(c) PROVE [Store!Next]_(Store!vars)
  BY <1>13 DEF Infer, disk, lock
<1>14. CASE PollReads \/ PollPublishes
  BY <1>14 DEF PollReads, PollPublishes, disk
<1>15. CASE Die
  BY <1>15 DEF Die, disk, Store!Die
<1> QED
  BY <1>1, <1>2, <1>3, <1>4, <1>5, <1>6, <1>7, <1>8, <1>9, <1>10, <1>11, <1>12, <1>13,
     <1>14, <1>15 DEF Next, Serve

(* stagedModel and the engines' loading implement the store of whole files: *)
(* whatever the process dies of and however full the disk is, no partial     *)
(* model is ever found or loaded.                                            *)
THEOREM Implementation == Spec => StagesWhole
<1>1. Init => Store!Init
  BY EngineOfType DEF Init, Store!Init
<1> QED BY Inductive, <1>1, StoreStep, PTL DEF Spec, StagesWhole, Store!Spec
-----------------------------------------------------------------------------
(* The mutexes.  A request is at work while it holds one or waits for it.    *)
AtWork(c) == pc[c] \in Staging \cup {"wait", "enter"} \/ (c \in WhisperCalls /\ pc[c] = "run")

(* Request c stands at position i of the queue of engine e.                  *)
Queued(c, e, i) == i \in 1..Len(waiting[e]) /\ waiting[e][i] = c

(* A mutex is held by a request of its engine that is at work, or is free    *)
(* and nobody waits for it.                                                  *)
Held(e) ==
  /\ holder[e] # "none" => /\ holder[e] \in Calls
                           /\ EngineOf(holder[e]) = e /\ AtWork(holder[e])
  /\ waiting[e] # <<>> => holder[e] # "none"

HeldInv == \A e \in Engines : Held(e)

(* Who is queued waits, for the mutex of its engine, once, and does not hold *)
(* it; and who waits holds the mutex already or is queued.                   *)
QueueInv ==
  /\ \A e \in Engines, c \in Calls, i \in Nat : Queued(c, e, i) =>
       /\ EngineOf(c) = e /\ pc[c] = "wait" /\ holder[e] # c
       /\ \A j \in Nat : Queued(c, e, j) => i = j
  /\ \A c \in Calls :
       pc[c] = "wait" => \/ holder[EngineOf(c)] = c
                         \/ \E i \in Nat : Queued(c, EngineOf(c), i)

MutexTypes == holder \in [Engines -> Calls \cup {"none"}] /\ waiting \in [Engines -> Seq(Calls)]

MutexInv == MutexTypes /\ HeldInv /\ QueueInv

LEMMA RemoveFacts ==
  ASSUME NEW S, NEW s \in Seq(S), NEW i \in 1..Len(s), NEW r, r = RemoveAt(s, i)
  PROVE  /\ r \in Seq(S) /\ Len(r) = Len(s) - 1
         /\ \A k \in 1..Len(r) : r[k] = IF k < i THEN s[k] ELSE s[k + 1]
<1>1. Len(s) \in Nat /\ \A k \in 1..Len(s) : s[k] \in S
  BY LenProperties, ElementOfSeq
<1>2. PICK a, b : a = SubSeq(s, 1, i - 1) /\ b = SubSeq(s, i + 1, Len(s))
  OBVIOUS
<1>3. /\ a \in Seq(S) /\ Len(a) = i - 1
      /\ \A k \in 1..(i - 1) : a[k] = s[k]
  BY <1>1, <1>2, SubSeqProperties
<1>4. /\ b \in Seq(S) /\ Len(b) = Len(s) - i
      /\ \A k \in 1..(Len(s) - i) : b[k] = s[k + i]
  BY <1>1, <1>2, SubSeqProperties
<1>5. r = a \o b
  BY <1>2 DEF RemoveAt
<1>6. r \in Seq(S) /\ Len(r) = Len(a) + Len(b)
      /\ \A k \in 1..(Len(a) + Len(b)) : r[k] = IF k <= Len(a) THEN a[k] ELSE b[k - Len(a)]
  <2>1. /\ a \o b \in Seq(S) /\ Len(a \o b) = Len(a) + Len(b)
        /\ \A k \in 1..(Len(a) + Len(b)) :
             (a \o b)[k] = IF k <= Len(a) THEN a[k] ELSE b[k - Len(a)]
    BY <1>3, <1>4, ConcatProperties
  <2> QED BY <1>5, <2>1, Zenon
<1>7. Len(r) = Len(s) - 1
  BY <1>1, <1>3, <1>4, <1>6
<1>8. ASSUME NEW k \in 1..Len(r) PROVE r[k] = IF k < i THEN s[k] ELSE s[k + 1]
  <2>1. CASE k < i
    <3>1. k \in 1..(i - 1) /\ k \in 1..(Len(a) + Len(b)) /\ k <= Len(a)
      BY <1>1, <1>3, <1>4, <1>7, <2>1
    <3> QED BY <1>3, <1>6, <2>1, <3>1
  <2>2. CASE ~(k < i)
    <3>1. k - Len(a) \in 1..(Len(s) - i) /\ k \in 1..(Len(a) + Len(b)) /\ ~(k <= Len(a))
          /\ (k - Len(a)) + i = k + 1
      BY <1>1, <1>3, <1>4, <1>7, <2>2
    <3> QED BY <1>4, <1>6, <2>2, <3>1
  <2> QED BY <2>1, <2>2
<1> QED BY <1>6, <1>7, <1>8

(* What a step may not do to keep the mutexes as they are: begin to wait, or *)
(* stop working with one of them in hand.                                    *)
LEMMA MutexKept ==
  ASSUME MutexInv, UNCHANGED lock,
         \A c \in Calls : /\ (pc'[c] = "wait") => (pc[c] = "wait")
                          /\ pc[c] = "wait" => pc'[c] = "wait" \/ holder[EngineOf(c)] = c
                          /\ holder[EngineOf(c)] = c /\ AtWork(c) => AtWork(c)'
  PROVE  MutexInv'
<1>1. holder' = holder /\ waiting' = waiting
  BY DEF lock
<1>2. \A e, c, i : Queued(c, e, i)' <=> Queued(c, e, i)
  BY <1>1 DEF Queued
<1>3. MutexTypes'
  BY <1>1 DEF MutexInv, MutexTypes
<1>4. HeldInv'
  BY <1>1 DEF MutexInv, HeldInv, Held
<1>5. ASSUME NEW e \in Engines, NEW c \in Calls, NEW i \in Nat, Queued(c, e, i)
      PROVE  /\ EngineOf(c) = e /\ pc'[c] = "wait" /\ holder'[e] # c
             /\ \A j \in Nat : Queued(c, e, j) => i = j
  BY <1>1, <1>5 DEF MutexInv, QueueInv
<1>6. ASSUME NEW c \in Calls, pc'[c] = "wait"
      PROVE  holder'[EngineOf(c)] = c \/ \E i \in Nat : Queued(c, EngineOf(c), i)
  BY <1>1, <1>6 DEF MutexInv, QueueInv
<1>7. QueueInv'
  BY <1>2, <1>5, <1>6 DEF QueueInv
<1> QED BY <1>3, <1>4, <1>7 DEF MutexInv

(* The mutex is handed to the one that waits longest.                        *)
LEMMA Released ==
  ASSUME MutexInv, NEW c \in Calls, holder[EngineOf(c)] = c, Unlock(c),
         pc \in [Calls -> Labels],
         pc' = [pc EXCEPT ![c] = pc'[c]], pc'[c] # "wait"
  PROVE  MutexInv'
<1> DEFINE e == EngineOf(c)
           w == waiting[e]
<1>1. e \in Engines /\ w \in Seq(Calls) /\ "none" \notin Calls
  BY EngineOfType, EnginesAssumption DEF MutexInv, MutexTypes
<1>2. \A d \in Calls : d # c => pc'[d] = pc[d] /\ (AtWork(d) => AtWork(d)')
  BY DEF AtWork
<1>3. \A d \in Calls : d # c => holder[e] # d
  OBVIOUS
<1>4. CASE w = <<>>
  <2>1. holder' = [holder EXCEPT ![e] = "none"] /\ waiting' = waiting
    BY <1>4 DEF Unlock
  <2>2. holder'[e] = "none" /\ \A f \in Engines : f # e => holder'[f] = holder[f]
    BY <1>1, <2>1 DEF MutexInv, MutexTypes
  <2>3. \A f, d, i : Queued(d, f, i)' <=> Queued(d, f, i)
    BY <2>1 DEF Queued
  <2>4. \A d, i : ~Queued(d, e, i)
    BY <1>4 DEF Queued
  <2>5. MutexTypes'
    BY <2>1 DEF MutexInv, MutexTypes
  <2>6. HeldInv'
    <3> SUFFICES ASSUME NEW f \in Engines PROVE Held(f)'
      BY DEF HeldInv
    <3> USE DEF Held
    <3>1. CASE f = e
      BY <1>4, <2>1, <2>2, <3>1
    <3>2. CASE f # e
      <4>1. holder'[f] # "none" => holder[f] # c
        BY <2>2, <3>2 DEF MutexInv, HeldInv
      <4> QED BY <1>2, <2>1, <2>2, <3>2, <4>1 DEF MutexInv, HeldInv
    <3> QED BY <3>1, <3>2
  <2>7. QueueInv'
    <3>1. ASSUME NEW f \in Engines, NEW d \in Calls, NEW i \in Nat, Queued(d, f, i)
          PROVE  /\ EngineOf(d) = f /\ pc'[d] = "wait" /\ holder'[f] # d
                 /\ \A j \in Nat : Queued(d, f, j) => i = j
      <4>1. f # e
        BY <2>4, <3>1
      <4>2. /\ EngineOf(d) = f /\ pc[d] = "wait" /\ holder[f] # d
            /\ \A j \in Nat : Queued(d, f, j) => i = j
        BY <3>1 DEF MutexInv, QueueInv
      <4> QED BY <1>2, <2>2, <4>1, <4>2
    <3>2. ASSUME NEW d \in Calls, pc'[d] = "wait"
          PROVE  holder'[EngineOf(d)] = d \/ \E i \in Nat : Queued(d, EngineOf(d), i)
      <4>1. d # c /\ pc[d] = "wait"
        BY <1>2, <3>2
      <4>2. holder[EngineOf(d)] = d \/ \E i \in Nat : Queued(d, EngineOf(d), i)
        BY <4>1 DEF MutexInv, QueueInv
      <4>3. EngineOf(d) # e
        BY <1>3, <2>4, <4>1, <4>2
      <4> QED BY <2>2, <4>2, <4>3, EngineOfType
    <3> QED BY <2>3, <3>1, <3>2 DEF QueueInv
  <2> QED BY <2>5, <2>6, <2>7 DEF MutexInv
<1>5. CASE w # <<>>
  <2>1. /\ holder' = [holder EXCEPT ![e] = Head(w)]
        /\ waiting' = [waiting EXCEPT ![e] = Tail(w)]
    BY <1>5 DEF Unlock
  <2>2. PICK h : h = Head(w) /\ h = w[1] /\ h \in Calls /\ Len(w) \in Nat /\ 1 \in 1..Len(w)
    <3>1. Head(w) \in Calls /\ Head(w) = w[1] /\ Len(w) \in Nat \ {0}
      BY <1>1, <1>5, HeadTailProperties, EmptySeq, ElementOfSeq
    <3> QED BY <3>1
  <2>3. PICK t : t = Tail(w) /\ t \in Seq(Calls) /\ Len(t) = Len(w) - 1
                 /\ \A i \in 1..Len(t) : t[i] = w[i + 1]
    <3> HIDE DEF w
    <3>1. /\ Tail(w) \in Seq(Calls) /\ Len(Tail(w)) = Len(w) - 1
          /\ \A i \in 1..Len(Tail(w)) : Tail(w)[i] = w[i + 1]
      BY <1>1, <1>5, HeadTailProperties
    <3> QED BY <3>1, Zenon
  <2>4. /\ holder'[e] = h /\ waiting'[e] = t
        /\ \A f \in Engines : f # e => holder'[f] = holder[f] /\ waiting'[f] = waiting[f]
    BY <1>1, <2>1, <2>2, <2>3 DEF MutexInv, MutexTypes
  <2>5. Queued(h, e, 1) /\ \A d : \A i \in Nat : Queued(d, e, i)' <=> (i > 0 /\ Queued(d, e, i + 1))
    <3>1. Queued(h, e, 1)
      BY <2>2 DEF Queued
    <3>2. ASSUME NEW d, NEW i \in Nat
          PROVE  Queued(d, e, i)' <=> (i > 0 /\ Queued(d, e, i + 1))
      <4>1. i \in 1..Len(t) <=> (i > 0 /\ i + 1 \in 1..Len(w))
        BY <2>2, <2>3
      <4> QED BY <2>3, <2>4, <4>1 DEF Queued
    <3> QED BY <3>1, <3>2
  <2>6. \A f \in Engines : f # e => \A d, i : Queued(d, f, i)' <=> Queued(d, f, i)
    BY <2>4 DEF Queued
  <2>7. /\ EngineOf(h) = e /\ pc[h] = "wait" /\ h # c
        /\ \A j \in Nat : Queued(h, e, j) => j = 1
    <3>1. 1 \in Nat
      OBVIOUS
    <3> QED BY <1>1, <2>2, <2>5, <3>1 DEF MutexInv, QueueInv
  <2>8. MutexTypes'
    BY <1>1, <2>1, <2>2, <2>3 DEF MutexInv, MutexTypes
  <2>9. HeldInv'
    <3> SUFFICES ASSUME NEW f \in Engines PROVE Held(f)'
      BY DEF HeldInv
    <3> USE DEF Held
    <3>1. CASE f = e
      <4>1. AtWork(h)'
        BY <1>2, <2>2, <2>7 DEF AtWork
      <4> QED BY <1>1, <2>2, <2>4, <2>7, <3>1, <4>1
    <3>2. CASE f # e
      <4>1. holder'[f] # "none" => holder[f] # c
        BY <2>4, <3>2 DEF MutexInv, HeldInv
      <4> QED BY <1>2, <2>4, <3>2, <4>1 DEF MutexInv, HeldInv
    <3> QED BY <3>1, <3>2
  <2>10. QueueInv'
    <3>1. ASSUME NEW f \in Engines, NEW d \in Calls, NEW i \in Nat, Queued(d, f, i)'
          PROVE  /\ EngineOf(d) = f /\ pc'[d] = "wait" /\ holder'[f] # d
                 /\ \A j \in Nat : Queued(d, f, j)' => i = j
      <4>1. CASE f = e
        <5>1. i > 0 /\ Queued(d, e, i + 1) /\ i + 1 \in Nat
          BY <2>5, <3>1, <4>1
        <5>2. /\ EngineOf(d) = e /\ pc[d] = "wait" /\ holder[e] # d
              /\ \A j \in Nat : Queued(d, e, j) => i + 1 = j
          BY <1>1, <5>1 DEF MutexInv, QueueInv
        <5>3. d # h
          BY <2>7, <5>1
        <5>4. ASSUME NEW j \in Nat, Queued(d, e, j)' PROVE i = j
          <6>1. Queued(d, e, j + 1) /\ j + 1 \in Nat
            BY <2>5, <5>4
          <6>2. i + 1 = j + 1
            BY <5>2, <6>1
          <6> QED BY <6>2
        <5> QED BY <1>2, <2>4, <4>1, <5>2, <5>3, <5>4
      <4>2. CASE f # e
        <5>1. Queued(d, f, i)
          BY <2>6, <3>1, <4>2
        <5>2. /\ EngineOf(d) = f /\ pc[d] = "wait" /\ holder[f] # d
              /\ \A j \in Nat : Queued(d, f, j) => i = j
          BY <5>1 DEF MutexInv, QueueInv
        <5> QED BY <1>2, <2>4, <2>6, <4>2, <5>2
      <4> QED BY <4>1, <4>2
    <3>2. ASSUME NEW d \in Calls, pc'[d] = "wait"
          PROVE  holder'[EngineOf(d)] = d \/ \E i \in Nat : Queued(d, EngineOf(d), i)'
      <4>1. d # c /\ pc[d] = "wait"
        BY <1>2, <3>2
      <4>2. holder[EngineOf(d)] = d \/ \E i \in Nat : Queued(d, EngineOf(d), i)
        BY <4>1 DEF MutexInv, QueueInv
      <4>3. CASE EngineOf(d) # e
        BY <2>4, <2>6, <4>2, <4>3, EngineOfType
      <4>4. CASE EngineOf(d) = e
        <5>1. PICK i \in Nat : Queued(d, e, i)
          BY <1>3, <4>1, <4>2, <4>4
        <5>2. CASE d = h
          BY <2>4, <4>4, <5>2
        <5>3. CASE d # h
          <6>1. i \in 1..Len(w) /\ i # 1
            BY <2>2, <5>1, <5>3 DEF Queued
          <6>2. PICK k \in Nat : k > 0 /\ i = k + 1
            <7>1. i - 1 \in Nat /\ i - 1 > 0 /\ i = (i - 1) + 1
              BY <2>2, <6>1
            <7> QED BY <7>1
          <6>3. Queued(d, e, k)'
            BY <2>5, <5>1, <6>2
          <6> QED BY <4>4, <6>3
        <5> QED BY <5>2, <5>3
      <4> QED BY <4>3, <4>4
    <3> QED BY <3>1, <3>2 DEF QueueInv
  <2> QED BY <2>8, <2>9, <2>10 DEF MutexInv
<1> QED BY <1>4, <1>5

(* A request takes a free mutex, or queues behind those that wait for it.    *)
LEMMA MutexRequested ==
  ASSUME Types, MutexInv, NEW c \in Calls, Request(c)
  PROVE  MutexInv'
<1> DEFINE e == EngineOf(c)
           w == waiting[e]
<1>1. e \in Engines /\ w \in Seq(Calls) /\ "none" \notin Calls /\ Len(w) \in Nat
  BY EngineOfType, EnginesAssumption, LenProperties DEF MutexInv, MutexTypes
<1>2. pc[c] = "idle" /\ pc'[c] \in {"wait", "enter"} /\ \A d \in Calls : d # c => pc'[d] = pc[d]
  BY DEF Request, To, Types
<1>3. AtWork(c)' /\ \A d \in Calls : AtWork(d) => AtWork(d)'
  BY <1>2 DEF AtWork
<1>4. \A f \in Engines, i \in Nat : ~Queued(c, f, i)
  BY <1>2 DEF MutexInv, QueueInv
<1>5. \A f \in Engines : holder[f] # c
  BY <1>1, <1>2 DEF MutexInv, HeldInv, Held, AtWork, Staging
<1>6. CASE holder[e] = "none"
  <2>1. holder' = [holder EXCEPT ![e] = c] /\ waiting' = waiting
    BY <1>6 DEF Request
  <2>2. holder'[e] = c /\ \A f \in Engines : f # e => holder'[f] = holder[f]
    BY <1>1, <2>1 DEF MutexInv, MutexTypes
  <2>3. \A d, f, i : Queued(d, f, i)' <=> Queued(d, f, i)
    BY <2>1 DEF Queued
  <2>4. MutexTypes'
    BY <2>1 DEF MutexInv, MutexTypes
  <2>5. HeldInv'
    <3> SUFFICES ASSUME NEW f \in Engines PROVE Held(f)'
      BY DEF HeldInv
    <3>1. CASE f = e
      BY <1>1, <1>3, <2>2, <3>1 DEF Held
    <3>2. CASE f # e
      BY <1>3, <2>1, <2>2, <3>2 DEF MutexInv, HeldInv, Held
    <3> QED BY <3>1, <3>2
  <2>6. QueueInv'
    <3>1. ASSUME NEW f \in Engines, NEW d \in Calls, NEW i \in Nat, Queued(d, f, i)
          PROVE  /\ EngineOf(d) = f /\ pc'[d] = "wait" /\ holder'[f] # d
                 /\ \A j \in Nat : Queued(d, f, j) => i = j
      <4>1. /\ EngineOf(d) = f /\ pc[d] = "wait" /\ holder[f] # d
            /\ \A j \in Nat : Queued(d, f, j) => i = j
        BY <3>1 DEF MutexInv, QueueInv
      <4>2. d # c
        BY <1>4, <3>1
      <4> QED BY <1>2, <2>2, <4>1, <4>2
    <3>2. ASSUME NEW d \in Calls, pc'[d] = "wait"
          PROVE  holder'[EngineOf(d)] = d \/ \E i \in Nat : Queued(d, EngineOf(d), i)
      <4>1. CASE d = c
        BY <2>2, <4>1
      <4>2. CASE d # c
        <5>1. holder[EngineOf(d)] = d \/ \E i \in Nat : Queued(d, EngineOf(d), i)
          BY <1>2, <3>2, <4>2 DEF MutexInv, QueueInv
        <5>2. holder[EngineOf(d)] = d => holder'[EngineOf(d)] = d
          BY <1>1, <1>6, <2>2, EngineOfType
        <5> QED BY <5>1, <5>2
      <4> QED BY <4>1, <4>2
    <3> QED BY <2>3, <3>1, <3>2 DEF QueueInv
  <2> QED BY <2>4, <2>5, <2>6 DEF MutexInv
<1>7. CASE holder[e] # "none"
  <2>1. waiting' = [waiting EXCEPT ![e] = Append(w, c)] /\ holder' = holder /\ pc'[c] = "wait"
    BY <1>7 DEF Request, To, Types
  <2>2. PICK v : v = Append(w, c) /\ v \in Seq(Calls) /\ Len(v) = Len(w) + 1
                 /\ v[Len(w) + 1] = c /\ \A i \in 1..Len(w) : v[i] = w[i]
    <3> HIDE DEF w
    <3>1. /\ Append(w, c) \in Seq(Calls) /\ Len(Append(w, c)) = Len(w) + 1
          /\ \A i \in 1..Len(w) : Append(w, c)[i] = w[i]
          /\ Append(w, c)[Len(w) + 1] = c
      BY <1>1, AppendProperties
    <3> QED BY <3>1, Zenon
  <2>3. waiting'[e] = v /\ \A f \in Engines : f # e => waiting'[f] = waiting[f]
    BY <1>1, <2>1, <2>2 DEF MutexInv, MutexTypes
  <2>4. \A f \in Engines : f # e => \A d, i : Queued(d, f, i)' <=> Queued(d, f, i)
    BY <2>3 DEF Queued
  <2>5. ASSUME NEW d, NEW i \in Nat
        PROVE  Queued(d, e, i)' <=> (Queued(d, e, i) \/ (d = c /\ i = Len(w) + 1))
    <3>1. i \in 1..Len(v) <=> (i \in 1..Len(w) \/ i = Len(w) + 1)
      BY <1>1, <2>2
    <3>2. i = Len(w) + 1 => i \notin 1..Len(w)
      BY <1>1
    <3> QED BY <2>2, <2>3, <3>1, <3>2 DEF Queued
  <2>6. MutexTypes'
    BY <1>1, <2>1, <2>2 DEF MutexInv, MutexTypes
  <2>7. HeldInv'
    <3> SUFFICES ASSUME NEW f \in Engines PROVE Held(f)'
      BY DEF HeldInv
    <3> QED BY <1>3, <1>7, <2>1, <2>3 DEF MutexInv, HeldInv, Held
  <2>8. QueueInv'
    <3>1. ASSUME NEW f \in Engines, NEW d \in Calls, NEW i \in Nat, Queued(d, f, i)'
          PROVE  /\ EngineOf(d) = f /\ pc'[d] = "wait" /\ holder'[f] # d
                 /\ \A j \in Nat : Queued(d, f, j)' => i = j
      <4>1. CASE d = c
        <5>1. f = e /\ i = Len(w) + 1
          BY <1>4, <2>4, <2>5, <3>1, <4>1
        <5>2. \A j \in Nat : Queued(d, f, j)' => i = j
          BY <1>4, <2>5, <4>1, <5>1
        <5> QED BY <1>5, <2>1, <4>1, <5>1, <5>2
      <4>2. CASE d # c
        <5>1. \A j \in Nat : Queued(d, f, j)' <=> Queued(d, f, j)
          BY <2>4, <2>5, <4>2
        <5>2. /\ EngineOf(d) = f /\ pc[d] = "wait" /\ holder[f] # d
              /\ \A j \in Nat : Queued(d, f, j) => i = j
          BY <3>1, <5>1 DEF MutexInv, QueueInv
        <5> QED BY <1>2, <2>1, <4>2, <5>1, <5>2
      <4> QED BY <4>1, <4>2
    <3>2. ASSUME NEW d \in Calls, pc'[d] = "wait"
          PROVE  holder'[EngineOf(d)] = d \/ \E i \in Nat : Queued(d, EngineOf(d), i)'
      <4>1. CASE d = c
        <5>1. Len(w) + 1 \in Nat
          BY <1>1
        <5> QED BY <2>5, <4>1, <5>1
      <4>2. CASE d # c
        <5>1. holder[EngineOf(d)] = d \/ \E i \in Nat : Queued(d, EngineOf(d), i)
          BY <1>2, <3>2, <4>2 DEF MutexInv, QueueInv
        <5> QED BY <2>1, <2>4, <2>5, <5>1, EngineOfType
      <4> QED BY <4>1, <4>2
    <3> QED BY <3>1, <3>2 DEF QueueInv
  <2> QED BY <2>6, <2>7, <2>8 DEF MutexInv
<1> QED BY <1>6, <1>7

(* Who is cancelled in the queue leaves it, and nobody else does.            *)
LEMMA MutexCancelled ==
  ASSUME Types, MutexInv, NEW c \in Calls, Cancel(c), holder[EngineOf(c)] # c
  PROVE  MutexInv'
<1> DEFINE e == EngineOf(c)
           w == waiting[e]
<1>1. e \in Engines /\ w \in Seq(Calls) /\ Len(w) \in Nat /\ DOMAIN w = 1..Len(w)
  BY EngineOfType, LenProperties DEF MutexInv, MutexTypes
<1>2. pc'[c] = "idle" /\ \A d \in Calls : d # c => pc'[d] = pc[d]
  BY DEF Cancel, To, Types
<1>3. holder' = holder /\ pc[c] = "wait"
  BY DEF Cancel
<1>4. PICK p \in 1..Len(w) : /\ w[p] = c
                             /\ waiting' = [waiting EXCEPT ![e] = RemoveAt(w, p)]
  BY <1>1 DEF Cancel
<1>5. PICK v : v = RemoveAt(w, p) /\ v \in Seq(Calls) /\ Len(v) = Len(w) - 1
               /\ \A k \in 1..Len(v) : v[k] = IF k < p THEN w[k] ELSE w[k + 1]
  <2>1. PICK v : v = RemoveAt(w, p)
    OBVIOUS
  <2>2. /\ v \in Seq(Calls) /\ Len(v) = Len(w) - 1
        /\ \A k \in 1..Len(v) : v[k] = IF k < p THEN w[k] ELSE w[k + 1]
    <3>1. p \in 1..Len(w)
      OBVIOUS
    <3>2. w \in Seq(Calls)
      BY <1>1
    <3> HIDE DEF w
    <3> QED BY <2>1, <3>1, <3>2, RemoveFacts
  <2> QED BY <2>1, <2>2
<1>6. waiting'[e] = v /\ \A f \in Engines : f # e => waiting'[f] = waiting[f]
  BY <1>1, <1>4, <1>5 DEF MutexInv, MutexTypes
<1>7. \A f \in Engines : f # e => \A d, i : Queued(d, f, i)' <=> Queued(d, f, i)
  BY <1>6 DEF Queued
<1>8. Queued(c, e, p) /\ \A j \in Nat : Queued(c, e, j) => j = p
  <2>1. Queued(c, e, p) /\ p \in Nat
    BY <1>1, <1>4 DEF Queued
  <2> QED BY <1>1, <2>1 DEF MutexInv, QueueInv
<1>9. \A f \in Engines : holder[f] # c
  <2>1. e \in Engines /\ holder[e] # c
    BY <1>1 DEF Cancel
  <2>2. "none" \notin Calls
    BY EnginesAssumption
  <2> QED BY <2>1, <2>2 DEF MutexInv, HeldInv, Held
<1>10. \A i \in Nat : /\ i < p => \A d : Queued(d, e, i)' <=> Queued(d, e, i)
                      /\ i >= p => \A d : Queued(d, e, i)' <=> Queued(d, e, i + 1)
  <2> SUFFICES ASSUME NEW i \in Nat
               PROVE  /\ i < p => \A d : Queued(d, e, i)' <=> Queued(d, e, i)
                      /\ i >= p => \A d : Queued(d, e, i)' <=> Queued(d, e, i + 1)
    OBVIOUS
  <2>1. CASE i < p
    <3>1. i \in 1..Len(v) <=> i \in 1..Len(w)
      BY <1>1, <1>5, <2>1
    <3>2. i \in 1..Len(v) => v[i] = w[i]
      BY <1>5, <2>1
    <3> QED BY <1>6, <2>1, <3>1, <3>2 DEF Queued
  <2>2. CASE i >= p
    <3>1. i \in 1..Len(v) <=> i + 1 \in 1..Len(w)
      BY <1>1, <1>5, <2>2
    <3>2. i \in 1..Len(v) => v[i] = w[i + 1]
      BY <1>5, <2>2
    <3> QED BY <1>6, <2>2, <3>1, <3>2 DEF Queued
  <2> QED BY <2>1, <2>2
<1>11. MutexTypes'
  BY <1>1, <1>3, <1>4, <1>5 DEF MutexInv, MutexTypes
<1>12. HeldInv'
  <2> SUFFICES ASSUME NEW f \in Engines PROVE Held(f)'
    BY DEF HeldInv
  <2>1. holder[f] # "none" => holder[f] \in Calls /\ EngineOf(holder[f]) = f /\ AtWork(holder[f])'
    <3> SUFFICES ASSUME holder[f] # "none"
                 PROVE  holder[f] \in Calls /\ EngineOf(holder[f]) = f /\ AtWork(holder[f])'
      OBVIOUS
    <3>1. holder[f] \in Calls /\ EngineOf(holder[f]) = f /\ AtWork(holder[f])
      BY DEF MutexInv, HeldInv, Held
    <3>2. PICK h \in Calls : h = holder[f] /\ AtWork(h) /\ h # c
      BY <1>9, <3>1
    <3>3. pc'[h] = pc[h] /\ holder'[f] = h
      BY <1>2, <1>3, <3>2
    <3>4. AtWork(h)'
      BY <3>2, <3>3 DEF AtWork
    <3> QED BY <1>3, <3>1, <3>3, <3>4
  <2>2. waiting'[f] # <<>> => waiting[f] # <<>>
    <3>1. CASE f = e
      <4>1. Len(w) # 0
        BY <1>1, <1>4
      <4> QED BY <1>1, <3>1, <4>1, EmptySeq
    <3>2. CASE f # e
      BY <1>6, <3>2
    <3> QED BY <3>1, <3>2
  <2> QED BY <1>3, <2>1, <2>2 DEF MutexInv, HeldInv, Held
<1>13. QueueInv'
  <2>1. ASSUME NEW f \in Engines, NEW d \in Calls, NEW i \in Nat, Queued(d, f, i)'
        PROVE  /\ EngineOf(d) = f /\ pc'[d] = "wait" /\ holder'[f] # d
               /\ \A j \in Nat : Queued(d, f, j)' => i = j
    <3>1. CASE f # e
      <4>1. /\ EngineOf(d) = f /\ pc[d] = "wait" /\ holder[f] # d
            /\ \A j \in Nat : Queued(d, f, j) => i = j
        BY <1>7, <2>1, <3>1 DEF MutexInv, QueueInv
      <4> QED BY <1>2, <1>3, <1>7, <3>1, <4>1
    <3>2. CASE f = e
      <4>1. PICK k \in Nat : /\ Queued(d, e, k) /\ k # p
                             /\ k = IF i < p THEN i ELSE i + 1
        <5>1. CASE i < p
          BY <1>1, <1>10, <2>1, <3>2, <5>1
        <5>2. CASE ~(i < p)
          <6>1. i + 1 \in Nat /\ i >= p /\ i + 1 # p
            BY <1>1, <5>2
          <6> QED BY <1>10, <2>1, <3>2, <5>2, <6>1
        <5> QED BY <5>1, <5>2
      <4>2. /\ EngineOf(d) = e /\ pc[d] = "wait" /\ holder[e] # d
            /\ \A j \in Nat : Queued(d, e, j) => k = j
        BY <1>1, <4>1 DEF MutexInv, QueueInv
      <4>3. d # c
        BY <1>8, <4>1
      <4>4. ASSUME NEW j \in Nat, Queued(d, e, j)' PROVE i = j
        <5>1. CASE j < p
          <6>1. k = j
            BY <1>10, <4>2, <4>4, <5>1
          <6> QED BY <1>1, <4>1, <5>1, <6>1
        <5>2. CASE ~(j < p)
          <6>1. j >= p /\ j + 1 \in Nat
            BY <1>1, <5>2
          <6>2. k = j + 1
            BY <1>10, <4>2, <4>4, <6>1
          <6> QED BY <1>1, <4>1, <5>2, <6>2
        <5> QED BY <5>1, <5>2
      <4> QED BY <1>2, <1>3, <3>2, <4>2, <4>3, <4>4
    <3> QED BY <3>1, <3>2
  <2>2. ASSUME NEW d \in Calls, pc'[d] = "wait"
        PROVE  holder'[EngineOf(d)] = d \/ \E i \in Nat : Queued(d, EngineOf(d), i)'
    <3>1. d # c /\ pc[d] = "wait"
      BY <1>2, <2>2
    <3>2. holder[EngineOf(d)] = d \/ \E i \in Nat : Queued(d, EngineOf(d), i)
      BY <3>1 DEF MutexInv, QueueInv
    <3>3. CASE holder[EngineOf(d)] = d
      BY <1>3, <3>3
    <3>4. CASE EngineOf(d) # e
      BY <1>3, <1>7, <3>2, <3>4, EngineOfType
    <3>5. ASSUME EngineOf(d) = e, NEW i \in Nat, Queued(d, e, i)
          PROVE  \E j \in Nat : Queued(d, e, j)'
      <4>1. i # p /\ p \in Nat
        BY <1>4, <3>1, <3>5 DEF Queued
      <4>2. CASE i < p
        BY <1>10, <3>5, <4>2
      <4>3. CASE ~(i < p)
        <5>1. PICK j \in Nat : j >= p /\ i = j + 1
          <6>1. i - 1 \in Nat /\ i - 1 >= p /\ i = (i - 1) + 1
            BY <4>1, <4>3
          <6> QED BY <6>1
        <5> QED BY <1>10, <3>5, <5>1
      <4> QED BY <4>2, <4>3
    <3> QED BY <3>2, <3>3, <3>4, <3>5
  <2> QED BY <2>1, <2>2 DEF QueueInv
<1> QED BY <1>11, <1>12, <1>13 DEF MutexInv

(* A request that holds its mutex goes on with it or gives it up.            *)
Goes(c, q) ==
  /\ holder[EngineOf(c)] = c /\ q \in Labels \ {"wait", "enter"} /\ To(c, q)
  /\ Unlock(c) \/ (UNCHANGED lock /\ (q \in Staging \/ (c \in WhisperCalls /\ q = "run")))

LEMMA MutexServed ==
  ASSUME Types, MutexInv, NEW c \in Calls, NEW q, Goes(c, q)
  PROVE  MutexInv'
<1>1. q \in Labels /\ q # "wait" /\ pc' = [pc EXCEPT ![c] = q] /\ pc \in [Calls -> Labels]
      /\ holder[EngineOf(c)] = c
  BY DEF Goes, To, Types
<1>2. pc'[c] = q /\ \A d \in Calls : d # c => pc'[d] = pc[d]
  BY <1>1
<1>3. CASE Unlock(c)
  BY <1>1, <1>2, <1>3, Released
<1>4. CASE UNCHANGED lock /\ (q \in Staging \/ (c \in WhisperCalls /\ q = "run"))
  <2>1. AtWork(c)'
    BY <1>2, <1>4 DEF AtWork
  <2>2. \A d \in Calls : /\ (pc'[d] = "wait") => (pc[d] = "wait")
                         /\ pc[d] = "wait" => pc'[d] = "wait" \/ holder[EngineOf(d)] = d
                         /\ holder[EngineOf(d)] = d /\ AtWork(d) => AtWork(d)'
    <3> SUFFICES ASSUME NEW d \in Calls
                 PROVE  /\ (pc'[d] = "wait") => (pc[d] = "wait")
                        /\ pc[d] = "wait" => pc'[d] = "wait" \/ holder[EngineOf(d)] = d
                        /\ holder[EngineOf(d)] = d /\ AtWork(d) => AtWork(d)'
      OBVIOUS
    <3>1. CASE d = c
      BY <1>1, <1>2, <2>1, <3>1
    <3>2. CASE d # c
      BY <1>2, <3>2 DEF AtWork
    <3> QED BY <3>1, <3>2
  <2> QED BY <1>4, <2>2, MutexKept
<1> QED BY <1>3, <1>4 DEF Goes

LEMMA MutexStep == ASSUME IInv, MutexInv, [Next]_vars PROVE MutexInv'
<1> USE EngineOfType
<1>0. Types
  BY DEF IInv
<1>1. ASSUME UNCHANGED lock, UNCHANGED pc PROVE MutexInv'
  <2>1. \A c \in Calls : AtWork(c) => AtWork(c)'
    BY <1>1 DEF AtWork
  <2> QED BY <1>0, <1>1, <2>1, MutexKept
<1>2. ASSUME NEW c \in Calls, Request(c) PROVE MutexInv'
  BY <1>0, <1>2, MutexRequested
<1>3. ASSUME NEW c \in Calls, Cancel(c) PROVE MutexInv'
  <2>1. CASE holder[EngineOf(c)] = c
    <3>1. Unlock(c) /\ pc' = [pc EXCEPT ![c] = "idle"] /\ pc \in [Calls -> Labels]
      BY <1>0, <1>3, <2>1 DEF Cancel, To, Types
    <3>2. pc'[c] = "idle"
      BY <3>1
    <3> QED BY <2>1, <3>1, <3>2, Released
  <2>2. CASE holder[EngineOf(c)] # c
    BY <1>0, <1>3, <2>2, MutexCancelled
  <2> QED BY <2>1, <2>2
<1>4. ASSUME NEW c \in Calls, \E q : Goes(c, q) PROVE MutexInv'
  BY <1>0, <1>4, MutexServed
<1>5. ASSUME NEW c \in Calls, Fail(c), holder[EngineOf(c)] = c PROVE Goes(c, "idle")
  BY <1>5 DEF Fail, Return, Goes, Labels
<1>6. ASSUME NEW c \in Calls, Loaded(c), holder[EngineOf(c)] = c PROVE Goes(c, "run")
  BY <1>6 DEF Loaded, Goes, Labels, Calls
<1>7. ASSUME NEW c \in Calls, NEW q \in Staging, To(c, q), UNCHANGED lock,
             holder[EngineOf(c)] = c
      PROVE  Goes(c, q)
  BY <1>7 DEF Goes, Labels, Staging
<1>8. ASSUME NEW c \in Calls, Check(c) PROVE MutexInv'
  <2>1. holder[EngineOf(c)] = c
    BY <1>8 DEF Check, At
  <2>2. CASE loaded[EngineOf(c)] /\ To(c, "run") /\ IF EngineOf(c) = "llm" THEN Unlock(c) ELSE UNCHANGED lock
    <3>1. Goes(c, "run")
      BY <2>1, <2>2 DEF Goes, Labels, EngineOf, Calls
    <3> QED BY <1>4, <3>1
  <2>3. CASE Return(c, "null") /\ Unlock(c)
    <3>1. Goes(c, "idle")
      BY <2>1, <2>3 DEF Goes, Labels, Return
    <3> QED BY <1>4, <3>1
  <2>4. CASE /\ To(c, IF Valid(EngineOf(c)) THEN "load" ELSE IF EngineOf(c) = "whisper" THEN "sweep" ELSE "open")
             /\ UNCHANGED <<lock, answer>>
    <3>1. \E q \in Staging : To(c, q)
      BY <2>4 DEF Staging
    <3> QED BY <1>4, <1>7, <2>1, <2>4, <3>1
  <2> QED BY <1>8, <2>2, <2>3, <2>4 DEF Check
<1>9. ASSUME NEW c \in Calls, Sweep(c) PROVE MutexInv'
  <2>1. CASE UNCHANGED pc
    BY <1>1, <1>9, <2>1 DEF Sweep
  <2>2. CASE To(c, "open")
    BY <1>4, <1>7, <1>9, <2>2 DEF Sweep, At, Staging
  <2> QED BY <1>9, <2>1, <2>2 DEF Sweep
<1>10. ASSUME NEW c \in Calls, Open(c) PROVE MutexInv'
  BY <1>4, <1>5, <1>7, <1>10 DEF Open, At, Staging
<1>11. ASSUME NEW c \in Calls, Copy(c) PROVE MutexInv'
  BY <1>1, <1>11 DEF Copy
<1>12. ASSUME NEW c \in Calls, CopyFails(c) PROVE MutexInv'
  BY <1>4, <1>5, <1>12 DEF CopyFails, At
<1>13. ASSUME NEW c \in Calls, Measure(c) PROVE MutexInv'
  BY <1>4, <1>5, <1>7, <1>13 DEF Measure, At, Staging
<1>14. ASSUME NEW c \in Calls, Rename(c) PROVE MutexInv'
  BY <1>4, <1>7, <1>14 DEF Rename, At, Staging
<1>15. ASSUME NEW c \in Calls, Load(c) PROVE MutexInv'
  BY <1>4, <1>5, <1>6, <1>15 DEF Load, At
<1>16. ASSUME NEW c \in Calls, LoadGpu(c) PROVE MutexInv'
  BY <1>4, <1>6, <1>7, <1>16 DEF LoadGpu, At, Staging
<1>17. ASSUME NEW c \in Calls, Infer(c) PROVE MutexInv'
  <2>1. To(c, "idle") /\ pc[c] = "run"
    BY <1>17 DEF Infer, Return
  <2>2. CASE c \in WhisperCalls
    <3>1. holder[EngineOf(c)] = c
      BY <2>1, <2>2 DEF IInv, LockInv
    <3>2. Goes(c, "idle")
      BY <1>17, <2>1, <2>2, <3>1 DEF Infer, Goes, Labels
    <3> QED BY <1>4, <3>2
  <2>3. CASE c \notin WhisperCalls
    <3>1. ~AtWork(c) /\ UNCHANGED lock
      BY <1>17, <2>1, <2>3 DEF Infer, AtWork, Staging
    <3>2. \A d \in Calls : pc'[d] = pc[d] \/ d = c
      BY <1>0, <2>1 DEF To, Types
    <3>3. pc'[c] = "idle"
      BY <1>0, <2>1 DEF To, Types
    <3>4. \A d \in Calls : AtWork(d) => AtWork(d)'
      BY <3>1, <3>2 DEF AtWork
    <3> QED BY <1>0, <2>1, <3>1, <3>2, <3>3, <3>4, MutexKept
  <2> QED BY <2>2, <2>3
<1>18. CASE PollReads \/ PollPublishes
  BY <1>1, <1>18 DEF PollReads, PollPublishes
<1>19. CASE Die
  <2>1. /\ \A c \in Calls : pc'[c] = "idle"
        /\ \A e \in Engines : holder'[e] = "none" /\ waiting'[e] = <<>>
        /\ \A e \in Engines : \A d, i : ~Queued(d, e, i)'
    BY <1>19 DEF Die, Queued
  <2>2. MutexTypes'
    BY <1>19 DEF Die, MutexTypes
  <2> QED BY <2>1, <2>2 DEF MutexInv, HeldInv, Held, QueueInv
<1>20. CASE UNCHANGED vars
  BY <1>1, <1>20 DEF vars
<1> QED
  BY <1>2, <1>3, <1>8, <1>9, <1>10, <1>11, <1>12, <1>13, <1>14, <1>15, <1>16, <1>17, <1>18,
     <1>19, <1>20 DEF Next, Serve

(* The mutexes of WhisperTranscriber and OnDeviceAiClient are never lost:    *)
(* one is held by a request of its engine that is at work, or it is free and *)
(* nobody waits for it; and a request that waits is queued for it once, in   *)
(* whatever order requests come, fail, are cancelled or die.                 *)
THEOREM MutexIsNeverLost == Spec => []MutexInv
<1>1. Init => MutexInv
  <2> SUFFICES ASSUME Init PROVE MutexInv
    OBVIOUS
  <2>1. \A e \in Engines : \A d, i : ~Queued(d, e, i)
    BY DEF Init, Queued
  <2>2. MutexTypes
    BY DEF Init, MutexTypes
  <2> QED BY <2>1, <2>2 DEF Init, MutexInv, HeldInv, Held, QueueInv
<1>2. IInv /\ MutexInv /\ [Next]_vars => MutexInv'
  BY MutexStep
<1> QED BY Inductive, <1>1, <1>2, PTL DEF Spec

RestTypes ==
  /\ room \in Rooms /\ state \in {"LOADING", "READY", "UNAVAILABLE"}
  /\ available \in BOOLEAN /\ polled \in {"none", "on", "off"}
  /\ faults \in 0..MaxFaults /\ hurt \subseteq Calls \cup Engines

LEMMA RestStep == ASSUME RestTypes, [Next]_vars PROVE RestTypes'
<1> USE EngineOfType, EnginesAssumption
<1>0. /\ room' = room
      /\ state' \in {state, "LOADING", "READY", "UNAVAILABLE"}
      /\ polled' \in {polled, "none", "on", "off"}
  BY DEF Next, Serve, vars, disk, poll, Request, Cancel, Check, Sweep, Open, Copy, CopyFails,
         Measure, Rename, Load, LoadGpu, Infer, PollReads, PollPublishes, Die, Fail, Loaded
<1>1. available' \in BOOLEAN
  BY Zenon DEF RestTypes, Next, Serve, vars, poll, Request, Cancel, Check, Sweep, Open, Copy, CopyFails,
         Measure, Rename, Load, LoadGpu, Infer, PollReads, PollPublishes, Die
<1>2. faults' = faults \/ Fault
  BY DEF Next, Serve, vars, Request, Cancel, Check, Sweep, Open, Copy, CopyFails,
         Measure, Rename, Load, LoadGpu, Infer, PollReads, PollPublishes, Die, NoFault
<1>3. hurt' \subseteq hurt \/ \E c \in Calls : Hurt(c)
  BY DEF Next, Serve, vars, Request, Cancel, Check, Sweep, Open, Copy, CopyFails,
         Measure, Rename, Load, LoadGpu, Infer, PollReads, PollPublishes, Die, NoFault
<1>4. faults' \in 0..MaxFaults
  BY <1>2 DEF Fault, RestTypes
<1>5. hurt' \subseteq Calls \cup Engines
  BY <1>3 DEF Hurt, RestTypes
<1> QED BY <1>0, <1>1, <1>4, <1>5 DEF RestTypes

(* The disk, the mutexes with their queues and the requests keep their       *)
(* types: in particular nobody is queued twice, or for another engine.       *)
THEOREM TypeCorrect == Spec => []TypeOK
<1>1. Init => RestTypes
  <2> SUFFICES ASSUME Init PROVE RestTypes
    OBVIOUS
  <2>1. available \in BOOLEAN
    BY Zenon DEF Init
  <2> QED BY <2>1, EnginesAssumption DEF Init, RestTypes
<1>2. RestTypes /\ [Next]_vars => RestTypes'
  BY RestStep
<1>3. IInv /\ MutexInv /\ RestTypes => TypeOK
  <2> SUFFICES ASSUME IInv, MutexInv, RestTypes PROVE TypeOK
    OBVIOUS
  <2>1. ASSUME NEW e \in Engines PROVE IsInjective(waiting[e])
    <3>1. waiting[e] \in Seq(Calls) /\ DOMAIN waiting[e] = 1..Len(waiting[e]) /\ Len(waiting[e]) \in Nat
      BY LenProperties DEF MutexInv, MutexTypes
    <3>2. ASSUME NEW i \in 1..Len(waiting[e]), NEW j \in 1..Len(waiting[e]), waiting[e][i] = waiting[e][j]
          PROVE  i = j
      <4>1. PICK c \in Calls : c = waiting[e][i]
        BY <3>1, ElementOfSeq
      <4>2. Queued(c, e, i) /\ Queued(c, e, j) /\ i \in Nat /\ j \in Nat
        BY <3>1, <3>2, <4>1 DEF Queued
      <4> QED BY <4>2 DEF MutexInv, QueueInv
    <3> QED BY <3>1, <3>2 DEF IsInjective
  <2>2. ASSUME NEW e \in Engines, NEW c \in Calls, Contains(waiting[e], c) PROVE EngineOf(c) = e
    <3>1. Len(waiting[e]) \in Nat
      BY LenProperties DEF MutexInv, MutexTypes
    <3>2. PICK i \in 1..Len(waiting[e]) : waiting[e][i] = c
      BY <2>2 DEF Contains
    <3>3. Queued(c, e, i) /\ i \in Nat
      BY <3>1, <3>2 DEF Queued
    <3> QED BY <3>3 DEF MutexInv, QueueInv
  <2>3. {Absent, MinValid, Size} \subseteq Length
    BY Lengths
  <2> QED
    BY <2>1, <2>2, <2>3 DEF TypeOK, IInv, Types, MutexInv, MutexTypes, RestTypes, Labels, Staging
<1> QED BY Inductive, MutexIsNeverLost, <1>1, <1>2, <1>3, PTL DEF Spec
=============================================================================
