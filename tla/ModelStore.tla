----------------------------- MODULE ModelStore -----------------------------
(***************************************************************************)
(* What staging the bundled models promises: a model file is absent or     *)
(* whole and, once there, stays; an engine is loaded from a whole file     *)
(* only; the death of the process costs the loaded engines and no file.    *)
(***************************************************************************)
CONSTANTS Engines,   \* the engines, each with a model of its own
          Absent,    \* "no file"
          Whole      \* a complete copy of a model

VARIABLES file,      \* each engine's model file
          loaded     \* is the engine loaded?

vars == <<file, loaded>>

Init == /\ file \in [Engines -> {Absent, Whole}]
        /\ loaded = [e \in Engines |-> FALSE]

Stage(e) == /\ file[e] = Absent
            /\ file' = [file EXCEPT ![e] = Whole]
            /\ UNCHANGED loaded

Load(e) == /\ file[e] = Whole /\ ~loaded[e]
           /\ loaded' = [loaded EXCEPT ![e] = TRUE]
           /\ UNCHANGED file

Die == /\ loaded' = [e \in Engines |-> FALSE]
       /\ UNCHANGED file

Next == Die \/ \E e \in Engines : Stage(e) \/ Load(e)

Spec == Init /\ [][Next]_vars
=============================================================================
