----------------------------- MODULE GraphEval -----------------------------
(***************************************************************************)
(* What ggml_graph_compute promises its caller: the nodes of a graph are   *)
(* evaluated one after the other, a node is split into parts that the      *)
(* threads take in any order and each part is computed once, by one        *)
(* thread, and the call returns with success only when every node is       *)
(* computed.  An aborted call has computed a whole prefix of the nodes.    *)
(***************************************************************************)
EXTENDS Integers

CONSTANTS Threads,            \* the threads that may take part in a call
          MaxWidth,           \* how many of them at most
          Nodes,              \* the nodes of a graph, numbered in order
          PartsOf(_, _),      \* the parts of node k when n threads work on it
          NoPart              \* the "part" of a thread that computes nothing

VARIABLES running,            \* a call is in progress
          width,              \* the number of threads it runs on
          doing,              \* the part each thread is computing
          done,               \* the parts computed by this call
          status              \* of the call: "success" or "aborted"; "none" outside

vars == <<running, width, doing, done, status>>

Parts == UNION {{<<k, c>> : c \in PartsOf(k, width)} : k \in Nodes}

PartsBefore(k) == {p \in Parts : p[1] < k}

Idle == \A t \in Threads : doing[t] = NoPart

Init == /\ running = FALSE
        /\ width = 0
        /\ doing = [t \in Threads |-> NoPart]
        /\ done = {}
        /\ status = "none"

Call == /\ ~running
        /\ running' = TRUE
        /\ width' \in 1..MaxWidth
        /\ done' = {}
        /\ status' = "success"
        /\ UNCHANGED doing

Begin(t) == /\ running
            /\ doing[t] = NoPart
            /\ \E p \in Parts \ done :
                  /\ \A u \in Threads : doing[u] # p
                  /\ PartsBefore(p[1]) \subseteq done
                  /\ doing' = [doing EXCEPT ![t] = p]
            /\ UNCHANGED <<running, width, done, status>>

End(t) == /\ doing[t] # NoPart
          /\ done' = done \cup {doing[t]}
          /\ doing' = [doing EXCEPT ![t] = NoPart]
          /\ UNCHANGED <<running, width, status>>

Abort == /\ running
         /\ status' = "aborted"
         /\ UNCHANGED <<running, width, doing, done>>

Return == /\ running
          /\ Idle
          /\ \/ done = Parts
             \/ status = "aborted" /\ \E k \in Nodes : done = PartsBefore(k)
          /\ running' = FALSE
          /\ status' = "none"
          /\ UNCHANGED <<width, doing, done>>

Next == \/ Call
        \/ \E t \in Threads : Begin(t) \/ End(t)
        \/ Abort
        \/ Return

Spec == Init /\ [][Next]_vars
=============================================================================
