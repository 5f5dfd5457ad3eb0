----------------------------- MODULE ThreadPool -----------------------------
(***************************************************************************)
(* The thread pool that evaluates ggml graphs on the CPU, as the app       *)
(* builds it (app/src/main/cpp, GGML_OPENMP off): every encoder and every  *)
(* decoder step of whisper is one ggml_graph_compute.  The calling thread  *)
(* is thread 0; it publishes a graph, wakes the workers, computes with     *)
(* them, and either keeps the pool or frees it.  Workers poll, sleep on    *)
(* the condition variable, or sit in the pause loop.                       *)
(*                                                                         *)
(* What a mutex protects is one step; the atomics are one step per access; *)
(* local computation between them is folded into the step before.          *)
(***************************************************************************)
EXTENDS Integers, Sequences, FiniteSets

CONSTANTS N,            \* n_threads of the pool
          Graph,        \* the nodes: a sequence of [op, chunks]
          MaxGraphs     \* bound on the graphs the pool computes

ASSUME PoolAssumption ==
  /\ N \in Nat \ {0}
  /\ MaxGraphs \in Nat
  /\ Graph \in Seq([op : {"mul_mat", "plain", "nop"}, chunks : Nat])

VARIABLES
  stop, pause, nGraph, abort, currentChunk, nBarrier, nPassed, ec,  \* ggml_threadpool
  wdata,        \* cplan->work_data: which node the slice of each thread belongs to
  pc,           \* where each thread is
  last,         \* last_graph of each worker
  node, nth, chunk,   \* locals of ggml_graph_compute_thread and mul_mat
  passed, at,         \* locals of ggml_barrier: its snapshot, and who called it
  done          \* history: the parts of the graph computed so far

poolVars  == <<stop, pause, nGraph>>
graphVars == <<abort, currentChunk, ec>>
barVars   == <<nBarrier, nPassed, passed, at>>
workVars  == <<node, nth, chunk, wdata, done>>
vars == <<poolVars, graphVars, barVars, workVars, pc, last>>

Threads == 0..(N - 1)
Workers == Threads \ {0}
Nodes   == DOMAIN Graph

\* The number of parts mul_mat splits a node into: too few chunks for n
\* threads are replaced by one per thread; every other op has one per thread.
NumChunks(k, n) ==
  IF Graph[k].op = "mul_mat" /\ Graph[k].chunks >= 4 * n THEN Graph[k].chunks ELSE n

PartsOf(k, n) == IF Graph[k].op = "nop" THEN {} ELSE 0..(NumChunks(k, n) - 1)

Go(t, l) == pc' = [pc EXCEPT ![t] = l]

\* ggml_cond_broadcast: every sleeper looks again.
Woken == [t \in Threads |-> CASE pc[t] = "asleep" -> "lock"
                              [] pc[t] = "doze"   -> "top"
                              [] OTHER            -> pc[t]]

Init == /\ stop = FALSE /\ pause \in BOOLEAN
        /\ nGraph = [count |-> 0, n |-> 0]
        /\ abort = 0 /\ currentChunk = 0 /\ ec = "success"
        /\ nBarrier = 0 /\ nPassed = 0
        /\ wdata = [t \in Threads |-> 0]
        /\ pc = [t \in Threads |-> IF t = 0 THEN "idle" ELSE "top"]
        /\ last = [t \in Threads |-> nGraph]
        /\ node = [t \in Threads |-> 1]
        /\ nth = [t \in Threads |-> 0]
        /\ chunk = [t \in Threads |-> 0]
        /\ passed = [t \in Threads |-> 0]
        /\ at = [t \in Threads |-> "final"]
        /\ done = {}

-----------------------------------------------------------------------------
(* The calling thread.                                                     *)

\* ggml_graph_compute resets the fields the workers read, outside the mutex.
Prepare == /\ pc[0] = "idle"
           /\ nGraph.count < MaxGraphs
           /\ currentChunk' = 0
           /\ abort' = 0
           /\ ec' = "success"
           /\ Go(0, "prepared")
           /\ UNCHANGED <<poolVars, barVars, workVars, last>>

\* Mutant: only workers that poll notice the new graph.
KickoffQuietly == /\ pc[0] = "prepared"
                  /\ \E n \in 1..N : nGraph' = [count |-> nGraph.count + 1, n |-> n]
                  /\ pause' = FALSE
                  /\ Go(0, "start")
                  /\ done' = {}
                  /\ UNCHANGED <<stop, graphVars, barVars, node, nth, chunk, wdata, last>>

\* ggml_graph_compute_kickoff, and the caller's own entry into the graph.
Kickoff == /\ pc[0] = "prepared"
           /\ \E n \in 1..N : nGraph' = [count |-> nGraph.count + 1, n |-> n]
           /\ pause' = FALSE
           /\ pc' = [Woken EXCEPT ![0] = "start"]
           /\ done' = {}
           /\ UNCHANGED <<stop, graphVars, barVars, node, nth, chunk, wdata, last>>

PausePool == /\ pc[0] = "idle" /\ ~pause
             /\ pause' = TRUE
             /\ pc' = Woken
             /\ UNCHANGED <<stop, nGraph, graphVars, barVars, workVars, last>>

ResumePool == /\ pc[0] = "idle" /\ pause
              /\ pause' = FALSE
              /\ pc' = Woken
              /\ UNCHANGED <<stop, nGraph, graphVars, barVars, workVars, last>>

\* ggml_threadpool_free: raise stop under the mutex, then join every worker.
Free == /\ pc[0] = "idle"
        /\ stop' = TRUE
        /\ pause' = FALSE
        /\ pc' = [Woken EXCEPT ![0] = "join"]
        /\ UNCHANGED <<nGraph, graphVars, barVars, workVars, last>>

Join == /\ pc[0] = "join"
        /\ \A w \in Workers : pc[w] = "exited"
        /\ Go(0, "freed")
        /\ UNCHANGED <<poolVars, graphVars, barVars, workVars, last>>

-----------------------------------------------------------------------------
(* A worker waiting for a graph.                                           *)

\* The head of ggml_graph_compute_secondary_thread's loop.
Top(w) == /\ pc[w] = "top"
          /\ Go(w, CASE pause -> "doze" [] stop -> "exited" [] OTHER -> "poll")
          /\ UNCHANGED <<poolVars, graphVars, barVars, workVars, last>>

\* Mutant: every worker takes part, however many threads the graph asked for.
SeeAnyGraph(w, otherwise) ==
  /\ ~stop /\ ~pause
  /\ nGraph # last[w]
  /\ last' = [last EXCEPT ![w] = nGraph]
  /\ Go(w, "start")

\* ggml_graph_compute_thread_ready found a new graph: the worker takes part
\* when its number is below the graph's thread count.
SeeGraph(w, otherwise) ==
  /\ ~stop /\ ~pause
  /\ nGraph # last[w]
  /\ last' = [last EXCEPT ![w] = nGraph]
  /\ Go(w, IF w < nGraph.n THEN "start" ELSE otherwise)

\* ggml_graph_compute_poll_for_work, without the mutex; the number of rounds
\* is bounded, so the poll may also end with nothing seen.
Poll(w) == /\ pc[w] = "poll"
           /\ \/ SeeGraph(w, "lock")
              \/ Go(w, "lock") /\ UNCHANGED last
           /\ UNCHANGED <<poolVars, graphVars, barVars, workVars>>

\* The wait loop of ggml_graph_compute_check_for_work, under the mutex.
Lock(w) == /\ pc[w] = "lock"
           /\ \/ SeeGraph(w, "top")
              \/ /\ stop \/ pause
                 /\ Go(w, "top") /\ UNCHANGED last
              \/ /\ ~stop /\ ~pause /\ nGraph = last[w]
                 /\ Go(w, "asleep") /\ UNCHANGED last
           /\ UNCHANGED <<poolVars, graphVars, barVars, workVars>>

\* pthread_cond_wait may return without a signal.
SpuriousWake(w) ==
  /\ \/ pc[w] = "asleep" /\ Go(w, "lock")
     \/ pc[w] = "doze" /\ Go(w, "top")
  /\ UNCHANGED <<poolVars, graphVars, barVars, workVars, last>>

-----------------------------------------------------------------------------
(* Computing a graph: ggml_graph_compute_thread.                           *)

Start(t) == /\ pc[t] = "start"
            /\ node' = [node EXCEPT ![t] = 1]
            /\ nth' = [nth EXCEPT ![t] = nGraph.n]
            /\ Go(t, "node")
            /\ UNCHANGED <<poolVars, graphVars, barVars, chunk, wdata, done, last>>

EnterBarrier(t, who) == at' = [at EXCEPT ![t] = who] /\ Go(t, "enter")

\* The head of the node loop.
NextNode(t) ==
  /\ pc[t] = "node"
  /\ IF node[t] \notin Nodes \/ abort = node[t]
       THEN EnterBarrier(t, "final") /\ UNCHANGED <<node, chunk>>
       ELSE /\ UNCHANGED at
            /\ \/ /\ Graph[node[t]].op = "nop"
                  /\ node' = [node EXCEPT ![t] = @ + 1]
                  /\ UNCHANGED <<pc, chunk>>
               \/ /\ Graph[node[t]].op = "plain"
                  /\ chunk' = [chunk EXCEPT ![t] = t]
                  /\ Go(t, "compute") /\ UNCHANGED node
               \/ /\ Graph[node[t]].op = "mul_mat"
                  /\ Go(t, "quantize") /\ UNCHANGED <<node, chunk>>
  /\ UNCHANGED <<poolVars, graphVars, nBarrier, nPassed, passed, nth, wdata, done, last>>

\* Mutant: the first chunk nobody owns is left where the last node put it.
QuantizeOnly(t) ==
  /\ pc[t] = "quantize"
  /\ wdata' = [wdata EXCEPT ![t] = node[t]]
  /\ EnterBarrier(t, "mid")
  /\ UNCHANGED <<poolVars, graphVars, nBarrier, nPassed, passed, node, nth, chunk, done, last>>

\* mul_mat: convert this thread's slice of src1 into the shared work buffer;
\* thread 0 puts the first chunk nobody owns at nth; then the barrier.
Quantize(t) ==
  /\ pc[t] = "quantize"
  /\ wdata' = [wdata EXCEPT ![t] = node[t]]
  /\ currentChunk' = IF t = 0 THEN nth[t] ELSE currentChunk
  /\ EnterBarrier(t, "mid")
  /\ UNCHANGED <<poolVars, abort, ec, nBarrier, nPassed, passed, node, nth, chunk, done, last>>

ComputeOrFinish(t, c) == Go(t, IF c < NumChunks(node[t], nth[t]) THEN "compute" ELSE "after")

\* A part is finished; mul_mat claims another one unless each thread has its own.
EndPart(t) ==
  /\ pc[t] = "compute"
  /\ done' = done \cup {<<node[t], chunk[t]>>}
  /\ Go(t, IF nth[t] >= NumChunks(node[t], nth[t]) THEN "after" ELSE "claim")
  /\ UNCHANGED <<poolVars, graphVars, barVars, node, nth, chunk, wdata, last>>

Claim(t) == /\ pc[t] = "claim"
            /\ chunk' = [chunk EXCEPT ![t] = currentChunk]
            /\ currentChunk' = currentChunk + 1
            /\ ComputeOrFinish(t, currentChunk)
            /\ UNCHANGED <<poolVars, abort, ec, barVars, node, nth, wdata, done, last>>

\* An abort stops the graph before the next node.
AbortAt(k) == k + 1

\* After a node: the caller may abort the graph; then the barrier between
\* nodes, or the one after the last.
AfterNode(t) ==
  /\ pc[t] = "after"
  /\ \/ UNCHANGED <<abort, ec>>
     \/ t = 0 /\ abort' = AbortAt(node[t]) /\ ec' = "aborted"
  /\ EnterBarrier(t, IF node[t] < Len(Graph) THEN "between" ELSE "final")
  /\ UNCHANGED <<poolVars, currentChunk, nBarrier, nPassed, passed, workVars, last>>

-----------------------------------------------------------------------------
(* ggml_barrier.                                                           *)

\* Where a thread goes on after the barrier it was in.
Leave(t) ==
  \/ /\ at[t] = "mid"
     /\ chunk' = [chunk EXCEPT ![t] = t]
     /\ ComputeOrFinish(t, t)
     /\ UNCHANGED node
  \/ /\ at[t] = "between"
     /\ node' = [node EXCEPT ![t] = @ + 1]
     /\ Go(t, "node")
     /\ UNCHANGED chunk
  \/ /\ at[t] = "final"
     /\ Go(t, IF t = 0 THEN "idle" ELSE "top")
     /\ UNCHANGED <<node, chunk>>

barrierRest == <<poolVars, graphVars, at, nth, wdata, done, last>>

\* A lone thread passes; otherwise the pass count is read first.
Enter(t) ==
  /\ pc[t] = "enter"
  /\ \/ nGraph.n = 1 /\ Leave(t) /\ UNCHANGED passed
     \/ /\ nGraph.n # 1
        /\ passed' = [passed EXCEPT ![t] = nPassed]
        /\ Go(t, "arrive") /\ UNCHANGED <<node, chunk>>
  /\ UNCHANGED <<barrierRest, nBarrier, nPassed>>

\* Mutant: the barrier opens when one thread is still missing.
ArriveEarly(t) ==
  /\ pc[t] = "arrive"
  /\ IF nBarrier + 2 >= nGraph.n
       THEN nBarrier' = 0 /\ Go(t, "release")
       ELSE nBarrier' = nBarrier + 1 /\ Go(t, "spin")
  /\ UNCHANGED <<barrierRest, nPassed, passed, node, chunk>>

\* The last thread to arrive resets the count before it lets the others go.
Arrive(t) ==
  /\ pc[t] = "arrive"
  /\ IF nBarrier = nGraph.n - 1
       THEN nBarrier' = 0 /\ Go(t, "release")
       ELSE nBarrier' = nBarrier + 1 /\ Go(t, "spin")
  /\ UNCHANGED <<barrierRest, nPassed, passed, node, chunk>>

Release(t) == /\ pc[t] = "release"
              /\ nPassed' = nPassed + 1
              /\ Leave(t)
              /\ UNCHANGED <<barrierRest, nBarrier, passed>>

Spin(t) == /\ pc[t] = "spin"
           /\ nPassed # passed[t]
           /\ Leave(t)
           /\ UNCHANGED <<barrierRest, nBarrier, nPassed, passed>>

-----------------------------------------------------------------------------
ComputeStep(t) == \/ Start(t) \/ NextNode(t) \/ Quantize(t) \/ EndPart(t)
                  \/ Claim(t) \/ AfterNode(t)
                  \/ Enter(t) \/ Arrive(t) \/ Release(t) \/ Spin(t)

WaitStep(w) == Top(w) \/ Poll(w) \/ Lock(w)

\* The process goes on without the pool.
Freed == pc[0] = "freed" /\ UNCHANGED vars

Next == \/ Prepare \/ Kickoff \/ PausePool \/ ResumePool \/ Free \/ Join
        \/ \E w \in Workers : WaitStep(w) \/ SpuriousWake(w)
        \/ \E t \in Threads : ComputeStep(t)
        \/ Freed

Spec == Init /\ [][Next]_vars

\* The scheduler runs every thread that can go on; whether the caller starts,
\* pauses or frees the pool is its own choice, but a call it began it ends.
Fairness == /\ WF_vars(Kickoff) /\ WF_vars(Join)
            /\ \A t \in Threads : WF_vars(ComputeStep(t))
            /\ \A w \in Workers : WF_vars(WaitStep(w))

FairSpec == Spec /\ Fairness

-----------------------------------------------------------------------------
(* Properties.                                                             *)

InGraph == {"start", "node", "quantize", "compute", "claim", "after",
            "enter", "arrive", "release", "spin"}
Waiting == {"top", "poll", "lock", "asleep", "doze", "exited"}

\* The pool's fields and the threads' locals have the types of the source.
TypeOK ==
  /\ stop \in BOOLEAN /\ pause \in BOOLEAN
  /\ nGraph \in [count : Nat, n : 0..N]
  /\ last \in [Threads -> [count : Nat, n : 0..N]]
  /\ abort \in 0..(Len(Graph) + 1) /\ currentChunk \in Nat
  /\ ec \in {"success", "aborted"}
  /\ nBarrier \in Nat /\ nPassed \in Nat
  /\ pc \in [Threads -> InGraph \cup Waiting \cup {"idle", "prepared", "join", "freed"}]
  /\ node \in [Threads -> 1..(Len(Graph) + 1)]
  /\ nth \in [Threads -> 0..N] /\ chunk \in [Threads -> Nat]
  /\ passed \in [Threads -> Nat] /\ at \in [Threads -> {"mid", "between", "final"}]
  /\ wdata \in [Threads -> 0..Len(Graph)]
  /\ done \subseteq (Nat \X Nat)

\* While a thread multiplies, the work buffer holds the whole converted src1 of
\* its node: no slice is missing and nobody is already converting the next
\* node's input over it (the two barriers around the multiplication).
WorkBufferIsWhole ==
  \A t \in Threads :
    pc[t] \in {"compute", "claim"} /\ Graph[node[t]].op = "mul_mat" =>
      /\ \A i \in 0..(nth[t] - 1) : wdata[i] = node[t]
      /\ \A u \in Threads : pc[u] # "quantize"

\* "No worker threads should be accessing the parameters below at this stage"
\* (ggml-cpu.c:3411): when the caller is outside a graph, a worker is either
\* waiting for work or on its way out of the last barrier, released already.
CallerOwnsParameters ==
  pc[0] \notin InGraph =>
    \A w \in Workers : \/ pc[w] \in Waiting
                       \/ pc[w] \in {"spin", "release"} /\ at[w] = "final"

\* The pool evaluates a graph as a single thread would, part by part.
Eval == INSTANCE GraphEval WITH
          MaxWidth <- N,
          NoPart  <- <<>>,
          running <- pc[0] \in InGraph,
          width   <- nGraph.n,
          doing   <- [t \in Threads |-> IF pc[t] = "compute"
                                          THEN <<node[t], chunk[t]>> ELSE <<>>],
          status  <- IF pc[0] \in InGraph THEN ec ELSE "none"

EvaluatesGraphs == Eval!Spec

\* A graph that was published is computed and the call returns; and freeing the
\* pool ends: every worker, also a paused or a sleeping one, sees stop and exits.
CallReturns == /\ (pc[0] = "prepared") ~> (pc[0] = "idle")
               /\ (pc[0] = "join") ~> (pc[0] = "freed")
=============================================================================
