-------------------------- MODULE ThreadPool_proofs --------------------------
(***************************************************************************)
(* Proofs about ThreadPool for any number of threads, any graph and any    *)
(* number of graphs: the barrier keeps the threads of a graph in step, and *)
(* threads in step compute every part of every node once.                  *)
(***************************************************************************)
EXTENDS ThreadPool, FiniteSetTheorems, SequenceTheorems, TLAPS

\* The threads that take part in the current graph.
Team == 0..(nGraph.n - 1)

\* A thread that the barrier has let go, though it may not have noticed yet.
Released(t) == pc[t] = "spin" /\ passed[t] # nPassed
Arrived(t)  == pc[t] = "spin" /\ passed[t] = nPassed
Held(t, who) == /\ at[t] = who
                /\ pc[t] \in {"enter", "arrive", "release"} \/ Arrived(t)

\* The caller is in the graph until the last barrier has let it go.
InBody == pc[0] \in InGraph /\ ~(Released(0) /\ at[0] = "final")

\* A worker that has not begun the graph, or is done with it.
Outside(t) == pc[t] \in Waiting \/ (Released(t) /\ at[t] = "final")

Flags == stop \in BOOLEAN /\ pause \in BOOLEAN

Fields ==
  /\ nGraph \in [count : Nat, n : 0..N]
  /\ last \in [Threads -> [count : Nat, n : 0..N]]
  /\ abort \in 0..(Len(Graph) + 1) /\ currentChunk \in Nat
  /\ ec \in {"success", "aborted"}
  /\ nBarrier \in Nat /\ nPassed \in Nat
  /\ pc \in [Threads -> InGraph \cup Waiting \cup {"idle", "prepared", "join", "freed"}]
  /\ node \in [Threads -> 1..(Len(Graph) + 1)]
  /\ nth \in [Threads -> 0..N] /\ chunk \in [Threads -> Nat]
  /\ passed \in [Threads -> Nat] /\ at \in [Threads -> {"mid", "between", "final"}]
  /\ wdata \in [Threads -> 0..Len(Graph)]
  /\ done \subseteq (Nat \X Nat)

\* The types, and where the node counter may be.
Types ==
  /\ Fields
  /\ \A t \in Threads :
       /\ pc[t] \in {"quantize", "compute", "claim", "after"} => node[t] \in Nodes
       /\ pc[t] \in {"enter", "arrive", "spin", "release"} =>
            /\ at[t] = "mid" => node[t] \in Nodes
            /\ at[t] = "between" => node[t] < Len(Graph)

\* Workers are outside, or among the team in the graph, which they have seen.
TeamInv ==
  /\ pc[0] \notin Waiting
  /\ pc[0] \in InGraph => nGraph.n > 0
  /\ \A w \in Workers :
       /\ last[w].count <= nGraph.count
       /\ ~Outside(w) => /\ InBody /\ w \in Team
                         /\ pc[w] \in InGraph /\ last[w] = nGraph
       /\ w \in Team => (last[w] = nGraph <=> ~(InBody /\ Outside(w)))
  /\ \A t \in Threads : ~Outside(t) /\ pc[t] \in InGraph \ {"start"} => nth[t] = nGraph.n

\* The barrier counts the threads it holds, and lets nobody go before the last.
BarrierInv ==
  /\ \A t \in Threads :
       /\ pc[t] = "spin" => passed[t] <= nPassed
       /\ pc[t] = "arrive" => passed[t] = nPassed
       /\ pc[t] \in {"arrive", "release"} \/ Arrived(t) => nGraph.n > 1
       /\ pc[t] = "release" => /\ nBarrier = 0
                               /\ \A u \in Team \ {t} : Arrived(u)
  /\ (\A t \in Threads : pc[t] # "release") =>
       nBarrier = Cardinality({t \in Threads : Arrived(t)})

\* Nodes j to k - 1 are passed over.
Clear(j, k) == \A i \in j..(k - 1) : Graph[i].op = "nop" /\ abort # i

Running(k, o) == k \in Nodes /\ abort # k /\ Graph[k].op = o

\* The node whose head a thread is at, or will be once it notices.
Pos(t) == IF pc[t] = "node" THEN node[t]
          ELSE IF pc[t] = "spin" /\ at[t] = "between" THEN node[t] + 1 ELSE 1

AtHead(t) == Outside(t) \/ pc[t] \in {"start", "node"} \/ (Released(t) /\ at[t] = "between")

\* At work on node k, or held by the barrier after it.
Worked(t, k) == /\ node[t] = k
                /\ \/ pc[t] \in {"compute", "claim", "after"}
                   \/ Held(t, "between") /\ k < Len(Graph)
                   \/ Held(t, "final") /\ k = Len(Graph)

\* On the way to node k, or in the part of it that ends with its first barrier.
First(t, k) ==
  \/ AtHead(t) /\ Pos(t) <= k /\ Clear(Pos(t), k)
  \/ /\ Running(k, "mul_mat") /\ node[t] = k
     /\ \/ pc[t] = "quantize"
        \/ Held(t, "mid") /\ wdata[t] = k /\ (t = 0 => currentChunk = nGraph.n)
  \/ Running(k, "plain") /\ Worked(t, k)
  \/ (k \notin Nodes \/ abort = k) /\ Held(t, "final") /\ node[t] = k

\* Past the barrier within a multiplication.
Second(t, k) == Worked(t, k) \/ (Released(t) /\ at[t] = "mid" /\ node[t] = k)

FirstHalf(k)  == \A t \in Team : First(t, k)
SecondHalf(k) == /\ Running(k, "mul_mat")
                 /\ \A t \in Team : Second(t, k) /\ wdata[t] = k

\* The parts of the nodes before k on n threads.
Prior(k, n) == {p \in UNION {{<<i, c>> : c \in PartsOf(i, n)} : i \in Nodes} : p[1] < k}

Before(k) == Prior(k, nGraph.n)

\* Before the barrier within a multiplication, or at a plain node where every
\* thread has a part of its own: what is done.
Finished(k) == {t \in Team : Running(k, "plain") /\ Worked(t, k) /\ pc[t] # "compute"}

FirstDone(k) ==
  /\ done = Before(k) \cup {<<k, t>> : t \in Finished(k)}
  /\ \A t \in Team : pc[t] # "claim" /\ (pc[t] = "compute" => chunk[t] = t)

\* A thread computes its own chunk or one it has claimed, and goes on until
\* there are no more.
Portion(t, k) ==
  /\ pc[t] = "compute" => /\ chunk[t] \in PartsOf(k, nGraph.n) /\ <<k, chunk[t]>> \notin done
                          /\ chunk[t] = t \/ chunk[t] \in nGraph.n..(currentChunk - 1)
  /\ Released(t) => <<k, t>> \notin done
  /\ ~Released(t) /\ ~(pc[t] = "compute" /\ chunk[t] = t) => <<k, t>> \in done
  /\ pc[t] = "claim" => NumChunks(k, nGraph.n) > nGraph.n
  /\ pc[t] \notin {"compute", "claim"} /\ ~Released(t) =>
       NumChunks(k, nGraph.n) <= nGraph.n \/ NumChunks(k, nGraph.n) <= currentChunk

\* The chunks of a multiplication: those below the team's size belong to one
\* thread each, those below currentChunk have been claimed, the rest are free.
SecondDone(k) ==
  /\ currentChunk >= nGraph.n
  /\ Before(k) \subseteq done
  /\ \A p \in done \ Before(k) : \E c \in PartsOf(k, nGraph.n) : p = <<k, c>> /\ c < currentChunk
  /\ \A t \in Team : Portion(t, k)
  /\ \A t, u \in Team : pc[t] = "compute" /\ pc[u] = "compute" /\ chunk[t] = chunk[u] => t = u
  /\ \A c \in nGraph.n..(currentChunk - 1) :
       c < NumChunks(k, nGraph.n) =>
         <<k, c>> \in done \/ \E t \in Team : pc[t] = "compute" /\ chunk[t] = c

InFirst(k)  == FirstHalf(k) /\ FirstDone(k)
InSecond(k) == SecondHalf(k) /\ SecondDone(k)

\* The team is in step.
Lockstep == InBody => \E k \in 1..(Len(Graph) + 1) : InFirst(k) \/ InSecond(k)

\* Every part of the graph, or of the nodes before the one that was aborted.
Computed == \/ done = Before(Len(Graph) + 1)
            \/ ec = "aborted" /\ \E k \in Nodes : done = Before(k)

\* What a call has achieved when the last barrier lets the caller go.
ResultInv ==
  /\ pc[0] = "prepared" => abort = 0 /\ ec = "success"
  /\ abort \in Nodes => ec = "aborted"
  /\ pc[0] \in InGraph /\ ~InBody => Computed

IInv == Flags /\ Types /\ TeamInv /\ BarrierInv /\ Lockstep /\ ResultInv

-----------------------------------------------------------------------------
LEMMA Lengths == Len(Graph) \in Nat /\ Nodes = 1..Len(Graph) /\ N \in Nat \ {0}
  BY PoolAssumption DEF Nodes

LEMMA Ops == \A k \in Nodes : Graph[k].op \in {"mul_mat", "plain", "nop"} /\ Graph[k].chunks \in Nat
<1> TAKE k \in Nodes
<1>1. Graph[k] \in [op : {"mul_mat", "plain", "nop"}, chunks : Nat]
  BY PoolAssumption, Lengths, ElementOfSeq
<1> QED BY <1>1

LEMMA NodeParts ==
  ASSUME NEW k \in Nodes, NEW n \in 1..N
  PROVE  /\ NumChunks(k, n) \in Nat /\ NumChunks(k, n) >= n
         /\ Graph[k].op = "plain" => NumChunks(k, n) = n
  BY Ops, Lengths DEF NumChunks

LEMMA InPrior ==
  ASSUME NEW k \in Int, NEW n, NEW p
  PROVE  p \in Prior(k, n) <=> \E i \in Nodes : i < k /\ \E c \in PartsOf(i, n) : p = <<i, c>>
  BY DEF Prior

LEMMA PriorIsBefore ==
  /\ \A k : Before(k) = Eval!PartsBefore(k)
  /\ Before(Len(Graph) + 1) = Eval!Parts
<1>1. \A k : Before(k) = Eval!PartsBefore(k)
  BY DEF Before, Prior, Eval!PartsBefore, Eval!Parts
<1>2. Before(Len(Graph) + 1) = Eval!Parts
  BY Lengths DEF Before, Prior, Eval!Parts
<1> QED BY <1>1, <1>2

LEMMA NothingPrior == ASSUME NEW n PROVE Prior(1, n) = {}
  BY InPrior, Lengths

\* The parts before the next node are those before this one and its own.
LEMMA PriorNext ==
  ASSUME NEW k \in Nodes, NEW n
  PROVE  /\ Prior(k + 1, n) = Prior(k, n) \cup {<<k, c>> : c \in PartsOf(k, n)}
         /\ \A c : <<k, c>> \notin Prior(k, n)
<1>1. k \in Int
  BY Lengths
<1>2. \A p : p \in Prior(k + 1, n) <=> p \in Prior(k, n) \cup {<<k, c>> : c \in PartsOf(k, n)}
  <2> TAKE p
  <2>1. p \in Prior(k + 1, n) <=> \E i \in Nodes : i < k + 1 /\ \E c \in PartsOf(i, n) : p = <<i, c>>
    BY <1>1, InPrior
  <2>2. p \in Prior(k, n) <=> \E i \in Nodes : i < k /\ \E c \in PartsOf(i, n) : p = <<i, c>>
    BY <1>1, InPrior
  <2>3. \A i \in Nodes : i < k + 1 <=> i < k \/ i = k
    BY Lengths
  <2> QED BY <2>1, <2>2, <2>3
<1>3. \A c : <<k, c>> \notin Prior(k, n)
  BY <1>1, InPrior
<1> QED BY <1>2, <1>3

(* What a thread is does not depend on the steps of the others, unless the   *)
(* barrier opens.                                                            *)
Kept(t) == /\ pc'[t] = pc[t] /\ node'[t] = node[t] /\ nth'[t] = nth[t]
           /\ at'[t] = at[t] /\ passed'[t] = passed[t] /\ wdata'[t] = wdata[t]

LEMMA KeptState ==
  ASSUME NEW t \in Threads, Kept(t), nPassed' = nPassed
  PROVE  /\ Released(t)' = Released(t) /\ Arrived(t)' = Arrived(t)
         /\ Outside(t)' = Outside(t) /\ AtHead(t)' = AtHead(t) /\ Pos(t)' = Pos(t)
         /\ \A who : Held(t, who)' = Held(t, who)
         /\ \A k : Worked(t, k)' = Worked(t, k) /\ Second(t, k)' = Second(t, k)
<1>1. /\ Released(t)' = Released(t) /\ Arrived(t)' = Arrived(t)
  BY DEF Kept, Released, Arrived
<1>2. Outside(t)' = Outside(t) /\ \A who : Held(t, who)' = Held(t, who)
  BY <1>1 DEF Kept, Outside, Held
<1>3. AtHead(t)' = AtHead(t)
  BY <1>1, <1>2 DEF Kept, AtHead
<1>4. Pos(t)' = Pos(t)
  BY DEF Kept, Pos
<1>5. \A k : Worked(t, k)' = Worked(t, k)
  BY <1>2 DEF Kept, Worked
<1>6. \A k : Second(t, k)' = Second(t, k)
  BY <1>1, <1>5 DEF Kept, Second
<1> QED BY <1>1, <1>2, <1>3, <1>4, <1>5, <1>6

LEMMA InitIInv == Init => IInv
<1> SUFFICES ASSUME Init PROVE IInv
  OBVIOUS
<1> USE Lengths
<1>1. Flags /\ Fields
  <2>1. stop \in BOOLEAN /\ pause \in BOOLEAN
    BY Zenon DEF Init
  <2>2. last \in [Threads -> [count : Nat, n : 0..N]] /\ nGraph \in [count : Nat, n : 0..N]
    BY DEF Init
  <2>3. pc \in [Threads -> InGraph \cup Waiting \cup {"idle", "prepared", "join", "freed"}]
    BY DEF Init, InGraph, Waiting
  <2> QED BY <2>1, <2>2, <2>3 DEF Init, Flags, Fields
<1>2. Types
  BY <1>1 DEF Types, Init
<1>3. TeamInv
  BY DEF Init, TeamInv, Threads, Workers, InGraph, Waiting, Outside, Team, InBody
<1>4. BarrierInv
  <2>1. \A t \in Threads : pc[t] \notin {"spin", "arrive", "release"}
    BY DEF Init, Threads
  <2>2. {t \in Threads : Arrived(t)} = {}
    BY <2>1 DEF Arrived
  <2>3. nBarrier = Cardinality({t \in Threads : Arrived(t)})
    BY <2>2, FS_EmptySet DEF Init
  <2> QED BY <2>1, <2>3 DEF BarrierInv, Arrived
<1>5. Lockstep /\ ResultInv
  BY DEF Init, Lockstep, ResultInv, InBody, InGraph, Nodes, Threads
<1> QED BY <1>1, <1>2, <1>3, <1>4, <1>5 DEF IInv

LEMMA WokenType ==
  ASSUME Fields
  PROVE  /\ Woken \in [Threads -> InGraph \cup Waiting \cup {"idle", "prepared", "join", "freed"}]
         /\ \A t \in Threads : \/ Woken[t] = pc[t]
                               \/ pc[t] \in Waiting /\ Woken[t] \in Waiting
<1>1. \A t \in Threads : Woken[t] = pc[t] \/ (pc[t] = "asleep" /\ Woken[t] = "lock")
                           \/ (pc[t] = "doze" /\ Woken[t] = "top")
  BY Zenon DEF Woken
<1>2. Woken = [t \in Threads |-> Woken[t]]
  BY Zenon DEF Woken
<1>3. \A t \in Threads : Woken[t] = pc[t] \/ (pc[t] \in Waiting /\ Woken[t] \in Waiting)
  BY <1>1 DEF Waiting
<1>4. \A t \in Threads : Woken[t] \in InGraph \cup Waiting \cup {"idle", "prepared", "join", "freed"}
  BY <1>3 DEF Fields
<1> QED BY <1>2, <1>3, <1>4

LEMMA TopStep ==
  ASSUME NEW w \in Workers, Top(w)
  PROVE  pc[w] = "top" /\ \E l \in {"doze", "exited", "poll"} : Go(w, l)
  BY Zenon DEF Top

LEMMA FlagsStep == ASSUME Flags, [Next]_vars PROVE Flags'
<1>1. CASE Prepare \/ Kickoff \/ PausePool \/ ResumePool \/ Free \/ Join
  BY <1>1, Zenon DEF Flags, Prepare, Kickoff, PausePool, ResumePool, Free, Join, poolVars
<1>2. ASSUME NEW w \in Workers, WaitStep(w) \/ SpuriousWake(w) PROVE Flags'
  BY <1>2, Zenon DEF Flags, WaitStep, Top, Poll, Lock, SpuriousWake, poolVars
<1>3. ASSUME NEW t \in Threads, ComputeStep(t) PROVE Flags'
  <2>1. UNCHANGED poolVars
    BY <1>3, Zenon DEF ComputeStep, Start, NextNode, Quantize, EndPart, Claim, AfterNode,
         Enter, Arrive, Release, Spin, barrierRest
  <2> QED BY <2>1, Zenon DEF Flags, poolVars
<1>4. CASE UNCHANGED vars
  BY <1>4, Zenon DEF Flags, vars, poolVars
<1> QED BY <1>1, <1>2, <1>3, <1>4, Zenon DEF Next, Freed

-----------------------------------------------------------------------------
(* What a step of a thread in the graph does.                                *)

Labels == InGraph \cup Waiting \cup {"idle", "prepared", "join", "freed"}

\* Only thread t's place and locals change.
Local(t) ==
  /\ pc' = [pc EXCEPT ![t] = pc'[t]] /\ node' = [node EXCEPT ![t] = node'[t]]
  /\ chunk' = [chunk EXCEPT ![t] = chunk'[t]] /\ nth' = [nth EXCEPT ![t] = nth'[t]]
  /\ at' = [at EXCEPT ![t] = at'[t]] /\ passed' = [passed EXCEPT ![t] = passed'[t]]
  /\ wdata' = [wdata EXCEPT ![t] = wdata'[t]]

\* Thread t goes to label l with these locals; the others stay where they are.
Moves(t, l, k, c, n, a, p, d) ==
  /\ Local(t)
  /\ pc'[t] = l /\ node'[t] = k /\ chunk'[t] = c /\ nth'[t] = n
  /\ at'[t] = a /\ passed'[t] = p /\ wdata'[t] = d

\* Where a thread is that leaves the barrier.
LeavesTo(t, l, k, c) ==
  \/ /\ at[t] = "mid" /\ k = node[t] /\ c = t
     /\ l = IF t < NumChunks(node[t], nth[t]) THEN "compute" ELSE "after"
  \/ at[t] = "between" /\ k = node[t] + 1 /\ c = chunk[t] /\ l = "node"
  \/ at[t] = "final" /\ k = node[t] /\ c = chunk[t] /\ l = IF t = 0 THEN "idle" ELSE "top"

Scalars == <<nGraph, last, abort, currentChunk, ec, nBarrier, nPassed, done>>

LEMMA ZeroThread == 0 \in Threads /\ Workers \subseteq Threads /\ Threads \subseteq Nat
  BY Lengths DEF Threads, Workers

LEMMA LocalKeeps ==
  ASSUME Fields, NEW t \in Threads, Local(t), NEW u \in Threads \ {t}
  PROVE  Kept(u) /\ chunk'[u] = chunk[u]
  BY DEF Local, Fields, Kept

LEMMA StartEffect ==
  ASSUME Fields, NEW t \in Threads, Start(t)
  PROVE  /\ pc[t] = "start"
         /\ Moves(t, "node", 1, chunk[t], nGraph.n, at[t], passed[t], wdata[t])
         /\ UNCHANGED Scalars
  BY DEF Start, Go, Moves, Local, Fields, Scalars, poolVars, graphVars, barVars

LEMMA NextNodeEffect ==
  ASSUME Fields, NEW t \in Threads, NextNode(t)
  PROVE  /\ pc[t] = "node" /\ UNCHANGED Scalars
         /\ \/ /\ node[t] \notin Nodes \/ abort = node[t]
               /\ Moves(t, "enter", node[t], chunk[t], nth[t], "final", passed[t], wdata[t])
            \/ /\ node[t] \in Nodes /\ abort # node[t]
               /\ \/ /\ Graph[node[t]].op = "nop"
                     /\ Moves(t, "node", node[t] + 1, chunk[t], nth[t], at[t], passed[t], wdata[t])
                  \/ /\ Graph[node[t]].op = "plain"
                     /\ Moves(t, "compute", node[t], t, nth[t], at[t], passed[t], wdata[t])
                  \/ /\ Graph[node[t]].op = "mul_mat"
                     /\ Moves(t, "quantize", node[t], chunk[t], nth[t], at[t], passed[t], wdata[t])
<1>1. pc[t] = "node" /\ UNCHANGED <<nth, passed, wdata>> /\ UNCHANGED Scalars
  BY DEF NextNode, Scalars, poolVars, graphVars
<1>2. CASE node[t] \notin Nodes \/ abort = node[t]
  BY <1>1, <1>2 DEF NextNode, EnterBarrier, Go, Moves, Local, Fields
<1>3. CASE node[t] \in Nodes /\ abort # node[t]
  <2>1. at' = [at EXCEPT ![t] = at[t]]
    BY <1>3 DEF NextNode, Fields
  <2>2. CASE Graph[node[t]].op = "nop"
    BY <1>1, <1>3, <2>1, <2>2 DEF NextNode, Go, Moves, Local, Fields
  <2>3. CASE Graph[node[t]].op = "plain"
    BY <1>1, <1>3, <2>1, <2>3 DEF NextNode, Go, Moves, Local, Fields
  <2>4. CASE Graph[node[t]].op = "mul_mat"
    BY <1>1, <1>3, <2>1, <2>4 DEF NextNode, Go, Moves, Local, Fields
  <2> QED BY <1>1, <1>3, <2>2, <2>3, <2>4, Ops
<1> QED BY <1>2, <1>3

LEMMA QuantizeEffect ==
  ASSUME Fields, NEW t \in Threads, Quantize(t)
  PROVE  /\ pc[t] = "quantize"
         /\ Moves(t, "enter", node[t], chunk[t], nth[t], "mid", passed[t], node[t])
         /\ currentChunk' = (IF t = 0 THEN nth[t] ELSE currentChunk)
         /\ UNCHANGED <<nGraph, last, abort, ec, nBarrier, nPassed, done>>
  BY DEF Quantize, EnterBarrier, Go, Moves, Local, Fields, poolVars

LEMMA EndPartEffect ==
  ASSUME Fields, NEW t \in Threads, EndPart(t)
  PROVE  /\ pc[t] = "compute"
         /\ Moves(t, IF nth[t] >= NumChunks(node[t], nth[t]) THEN "after" ELSE "claim",
                  node[t], chunk[t], nth[t], at[t], passed[t], wdata[t])
         /\ done' = done \cup {<<node[t], chunk[t]>>}
         /\ UNCHANGED <<nGraph, last, abort, currentChunk, ec, nBarrier, nPassed>>
  BY DEF EndPart, Go, Moves, Local, Fields, poolVars, graphVars, barVars

LEMMA ClaimEffect ==
  ASSUME Fields, NEW t \in Threads, Claim(t)
  PROVE  /\ pc[t] = "claim"
         /\ Moves(t, IF currentChunk < NumChunks(node[t], nth[t]) THEN "compute" ELSE "after",
                  node[t], currentChunk, nth[t], at[t], passed[t], wdata[t])
         /\ currentChunk' = currentChunk + 1
         /\ UNCHANGED <<nGraph, last, abort, ec, nBarrier, nPassed, done>>
  BY DEF Claim, ComputeOrFinish, Go, Moves, Local, Fields, poolVars, barVars

LEMMA AfterNodeEffect ==
  ASSUME Fields, NEW t \in Threads, AfterNode(t)
  PROVE  /\ pc[t] = "after"
         /\ Moves(t, "enter", node[t], chunk[t], nth[t],
                  IF node[t] < Len(Graph) THEN "between" ELSE "final", passed[t], wdata[t])
         /\ \/ UNCHANGED <<abort, ec>>
            \/ t = 0 /\ abort' = node[t] + 1 /\ ec' = "aborted"
         /\ UNCHANGED <<nGraph, last, currentChunk, nBarrier, nPassed, done>>
  BY DEF AfterNode, AbortAt, EnterBarrier, Go, Moves, Local, Fields, poolVars, workVars

LEMMA LeaveEffect ==
  ASSUME Fields, NEW t \in Threads, Leave(t), NEW p, passed' = [passed EXCEPT ![t] = p],
         UNCHANGED <<at, nth, wdata>>
  PROVE  \E l, k, c : LeavesTo(t, l, k, c) /\ Moves(t, l, k, c, nth[t], at[t], p, wdata[t])
<1> USE DEF Moves, Local, Fields
<1>1. CASE at[t] = "mid"
  <2>1. Moves(t, IF t < NumChunks(node[t], nth[t]) THEN "compute" ELSE "after", node[t], t,
              nth[t], at[t], p, wdata[t])
    BY <1>1 DEF Leave, ComputeOrFinish, Go
  <2> QED BY <1>1, <2>1, Zenon DEF LeavesTo
<1>2. CASE at[t] = "between"
  <2>1. Moves(t, "node", node[t] + 1, chunk[t], nth[t], at[t], p, wdata[t])
    BY <1>2 DEF Leave, Go
  <2> QED BY <1>2, <2>1, Zenon DEF LeavesTo
<1>3. CASE at[t] = "final"
  <2>1. Moves(t, IF t = 0 THEN "idle" ELSE "top", node[t], chunk[t], nth[t], at[t], p, wdata[t])
    BY <1>3 DEF Leave, Go
  <2> QED BY <1>3, <2>1, Zenon DEF LeavesTo
<1> QED BY <1>1, <1>2, <1>3

LEMMA EnterEffect ==
  ASSUME Fields, NEW t \in Threads, Enter(t)
  PROVE  /\ pc[t] = "enter" /\ UNCHANGED Scalars
         /\ \/ /\ nGraph.n = 1
               /\ \E l, k, c : /\ LeavesTo(t, l, k, c)
                               /\ Moves(t, l, k, c, nth[t], at[t], passed[t], wdata[t])
            \/ /\ nGraph.n # 1
               /\ Moves(t, "arrive", node[t], chunk[t], nth[t], at[t], nPassed, wdata[t])
<1>1. pc[t] = "enter" /\ UNCHANGED Scalars /\ UNCHANGED <<at, nth, wdata>>
  BY DEF Enter, barrierRest, Scalars, poolVars, graphVars
<1>2. CASE nGraph.n = 1
  <2>1. Leave(t) /\ passed' = [passed EXCEPT ![t] = passed[t]]
    BY <1>2 DEF Enter, Fields
  <2> QED BY <1>1, <1>2, <2>1, LeaveEffect
<1>3. CASE nGraph.n # 1
  BY <1>1, <1>3 DEF Enter, Go, Moves, Local, Fields
<1> QED BY <1>2, <1>3

LEMMA ArriveEffect ==
  ASSUME Fields, NEW t \in Threads, Arrive(t)
  PROVE  /\ pc[t] = "arrive"
         /\ Moves(t, IF nBarrier = nGraph.n - 1 THEN "release" ELSE "spin",
                  node[t], chunk[t], nth[t], at[t], passed[t], wdata[t])
         /\ nBarrier' = (IF nBarrier = nGraph.n - 1 THEN 0 ELSE nBarrier + 1)
         /\ UNCHANGED <<nGraph, last, abort, currentChunk, ec, nPassed, done>>
  BY DEF Arrive, Go, Moves, Local, Fields, barrierRest, poolVars, graphVars

LEMMA ReleaseEffect ==
  ASSUME Fields, NEW t \in Threads, Release(t)
  PROVE  /\ pc[t] = "release"
         /\ \E l, k, c : /\ LeavesTo(t, l, k, c)
                         /\ Moves(t, l, k, c, nth[t], at[t], passed[t], wdata[t])
         /\ nPassed' = nPassed + 1
         /\ UNCHANGED <<nGraph, last, abort, currentChunk, ec, nBarrier, done>>
<1>1. Leave(t) /\ passed' = [passed EXCEPT ![t] = passed[t]] /\ UNCHANGED <<at, nth, wdata>>
  BY DEF Release, Fields, barrierRest
<1> QED BY <1>1, LeaveEffect DEF Release, barrierRest, poolVars, graphVars

LEMMA SpinEffect ==
  ASSUME Fields, NEW t \in Threads, Spin(t)
  PROVE  /\ pc[t] = "spin" /\ nPassed # passed[t]
         /\ \E l, k, c : /\ LeavesTo(t, l, k, c)
                         /\ Moves(t, l, k, c, nth[t], at[t], passed[t], wdata[t])
         /\ UNCHANGED Scalars
<1>1. Leave(t) /\ passed' = [passed EXCEPT ![t] = passed[t]] /\ UNCHANGED <<at, nth, wdata>>
  BY DEF Spin, Fields, barrierRest
<1> QED BY <1>1, LeaveEffect DEF Spin, Scalars, barrierRest, poolVars, graphVars

LEMMA LocalsType ==
  ASSUME Fields, NEW t \in Threads
  PROVE  /\ node[t] \in 1..(Len(Graph) + 1) /\ chunk[t] \in Nat /\ nth[t] \in 0..N
         /\ at[t] \in {"mid", "between", "final"} /\ passed[t] \in Nat
         /\ wdata[t] \in 0..Len(Graph) /\ pc[t] \in Labels
         /\ nGraph.n \in 0..N /\ nGraph.n \in Nat /\ nth[t] \in Nat /\ t \in Nat
         /\ nPassed \in Nat /\ currentChunk \in Nat /\ nBarrier \in Nat
<1>1. nGraph.n \in 0..N /\ nGraph.n \in Nat
  BY Lengths DEF Fields
<1>2. nth[t] \in Nat /\ t \in Nat
  BY Lengths, ZeroThread DEF Fields
<1> QED BY <1>1, <1>2 DEF Fields, Labels

LEMMA LeavesToType ==
  ASSUME Types, NEW t \in Threads, pc[t] \in {"enter", "release", "spin"},
         NEW l, NEW k, NEW c, LeavesTo(t, l, k, c)
  PROVE  /\ l \in {"compute", "after", "node", "idle", "top"}
         /\ k \in 1..(Len(Graph) + 1) /\ c \in Nat
         /\ l \in {"compute", "after"} => k \in Nodes
<1>0. Fields /\ node[t] \in 1..(Len(Graph) + 1) /\ chunk[t] \in Nat /\ t \in Nat
  BY LocalsType DEF Types
<1>1. CASE at[t] = "mid"
  BY <1>0, <1>1 DEF LeavesTo, Types
<1>2. CASE at[t] = "between"
  BY <1>0, <1>2, Lengths DEF LeavesTo, Types
<1>3. CASE at[t] = "final"
  BY <1>0, <1>3 DEF LeavesTo
<1> QED BY <1>1, <1>2, <1>3 DEF LeavesTo

LEMMA LocalTyped ==
  ASSUME Fields, NEW t \in Threads, Local(t), UNCHANGED <<nGraph, last>>,
         pc'[t] \in Labels, node'[t] \in 1..(Len(Graph) + 1), chunk'[t] \in Nat,
         nth'[t] \in 0..N, at'[t] \in {"mid", "between", "final"}, passed'[t] \in Nat,
         wdata'[t] \in 0..Len(Graph),
         abort' \in 0..(Len(Graph) + 1), currentChunk' \in Nat, ec' \in {"success", "aborted"},
         nBarrier' \in Nat, nPassed' \in Nat, done' \subseteq (Nat \X Nat)
  PROVE  Fields'
  BY DEF Fields, Local, Labels

LEMMA PartAdded ==
  ASSUME NEW D, D \subseteq (Nat \X Nat), NEW k \in Nat, NEW c \in Nat
  PROVE  D \cup {<<k, c>>} \subseteq (Nat \X Nat)
  OBVIOUS

LEMMA ComputeTypes ==
  ASSUME Types, NEW t \in Threads, ComputeStep(t)
  PROVE  Types' /\ Local(t) /\ UNCHANGED <<nGraph, last>>
<1> DEFINE Place == /\ pc'[t] \in {"quantize", "compute", "claim", "after"} => node'[t] \in Nodes
                    /\ pc'[t] \in {"enter", "arrive", "spin", "release"} =>
                         /\ at'[t] = "mid" => node'[t] \in Nodes
                         /\ at'[t] = "between" => node'[t] < Len(Graph)
           Locals == /\ pc'[t] \in Labels /\ node'[t] \in 1..(Len(Graph) + 1) /\ chunk'[t] \in Nat
                     /\ nth'[t] \in 0..N /\ at'[t] \in {"mid", "between", "final"}
                     /\ passed'[t] \in Nat /\ wdata'[t] \in 0..Len(Graph)
           Shared == /\ abort' \in 0..(Len(Graph) + 1) /\ currentChunk' \in Nat
                     /\ ec' \in {"success", "aborted"} /\ nBarrier' \in Nat /\ nPassed' \in Nat
                     /\ done' \subseteq (Nat \X Nat)
                     /\ UNCHANGED <<nGraph, last>>
<1>0. Fields
  BY DEF Types
<1>1. ASSUME Start(t) PROVE Local(t) /\ Place /\ Locals /\ Shared
  <2>0. /\ Local(t) /\ pc'[t] = "node" /\ node'[t] = 1 /\ nth'[t] = nGraph.n
        /\ chunk'[t] = chunk[t] /\ at'[t] = at[t] /\ passed'[t] = passed[t] /\ wdata'[t] = wdata[t]
    BY <1>0, <1>1, StartEffect DEF Moves
  <2>1. Local(t) /\ Place /\ Locals
    BY <1>0, <2>0, LocalsType, Lengths DEF Labels, InGraph, Waiting
  <2>2. Shared
    BY <1>1, StartEffect, LocalsType, Lengths DEF Scalars, Moves, Types, Fields
  <2> QED BY <2>1, <2>2
<1>2. ASSUME NextNode(t) PROVE Local(t) /\ Place /\ Locals /\ Shared
  <2>1. /\ Local(t) /\ pc[t] = "node" /\ pc'[t] \in {"enter", "node", "compute", "quantize"}
        /\ pc'[t] = "enter" => at'[t] = "final"
        /\ pc'[t] # "enter" => node[t] \in Nodes /\ at'[t] = at[t]
        /\ node'[t] = node[t] \/ (pc'[t] = "node" /\ node[t] \in Nodes /\ node'[t] = node[t] + 1)
        /\ chunk'[t] \in {chunk[t], t}
        /\ nth'[t] = nth[t] /\ passed'[t] = passed[t] /\ wdata'[t] = wdata[t]
    BY <1>0, <1>2, NextNodeEffect DEF Moves
  <2>2. Place
    BY <1>0, <2>1, LocalsType, Lengths
  <2>3. Locals
    BY <1>0, <2>1, LocalsType, Lengths DEF Labels, InGraph, Waiting
  <2>4. Shared
    BY <1>2, NextNodeEffect, LocalsType, Lengths DEF Scalars, Moves, Types, Fields
  <2> QED BY <2>1, <2>2, <2>3, <2>4
<1>3. ASSUME Quantize(t) PROVE Local(t) /\ Place /\ Locals /\ Shared
  <2>1. Local(t) /\ Place /\ Locals
    BY <1>0, <1>3, QuantizeEffect, LocalsType, Lengths DEF Moves, Types, Labels, InGraph, Waiting
  <2>2. Shared
    BY <1>3, QuantizeEffect, LocalsType, Lengths DEF Moves, Types, Fields
  <2> QED BY <2>1, <2>2
<1>4. ASSUME EndPart(t) PROVE Local(t) /\ Place /\ Locals /\ Shared
  <2>1. /\ Local(t) /\ pc[t] = "compute" /\ pc'[t] \in {"after", "claim"}
        /\ node'[t] = node[t] /\ chunk'[t] = chunk[t] /\ nth'[t] = nth[t] /\ at'[t] = at[t] /\ passed'[t] = passed[t] /\ wdata'[t] = wdata[t]
    BY <1>0, <1>4, EndPartEffect DEF Moves
  <2>2. Place
    BY <1>0, <2>1, LocalsType, Lengths DEF Types
  <2>3. Locals
    BY <1>0, <2>1, LocalsType, Lengths DEF Labels, InGraph, Waiting
  <2>4. Shared
    <3>1. UNCHANGED <<nGraph, last>> /\ nBarrier' \in Nat /\ nPassed' \in Nat /\ currentChunk' \in Nat
      BY <1>0, <1>4, EndPartEffect, LocalsType
    <3>2. abort' \in 0..(Len(Graph) + 1) /\ ec' \in {"success", "aborted"}
      BY <1>0, <1>4, EndPartEffect DEF Fields
    <3>3. done' \subseteq (Nat \X Nat)
      <4>1. node[t] \in Nat /\ chunk[t] \in Nat
        BY <1>0, LocalsType, Lengths
      <4>2. done' = done \cup {<<node[t], chunk[t]>>}
        BY <1>0, <1>4, EndPartEffect
      <4>3. done \subseteq (Nat \X Nat)
        BY <1>0 DEF Fields
      <4> QED BY <4>1, <4>2, <4>3, PartAdded
    <3> QED BY <3>1, <3>2, <3>3
  <2> QED BY <2>1, <2>2, <2>3, <2>4
<1>5. ASSUME Claim(t) PROVE Local(t) /\ Place /\ Locals /\ Shared
  <2>1. /\ Local(t) /\ pc[t] = "claim" /\ pc'[t] \in {"after", "compute"} /\ chunk'[t] = currentChunk
        /\ node'[t] = node[t] /\ nth'[t] = nth[t] /\ at'[t] = at[t] /\ passed'[t] = passed[t] /\ wdata'[t] = wdata[t]
    BY <1>0, <1>5, ClaimEffect DEF Moves
  <2>2. Place
    BY <1>0, <2>1, LocalsType, Lengths DEF Types
  <2>3. Locals
    BY <1>0, <2>1, LocalsType, Lengths DEF Labels, InGraph, Waiting
  <2>4. Shared
    <3>1. UNCHANGED <<nGraph, last>> /\ nBarrier' \in Nat /\ nPassed' \in Nat /\ currentChunk' \in Nat
      BY <1>0, <1>5, ClaimEffect, LocalsType
    <3>2. abort' \in 0..(Len(Graph) + 1) /\ ec' \in {"success", "aborted"}
      BY <1>0, <1>5, ClaimEffect DEF Fields
    <3>3. done' \subseteq (Nat \X Nat)
      BY <1>0, <1>5, ClaimEffect DEF Fields
    <3> QED BY <3>1, <3>2, <3>3
  <2> QED BY <2>1, <2>2, <2>3, <2>4
<1>6. ASSUME AfterNode(t) PROVE Local(t) /\ Place /\ Locals /\ Shared
  <2>1. /\ Local(t) /\ pc[t] = "after" /\ pc'[t] = "enter"
        /\ at'[t] = (IF node[t] < Len(Graph) THEN "between" ELSE "final")
        /\ node'[t] = node[t] /\ chunk'[t] = chunk[t] /\ nth'[t] = nth[t] /\ passed'[t] = passed[t] /\ wdata'[t] = wdata[t]
    BY <1>0, <1>6, AfterNodeEffect DEF Moves
  <2>2. Place
    BY <1>0, <2>1, LocalsType, Lengths DEF Types
  <2>3. Locals
    BY <1>0, <2>1, LocalsType, Lengths DEF Labels, InGraph, Waiting
  <2>4. Shared
    <3>1. UNCHANGED <<nGraph, last>> /\ nBarrier' \in Nat /\ nPassed' \in Nat /\ currentChunk' \in Nat
      BY <1>0, <1>6, AfterNodeEffect, LocalsType
    <3>2. abort' \in 0..(Len(Graph) + 1) /\ ec' \in {"success", "aborted"}
      <4>1. node[t] \in Nodes
        BY <2>1 DEF Types
      <4>2. \/ abort' = abort /\ ec' = ec
            \/ abort' = node[t] + 1 /\ ec' = "aborted"
        BY <1>0, <1>6, AfterNodeEffect
      <4>3. abort \in 0..(Len(Graph) + 1) /\ ec \in {"success", "aborted"}
        BY <1>0 DEF Fields
      <4> QED BY <4>1, <4>2, <4>3, Lengths
    <3>3. done' \subseteq (Nat \X Nat)
      BY <1>0, <1>6, AfterNodeEffect DEF Fields
    <3> QED BY <3>1, <3>2, <3>3
  <2> QED BY <2>1, <2>2, <2>3, <2>4
<1>7. ASSUME Enter(t) PROVE Local(t) /\ Place /\ Locals /\ Shared
  <2>1. /\ Local(t) /\ pc[t] = "enter" /\ pc'[t] \in {"compute", "after", "node", "idle", "top", "arrive"}
        /\ node'[t] \in 1..(Len(Graph) + 1) /\ chunk'[t] \in Nat
        /\ pc'[t] \in {"compute", "after"} => node'[t] \in Nodes
        /\ pc'[t] = "arrive" => node'[t] = node[t]
        /\ passed'[t] \in {passed[t], nPassed}
        /\ nth'[t] = nth[t] /\ at'[t] = at[t] /\ wdata'[t] = wdata[t]
    BY <1>0, <1>7, EnterEffect, LeavesToType, LocalsType DEF Moves
  <2>2. Place
    BY <1>0, <2>1, LocalsType, Lengths DEF Types
  <2>3. Locals
    BY <1>0, <2>1, LocalsType, Lengths DEF Labels, InGraph, Waiting
  <2>4. Shared
    BY <1>7, EnterEffect, LocalsType, Lengths DEF Scalars, Moves, Types, Fields
  <2> QED BY <2>1, <2>2, <2>3, <2>4
<1>8. ASSUME Arrive(t) PROVE Local(t) /\ Place /\ Locals /\ Shared
  <2>1. /\ Local(t) /\ pc[t] = "arrive" /\ pc'[t] \in {"release", "spin"}
        /\ node'[t] = node[t] /\ chunk'[t] = chunk[t] /\ nth'[t] = nth[t] /\ at'[t] = at[t] /\ passed'[t] = passed[t] /\ wdata'[t] = wdata[t]
    BY <1>0, <1>8, ArriveEffect DEF Moves
  <2>2. Place
    BY <1>0, <2>1, LocalsType, Lengths DEF Types
  <2>3. Locals
    BY <1>0, <2>1, LocalsType, Lengths DEF Labels, InGraph, Waiting
  <2>4. Shared
    <3>1. UNCHANGED <<nGraph, last>> /\ nBarrier' \in Nat /\ nPassed' \in Nat /\ currentChunk' \in Nat
      BY <1>0, <1>8, ArriveEffect, LocalsType
    <3>2. abort' \in 0..(Len(Graph) + 1) /\ ec' \in {"success", "aborted"}
      BY <1>0, <1>8, ArriveEffect DEF Fields
    <3>3. done' \subseteq (Nat \X Nat)
      BY <1>0, <1>8, ArriveEffect DEF Fields
    <3> QED BY <3>1, <3>2, <3>3
  <2> QED BY <2>1, <2>2, <2>3, <2>4
<1>9. ASSUME Release(t) PROVE Local(t) /\ Place /\ Locals /\ Shared
  <2>1. /\ Local(t) /\ pc[t] = "release" /\ pc'[t] \in {"compute", "after", "node", "idle", "top"}
        /\ node'[t] \in 1..(Len(Graph) + 1) /\ chunk'[t] \in Nat
        /\ pc'[t] \in {"compute", "after"} => node'[t] \in Nodes
        /\ nth'[t] = nth[t] /\ at'[t] = at[t] /\ passed'[t] = passed[t] /\ wdata'[t] = wdata[t]
    BY <1>0, <1>9, ReleaseEffect, LeavesToType DEF Moves
  <2>2. Place
    BY <1>0, <2>1, LocalsType, Lengths DEF Types
  <2>3. Locals
    BY <1>0, <2>1, LocalsType, Lengths DEF Labels, InGraph, Waiting
  <2>4. Shared
    <3>1. UNCHANGED <<nGraph, last>> /\ nBarrier' \in Nat /\ nPassed' \in Nat /\ currentChunk' \in Nat
      BY <1>0, <1>9, ReleaseEffect, LocalsType
    <3>2. abort' \in 0..(Len(Graph) + 1) /\ ec' \in {"success", "aborted"}
      BY <1>0, <1>9, ReleaseEffect DEF Fields
    <3>3. done' \subseteq (Nat \X Nat)
      BY <1>0, <1>9, ReleaseEffect DEF Fields
    <3> QED BY <3>1, <3>2, <3>3
  <2> QED BY <2>1, <2>2, <2>3, <2>4
<1>10. ASSUME Spin(t) PROVE Local(t) /\ Place /\ Locals /\ Shared
  <2>0. PICK l, k, c : LeavesTo(t, l, k, c) /\ Moves(t, l, k, c, nth[t], at[t], passed[t], wdata[t])
    BY <1>0, <1>10, SpinEffect
  <2>3. /\ l \in {"compute", "after", "node", "idle", "top"} /\ k \in 1..(Len(Graph) + 1)
        /\ c \in Nat /\ (l \in {"compute", "after"} => k \in Nodes)
    BY <1>0, <1>10, <2>0, SpinEffect, LeavesToType
  <2>4. /\ Local(t) /\ pc'[t] = l /\ node'[t] = k /\ chunk'[t] = c
        /\ nth'[t] = nth[t] /\ at'[t] = at[t] /\ passed'[t] = passed[t] /\ wdata'[t] = wdata[t]
    BY <2>0 DEF Moves
  <2>1. Local(t) /\ Place /\ Locals
    BY <1>0, <2>3, <2>4, LocalsType DEF Labels, InGraph, Waiting
  <2>2. Shared
    BY <1>10, SpinEffect, LocalsType, Lengths DEF Scalars, Moves, Types, Fields
  <2> QED BY <2>1, <2>2
<1>11. Local(t) /\ Place /\ Locals /\ Shared
  BY <1>1, <1>2, <1>3, <1>4, <1>5, <1>6, <1>7, <1>8, <1>9, <1>10 DEF ComputeStep
<1>12. Fields'
  BY <1>0, <1>11, LocalTyped
<1> QED BY <1>0, <1>11, <1>12, LocalKeeps DEF Kept, Types

\* A worker that waits, and what it may have seen.
LEMMA WaitEffect ==
  ASSUME Fields, NEW w \in Workers, WaitStep(w) \/ SpuriousWake(w)
  PROVE  /\ pc[w] \in Waiting /\ pc'[w] \in Waiting \cup {"start"}
         /\ pc' = [pc EXCEPT ![w] = pc'[w]]
         /\ last' = [last EXCEPT ![w] = last'[w]]
         /\ \/ last'[w] = last[w] /\ pc'[w] \in Waiting
            \/ /\ nGraph # last[w] /\ last'[w] = nGraph
               /\ (pc'[w] = "start" <=> w < nGraph.n)
         /\ UNCHANGED <<nGraph, graphVars, barVars, workVars>>
<1>1. w \in Threads
  BY ZeroThread
<1>2. UNCHANGED <<nGraph, graphVars, barVars, workVars>>
  BY Zenon DEF WaitStep, Top, Poll, Lock, SpuriousWake, poolVars
<1>3. CASE Top(w)
  <2>1. PICK l \in {"doze", "exited", "poll"} : Go(w, l)
    BY <1>3, TopStep
  <2>2. pc[w] = "top" /\ last' = last
    BY <1>3, TopStep DEF Top
  <2> QED BY <1>1, <1>2, <2>1, <2>2 DEF Go, Fields, Waiting
<1>4. CASE Poll(w)
  BY <1>1, <1>2, <1>4 DEF Poll, SeeGraph, Go, Fields, Waiting
<1>5. CASE Lock(w)
  BY <1>1, <1>2, <1>5 DEF Lock, SeeGraph, Go, Fields, Waiting
<1>6. CASE SpuriousWake(w)
  BY <1>1, <1>2, <1>6 DEF SpuriousWake, Go, Fields, Waiting
<1> QED BY <1>3, <1>4, <1>5, <1>6 DEF WaitStep

LEMMA WaitTypes ==
  ASSUME Types, NEW w \in Workers, WaitStep(w) \/ SpuriousWake(w)
  PROVE  Types'
<1>1. Fields /\ w \in Threads
  BY ZeroThread DEF Types
<1>2. pc' \in [Threads -> Labels] /\ last' \in [Threads -> [count : Nat, n : 0..N]]
  <2>1. pc'[w] \in Labels /\ last'[w] \in [count : Nat, n : 0..N]
    BY <1>1, WaitEffect DEF Fields, Labels, InGraph
  <2>2. pc' = [pc EXCEPT ![w] = pc'[w]] /\ last' = [last EXCEPT ![w] = last'[w]]
    BY <1>1, WaitEffect
  <2> QED BY <1>1, <2>1, <2>2 DEF Fields, Labels
<1>3. /\ UNCHANGED <<nGraph, graphVars, barVars, workVars>>
      /\ \A t \in Threads : pc'[t] = pc[t] \/ pc'[t] \in Waiting \cup {"start"}
  BY <1>1, WaitEffect DEF Fields
<1> QED BY <1>2, <1>3 DEF Types, Fields, Labels, Waiting, graphVars, barVars, workVars

\* The steps of a caller outside a graph.
CallerStep == Prepare \/ Kickoff \/ PausePool \/ ResumePool \/ Free \/ Join

LEMMA CallerEffect ==
  ASSUME Fields, CallerStep
  PROVE  /\ pc[0] \in {"idle", "prepared", "join"}
         /\ pc' \in [Threads -> Labels]
         /\ \A w \in Workers : pc'[w] = pc[w] \/ (pc[w] \in Waiting /\ pc'[w] \in Waiting)
         /\ UNCHANGED <<barVars, node, nth, chunk, wdata, last>>
         /\ \/ /\ pc[0] = "prepared" /\ pc'[0] = "start"
               /\ nGraph'.count = nGraph.count + 1 /\ nGraph'.n \in 1..N
               /\ nGraph' \in [count : Nat, n : 0..N] /\ done' = {}
               /\ UNCHANGED graphVars
            \/ /\ pc[0] = "idle" /\ pc'[0] = "prepared"
               /\ currentChunk' = 0 /\ abort' = 0 /\ ec' = "success"
               /\ UNCHANGED <<nGraph, done>>
            \/ /\ pc'[0] \in {"idle", "join", "freed"} /\ pc[0] # "prepared"
               /\ UNCHANGED <<nGraph, graphVars, done>>
<1>0. 0 \in Threads /\ Workers = Threads \ {0}
  BY ZeroThread DEF Workers
<1> USE <1>0
<1>1. UNCHANGED <<barVars, node, nth, chunk, wdata, last>>
  BY Zenon DEF CallerStep, Prepare, Kickoff, PausePool, ResumePool, Free, Join, workVars
<1>2. CASE Prepare
  BY <1>1, <1>2 DEF Prepare, Go, Fields, poolVars, workVars, Labels
<1>3. CASE Kickoff
  <2>1. /\ nGraph'.count = nGraph.count + 1 /\ nGraph'.n \in 1..N
        /\ nGraph' \in [count : Nat, n : 0..N]
    BY <1>3, Lengths DEF Kickoff, Fields
  <2>2. pc' \in [Threads -> Labels] /\ pc'[0] = "start"
    BY <1>3, WokenType DEF Kickoff, Labels, InGraph
  <2>3. \A w \in Workers : pc'[w] = pc[w] \/ (pc[w] \in Waiting /\ pc'[w] \in Waiting)
    BY <1>3, WokenType DEF Kickoff
  <2> QED BY <1>1, <1>3, <2>1, <2>2, <2>3 DEF Kickoff
<1>4. CASE PausePool \/ ResumePool
  <2>1. pc' = Woken /\ pc[0] = "idle" /\ UNCHANGED <<nGraph, graphVars, done>>
    BY <1>4, Zenon DEF PausePool, ResumePool, workVars
  <2>2. pc'[0] = "idle"
    BY <2>1, WokenType DEF Waiting
  <2> QED BY <1>1, <2>1, <2>2, WokenType DEF Labels
<1>5. CASE Free
  <2>1. pc' = [Woken EXCEPT ![0] = "join"] /\ pc[0] = "idle" /\ UNCHANGED <<nGraph, graphVars, done>>
    BY <1>5, Zenon DEF Free, workVars
  <2> QED BY <1>1, <2>1, WokenType DEF Labels
<1>6. CASE Join
  <2>1. pc' = [pc EXCEPT ![0] = "freed"] /\ pc[0] = "join" /\ UNCHANGED <<nGraph, graphVars, done>>
    BY <1>6, Zenon DEF Join, Go, poolVars, workVars
  <2> QED BY <1>1, <2>1 DEF Fields, Labels
<1> QED BY <1>2, <1>3, <1>4, <1>5, <1>6 DEF CallerStep

LEMMA CallerTypes == ASSUME Types, CallerStep PROVE Types'
<1>1. Fields
  BY DEF Types
<1>2. /\ nGraph' \in [count : Nat, n : 0..N] /\ done' \subseteq (Nat \X Nat)
      /\ abort' \in 0..(Len(Graph) + 1) /\ currentChunk' \in Nat /\ ec' \in {"success", "aborted"}
  <2>1. /\ nGraph \in [count : Nat, n : 0..N] /\ done \subseteq (Nat \X Nat)
        /\ abort \in 0..(Len(Graph) + 1) /\ currentChunk \in Nat /\ ec \in {"success", "aborted"}
        /\ 0 \in 0..(Len(Graph) + 1)
    BY <1>1, Lengths DEF Fields
  <2>2. \/ nGraph' = nGraph
        \/ nGraph' \in [count : Nat, n : 0..N]
    BY <1>1, CallerEffect
  <2>3. done' = done \/ done' = {}
    BY <1>1, CallerEffect
  <2>4. /\ abort' = abort \/ abort' = 0
        /\ currentChunk' = currentChunk \/ currentChunk' = 0
        /\ ec' = ec \/ ec' = "success"
    BY <1>1, CallerEffect DEF graphVars
  <2> QED BY <2>1, <2>2, <2>3, <2>4
<1>3. /\ pc' \in [Threads -> Labels] /\ UNCHANGED <<barVars, node, nth, chunk, wdata, last>>
      /\ \A t \in Threads : pc'[t] = pc[t] \/ pc'[t] \in Waiting \cup {"start", "prepared", "idle", "join", "freed"}
  BY <1>1, CallerEffect, ZeroThread DEF Workers
<1>4. Fields'
  BY <1>1, <1>2, <1>3 DEF Fields, Labels, barVars
<1> QED BY <1>3, <1>4 DEF Types, Waiting, barVars

LEMMA TypesStep == ASSUME Types, [Next]_vars PROVE Types'
<1>1. CASE UNCHANGED vars
  BY <1>1 DEF Types, Fields, vars, poolVars, graphVars, barVars, workVars
<1> QED BY <1>1, CallerTypes, WaitTypes, ComputeTypes DEF Next, CallerStep, Freed

-----------------------------------------------------------------------------
(* The barrier.                                                              *)

\* A thread in the graph that the last barrier has not let go.
Inside(t) == pc[t] \in InGraph /\ ~Outside(t)

LEMMA TeamType == ASSUME Fields PROVE Team \subseteq Threads /\ nGraph.n \in Nat
<1>1. nGraph.n \in 0..N
  BY DEF Fields
<1> QED BY <1>1, Lengths DEF Team, Threads

LEMMA InsideTeam ==
  ASSUME Fields, TeamInv, NEW t \in Threads, Inside(t)
  PROVE  /\ InBody /\ t \in Team /\ 0 \in Team /\ nGraph.n > 0
         /\ pc[t] # "start" => nth[t] = nGraph.n
<1>1. InBody
  BY ZeroThread DEF Inside, TeamInv, InBody, Outside, Workers
<1>2. nGraph.n > 0 /\ nGraph.n \in Nat
  BY <1>1, TeamType DEF InBody, TeamInv
<1>3. t \in Team
  BY <1>2, ZeroThread DEF Inside, TeamInv, Workers, Team
<1>4. 0 \in Team
  BY <1>2 DEF Team
<1> QED BY <1>1, <1>2, <1>3, <1>4 DEF TeamInv, Inside

\* Who has arrived is in the team; nobody has when the caller is outside.
LEMMA ArrivedInside ==
  ASSUME NEW t \in Threads, Arrived(t) \/ pc[t] \in {"enter", "arrive", "release"}
  PROVE  Inside(t)
  BY DEF Arrived, Released, Inside, Outside, InGraph, Waiting

LEMMA NobodyInside ==
  ASSUME TeamInv, ~InBody, NEW t \in Threads
  PROVE  ~Inside(t)
<1>1. CASE t = 0
  BY <1>1 DEF InBody, Inside, Outside
<1>2. CASE t \in Workers
  BY <1>2 DEF TeamInv, Inside
<1> QED BY <1>1, <1>2 DEF Workers

LEMMA CountKept ==
  ASSUME BarrierInv, nBarrier' = nBarrier,
         \A t \in Threads : /\ Arrived(t)' <=> Arrived(t)
                            /\ pc'[t] = "release" <=> pc[t] = "release"
  PROVE  (\A t \in Threads : pc'[t] # "release") =>
           nBarrier' = Cardinality({t \in Threads : Arrived(t)'})
<1>1. \A t \in Threads : Arrived(t)' <=> Arrived(t)
  OBVIOUS
<1>2. {t \in Threads : Arrived(t)'} = {t \in Threads : Arrived(t)}
  BY <1>1, Zenon
<1>3. (\A t \in Threads : pc'[t] # "release") => \A t \in Threads : pc[t] # "release"
  OBVIOUS
<1> QED BY <1>2, <1>3 DEF BarrierInv

\* A release is under way only when the others have arrived.
LEMMA NoReleaseYet ==
  ASSUME Fields, TeamInv, BarrierInv, NEW t \in Threads, Inside(t), ~Arrived(t), NEW u \in Threads \ {t}
  PROVE  pc[u] # "release"
  BY InsideTeam DEF BarrierInv

LEMMA BarrierCaller == ASSUME IInv, CallerStep PROVE BarrierInv'
<1>0. Fields /\ TeamInv /\ BarrierInv
  BY DEF IInv, Types
<1>1. ~InBody
  BY <1>0, CallerEffect DEF InBody, InGraph
<1>2. \A t \in Threads : ~Inside(t)
  BY <1>0, <1>1, NobodyInside
<1>3. \A t \in Threads : pc[t] \notin {"enter", "arrive", "release"} /\ ~Arrived(t)
  BY <1>2, ArrivedInside
<1>4. \A t \in Threads : pc'[t] = pc[t] \/ pc'[t] \in Waiting \cup {"start", "prepared", "idle", "join", "freed"}
  BY <1>0, CallerEffect, ZeroThread DEF Workers
<1>5. UNCHANGED <<nPassed, passed, nBarrier>>
  BY <1>0, CallerEffect DEF barVars
<1>6. \A t \in Threads : /\ pc'[t] \notin {"arrive", "release"} /\ ~Arrived(t)'
                         /\ pc'[t] = "spin" => pc[t] = "spin"
  <2> TAKE t \in Threads
  <2>1. CASE pc'[t] = pc[t]
    BY <1>3, <1>5, <2>1 DEF Arrived
  <2>2. CASE pc'[t] \in Waiting \cup {"start", "prepared", "idle", "join", "freed"}
    BY <2>2 DEF Arrived, Waiting
  <2> QED BY <1>4, <2>1, <2>2
<1>7. \A t \in Threads : /\ Arrived(t)' <=> Arrived(t)
                         /\ pc'[t] = "release" <=> pc[t] = "release"
  BY <1>3, <1>6
<1> QED BY <1>0, <1>5, <1>6, <1>7, CountKept DEF BarrierInv

LEMMA BarrierWait ==
  ASSUME IInv, NEW w \in Workers, WaitStep(w) \/ SpuriousWake(w)
  PROVE  BarrierInv'
<1>0. Fields /\ BarrierInv /\ w \in Threads
  BY ZeroThread DEF IInv, Types
<1>1. UNCHANGED <<nPassed, passed, nBarrier, nGraph>>
  BY <1>0, WaitEffect DEF barVars
<1>2. /\ pc[w] \notin {"spin", "arrive", "release"} /\ pc'[w] \notin {"spin", "arrive", "release"}
      /\ \A t \in Threads \ {w} : pc'[t] = pc[t]
  BY <1>0, WaitEffect DEF Fields, Waiting
<1>3. \A t \in Threads : /\ Arrived(t)' <=> Arrived(t)
                         /\ pc'[t] = "release" <=> pc[t] = "release"
  BY <1>1, <1>2 DEF Arrived
<1> QED BY <1>0, <1>1, <1>2, <1>3, CountKept, TeamType DEF BarrierInv, Team

\* A step within the graph that does not touch the barrier.
LEMMA BarrierQuiet ==
  ASSUME IInv, NEW t \in Threads, Local(t), Inside(t), ~Arrived(t),
         pc[t] \notin {"arrive", "release"}, UNCHANGED <<nGraph, nBarrier, nPassed>>,
         pc'[t] \notin {"spin", "release"},
         pc'[t] = "arrive" => passed'[t] = nPassed /\ nGraph.n # 1
  PROVE  BarrierInv'
<1>0. Fields /\ TeamInv /\ BarrierInv
  BY DEF IInv, Types
<1>1. \A u \in Threads \ {t} : Kept(u) /\ (Arrived(u)' <=> Arrived(u)) /\ pc[u] # "release"
  BY <1>0, LocalKeeps, KeptState, NoReleaseYet
<1>2. ~Arrived(t)'
  BY DEF Arrived
<1>3. \A u \in Threads : /\ Arrived(u)' <=> Arrived(u)
                         /\ pc'[u] = "release" <=> pc[u] = "release"
  BY <1>1, <1>2 DEF Kept
<1>4. nGraph.n > 0 /\ nGraph.n \in Nat
  BY <1>0, InsideTeam, TeamType
<1>5. \A u \in Threads :
       /\ pc'[u] = "spin" => passed'[u] <= nPassed
       /\ pc'[u] = "arrive" => passed'[u] = nPassed
       /\ pc'[u] \in {"arrive", "release"} \/ Arrived(u)' => nGraph.n > 1
       /\ pc'[u] # "release"
  <2> TAKE u \in Threads
  <2>1. CASE u = t
    BY <1>2, <1>4, <2>1
  <2>2. CASE u # t
    BY <1>0, <1>1, <2>2 DEF BarrierInv, Kept
  <2> QED BY <2>1, <2>2
<1> QED BY <1>0, <1>3, <1>5, CountKept DEF BarrierInv

\* The last thread to arrive finds the others in the barrier.
LEMMA BarrierArrive ==
  ASSUME IInv, NEW t \in Threads, Arrive(t)
  PROVE  BarrierInv'
<1>0. Fields /\ TeamInv /\ BarrierInv
  BY DEF IInv, Types
<1> DEFINE A == {u \in Threads : Arrived(u)}
<1>1. /\ pc[t] = "arrive" /\ Local(t) /\ passed'[t] = passed[t] /\ ~Arrived(t)
      /\ pc'[t] = IF nBarrier = nGraph.n - 1 THEN "release" ELSE "spin"
      /\ nBarrier' = IF nBarrier = nGraph.n - 1 THEN 0 ELSE nBarrier + 1
      /\ UNCHANGED <<nGraph, nPassed>>
  BY <1>0, ArriveEffect DEF Moves, Arrived
<1>2. /\ Inside(t) /\ passed[t] = nPassed /\ nGraph.n > 1 /\ nGraph.n \in Nat
      /\ Team \subseteq Threads /\ t \in Team /\ nPassed \in Nat /\ nBarrier \in Nat
  BY <1>0, <1>1, ArrivedInside, InsideTeam, TeamType, LocalsType DEF BarrierInv
<1>3. \A u \in Threads \ {t} : Kept(u) /\ (Arrived(u)' <=> Arrived(u)) /\ pc[u] # "release"
  BY <1>0, <1>1, <1>2, LocalKeeps, KeptState, NoReleaseYet
<1>4. A \subseteq Team \ {t}
  BY <1>0, <1>1, ArrivedInside, InsideTeam
<1>5. nBarrier = Cardinality(A)
  BY <1>0, <1>1, <1>3 DEF BarrierInv
<1>6. IsFiniteSet(Team \ {t}) /\ Cardinality(Team \ {t}) = nGraph.n - 1
  <2>1. IsFiniteSet(Team) /\ Cardinality(Team) = nGraph.n
    <3>1. 0 \in Int /\ nGraph.n - 1 \in Int /\ ~(0 > nGraph.n - 1)
      BY <1>2
    <3>2. /\ IsFiniteSet(0..(nGraph.n - 1))
          /\ Cardinality(0..(nGraph.n - 1)) = (nGraph.n - 1) - 0 + 1
      BY <3>1, FS_Interval
    <3> QED BY <1>2, <3>2 DEF Team
  <2> QED BY <1>2, <2>1, FS_RemoveElement
<1>7. CASE nBarrier = nGraph.n - 1
  <2>1. A = Team \ {t}
    BY <1>4, <1>5, <1>6, <1>7, FS_Subset
  <2>2. \A u \in Threads : (pc'[u] = "release" <=> u = t) /\ (u # t => (Arrived(u)' <=> Arrived(u)))
    BY <1>1, <1>3, <1>7 DEF Kept
  <2>3. Team' = Team
    BY <1>1 DEF Team
  <2>4. \A u \in Threads :
       /\ pc'[u] = "spin" => passed'[u] <= nPassed
       /\ pc'[u] = "arrive" => passed'[u] = nPassed
    BY <1>0, <1>1, <1>3, <1>7 DEF BarrierInv, Kept
  <2> QED BY <1>1, <1>2, <1>7, <2>1, <2>2, <2>3, <2>4 DEF BarrierInv
<1>8. CASE nBarrier # nGraph.n - 1
  <2>1. Arrived(t)' /\ pc'[t] = "spin"
    BY <1>1, <1>2, <1>8 DEF Arrived
  <2>2. {u \in Threads : Arrived(u)'} = A \cup {t}
    BY <1>3, <2>1
  <2>3. IsFiniteSet(A) /\ t \notin A
    BY <1>1, <1>4, <1>6, FS_Subset
  <2>4. Cardinality(A \cup {t}) = nBarrier + 1
    BY <1>5, <2>3, FS_AddElement
  <2>5. \A u \in Threads :
       /\ pc'[u] = "spin" => passed'[u] <= nPassed
       /\ pc'[u] = "arrive" => passed'[u] = nPassed
       /\ pc'[u] # "release"
    BY <1>0, <1>1, <1>2, <1>3, <2>1 DEF BarrierInv, Kept
  <2> QED BY <1>1, <1>2, <1>8, <2>2, <2>4, <2>5 DEF BarrierInv
<1> QED BY <1>7, <1>8

\* The barrier opens: nobody is counted any more.
LEMMA BarrierRelease ==
  ASSUME IInv, NEW t \in Threads, Release(t)
  PROVE  BarrierInv'
<1>0. Fields /\ Types /\ TeamInv /\ BarrierInv
  BY DEF IInv, Types
<1>1. /\ pc[t] = "release" /\ Local(t) /\ passed'[t] = passed[t]
      /\ pc'[t] \in {"compute", "after", "node", "idle", "top"}
      /\ nPassed' = nPassed + 1 /\ nBarrier' = nBarrier /\ nGraph' = nGraph
  BY <1>0, ReleaseEffect, LeavesToType DEF Moves
<1>2. /\ nBarrier = 0 /\ \A u \in Team \ {t} : Arrived(u)
      /\ nPassed \in Nat
  BY <1>0, <1>1, LocalsType DEF BarrierInv
<1>3. \A u \in Threads \ {t} : /\ Kept(u) /\ pc[u] \notin {"arrive", "release"}
                               /\ pc[u] = "spin" => passed[u] <= nPassed
                               /\ passed[u] \in Nat
  <2> TAKE u \in Threads \ {t}
  <2>1. pc[u] \notin {"arrive", "release"}
    <3>1. SUFFICES ASSUME pc[u] \in {"arrive", "release"} PROVE FALSE
      OBVIOUS
    <3>2. Inside(u)
      BY <3>1, ArrivedInside
    <3>3. Arrived(u)
      BY <1>0, <1>2, <3>2, InsideTeam
    <3> QED BY <3>1, <3>3 DEF Arrived
  <2> QED BY <1>0, <1>1, <2>1, LocalKeeps, LocalsType DEF BarrierInv
<1>4. \A u \in Threads : /\ ~Arrived(u)' /\ pc'[u] \notin {"arrive", "release"}
                         /\ pc'[u] = "spin" => passed'[u] <= nPassed'
  BY <1>1, <1>2, <1>3 DEF Arrived, Kept
<1>5. {u \in Threads : Arrived(u)'} = {}
  BY <1>4
<1> QED BY <1>1, <1>2, <1>4, <1>5, FS_EmptySet DEF BarrierInv

\* A thread that was let go leaves.
LEMMA BarrierSpin ==
  ASSUME IInv, NEW t \in Threads, Spin(t)
  PROVE  BarrierInv'
<1>0. Fields /\ Types /\ TeamInv /\ BarrierInv
  BY DEF IInv, Types
<1>1. /\ pc[t] = "spin" /\ Local(t) /\ passed[t] # nPassed
      /\ pc'[t] \in {"compute", "after", "node", "idle", "top"}
      /\ nPassed' = nPassed /\ nBarrier' = nBarrier /\ nGraph' = nGraph
  BY <1>0, SpinEffect, LeavesToType DEF Moves, Scalars
<1>2. \A u \in Threads \ {t} : Kept(u) /\ (Arrived(u)' <=> Arrived(u))
  BY <1>0, <1>1, LocalKeeps, KeptState
<1>3. ~Arrived(t) /\ ~Arrived(t)' /\ pc'[t] \notin {"spin", "arrive", "release"}
  BY <1>1 DEF Arrived
<1>4. \A u \in Threads : /\ Arrived(u)' <=> Arrived(u)
                         /\ pc'[u] = "release" <=> pc[u] = "release"
  BY <1>1, <1>2, <1>3 DEF Kept
<1>5. Team' = Team /\ Team \subseteq Threads
  BY <1>0, <1>1, TeamType DEF Team
<1>6. \A u \in Threads :
       /\ pc'[u] = "spin" => passed'[u] <= nPassed
       /\ pc'[u] = "arrive" => passed'[u] = nPassed
       /\ pc'[u] \in {"arrive", "release"} \/ Arrived(u)' => nGraph.n > 1
       /\ pc'[u] = "release" => nBarrier = 0 /\ \A v \in Team \ {u} : Arrived(v)'
  BY <1>0, <1>2, <1>3, <1>4, <1>5 DEF BarrierInv, Kept
<1> QED BY <1>0, <1>1, <1>4, <1>5, <1>6, CountKept DEF BarrierInv

-----------------------------------------------------------------------------
(* Who is in the graph.                                                      *)

\* What the invariant says of one worker.
Member(w) ==
  /\ last[w].count <= nGraph.count
  /\ ~Outside(w) => /\ InBody /\ w \in Team
                    /\ pc[w] \in InGraph /\ last[w] = nGraph
  /\ w \in Team => (last[w] = nGraph <=> ~(InBody /\ Outside(w)))

LEMMA Membership ==
  TeamInv <=> /\ pc[0] \notin Waiting
              /\ pc[0] \in InGraph => nGraph.n > 0
              /\ \A w \in Workers : Member(w)
              /\ \A t \in Threads : ~Outside(t) /\ pc[t] \in InGraph \ {"start"} => nth[t] = nGraph.n
  BY DEF TeamInv, Member

\* A step of a thread that stays in the graph.
LEMMA TeamStays ==
  ASSUME IInv, NEW t \in Threads, Local(t), Inside(t), Inside(t)',
         UNCHANGED <<nGraph, last, nPassed>>, nth'[t] = nGraph.n
  PROVE  TeamInv' /\ InBody' /\ Team' = Team
<1>0. Fields /\ TeamInv
  BY DEF IInv, Types
<1>1. \A u \in Threads \ {t} : Kept(u) /\ Released(u)' = Released(u) /\ Outside(u)' = Outside(u)
  BY <1>0, LocalKeeps, KeptState
<1>2. Team' = Team /\ InBody /\ t \in Team /\ nGraph.n > 0
  BY <1>0, InsideTeam DEF Team
<1>3. InBody'
  <2>1. CASE t = 0
    BY <2>1 DEF InBody, Inside, Outside
  <2>2. CASE t # 0
    BY <1>1, <1>2, <2>2, ZeroThread DEF InBody, Kept
  <2> QED BY <2>1, <2>2
<1>4. \A w \in Workers : Member(w)'
  <2> TAKE w \in Workers
  <2>1. CASE w = t
    <3>1. last[w] = nGraph /\ last[w].count <= nGraph.count
      BY <1>0, <2>1 DEF TeamInv, Inside
    <3> QED BY <1>2, <1>3, <2>1, <3>1 DEF Member, Inside
  <2>2. CASE w # t
    BY <1>0, <1>1, <1>2, <1>3, <2>2, ZeroThread DEF TeamInv, Member, Kept
  <2> QED BY <2>1, <2>2
<1>5. \A u \in Threads : ~Outside(u)' /\ pc'[u] \in InGraph \ {"start"} => nth'[u] = nGraph.n
  BY <1>0, <1>1 DEF TeamInv, Kept
<1>6. pc'[0] \notin Waiting
  <2>1. CASE t = 0
    BY <2>1 DEF Inside, InGraph, Waiting
  <2>2. CASE t # 0
    BY <1>0, <1>1, <2>2, ZeroThread DEF TeamInv, Kept
  <2> QED BY <2>1, <2>2
<1> QED BY <1>2, <1>3, <1>4, <1>5, <1>6 DEF TeamInv, Member

LEMMA TeamCaller ==
  ASSUME IInv, CallerStep
  PROVE  TeamInv' /\ (InBody' => pc[0] = "prepared") /\ \A w \in Workers : Outside(w) /\ Outside(w)'
<1>0. Fields /\ TeamInv
  BY DEF IInv, Types
<1>1. ~InBody
  BY <1>0, CallerEffect DEF InBody, InGraph
<1>2. /\ \A w \in Workers : pc'[w] = pc[w] \/ (pc[w] \in Waiting /\ pc'[w] \in Waiting)
      /\ UNCHANGED <<nPassed, passed, at, nth, last>>
  BY <1>0, CallerEffect DEF barVars
<1>3. \A w \in Workers : Outside(w) /\ Outside(w)' /\ last[w].count <= nGraph.count
  <2> TAKE w \in Workers
  <2>1. Outside(w)
    BY <1>0, <1>1 DEF TeamInv
  <2>2. Outside(w)'
    BY <1>2, <2>1 DEF Outside, Released
  <2> QED BY <1>0, <2>1, <2>2 DEF TeamInv
<1>4. nGraph.count \in Nat /\ \A w \in Workers : last[w].count \in Nat
  BY <1>0, ZeroThread DEF Fields
<1>5. CASE pc[0] = "prepared"
  <2>1. pc'[0] = "start" /\ nGraph'.count = nGraph.count + 1 /\ nGraph'.n \in 1..N
    BY <1>0, <1>5, CallerEffect
  <2>2. InBody' /\ pc'[0] \notin Waiting /\ nGraph'.n > 0
    BY <2>1, Lengths DEF InBody, InGraph, Waiting, Released
  <2>3. \A w \in Workers : last'[w].count <= nGraph'.count /\ last'[w] # nGraph'
    BY <1>2, <1>3, <1>4, <2>1
  <2>4. \A w \in Workers : Member(w)'
    BY <1>3, <2>2, <2>3 DEF Member
  <2>5. \A t \in Threads : ~Outside(t)' /\ pc'[t] \in InGraph \ {"start"} => nth'[t] = nGraph'.n
    BY <1>3, <2>1 DEF Workers
  <2> QED BY <1>3, <1>5, <2>2, <2>4, <2>5 DEF TeamInv, Member
<1>6. CASE pc[0] # "prepared"
  <2>1. pc'[0] \in {"idle", "prepared", "join", "freed"} /\ nGraph' = nGraph
    BY <1>0, <1>6, CallerEffect
  <2>2. ~InBody' /\ pc'[0] \notin Waiting /\ pc'[0] \notin InGraph
    BY <2>1 DEF InBody, InGraph, Waiting
  <2>3. \A w \in Workers : Member(w)'
    <3>1. \A w \in Workers : w \in Team => last[w] = nGraph
      BY <1>0, <1>1 DEF TeamInv
    <3> QED BY <1>2, <1>3, <2>1, <2>2, <3>1 DEF Member, Team
  <2>4. \A t \in Threads : ~Outside(t)' /\ pc'[t] \in InGraph \ {"start"} => nth'[t] = nGraph'.n
    BY <1>3, <2>2 DEF Workers
  <2> QED BY <1>3, <2>2, <2>3, <2>4 DEF TeamInv, Member
<1> QED BY <1>5, <1>6

\* A worker that sees the graph joins it; others go on waiting.
LEMMA TeamWait ==
  ASSUME IInv, NEW w \in Workers, WaitStep(w) \/ SpuriousWake(w)
  PROVE  /\ TeamInv' /\ InBody' = InBody /\ Team' = Team
         /\ Outside(w) /\ (Outside(w)' \/ pc'[w] = "start")
         /\ \A t \in Threads \ {w} : Kept(t)
<1>0. Fields /\ TeamInv /\ w \in Threads /\ w # 0
  BY ZeroThread DEF IInv, Types, Workers
<1>1. /\ pc[w] \in Waiting /\ pc'[w] \in Waiting \cup {"start"}
      /\ pc' = [pc EXCEPT ![w] = pc'[w]] /\ last' = [last EXCEPT ![w] = last'[w]]
      /\ UNCHANGED <<nGraph, nPassed, passed, at, node, nth, wdata>>
  BY <1>0, WaitEffect DEF barVars, workVars
<1>2. \A t \in Threads \ {w} : Kept(t) /\ last'[t] = last[t]
  BY <1>0, <1>1 DEF Fields, Kept
<1>3. \A t \in Threads \ {w} : Released(t)' = Released(t) /\ Outside(t)' = Outside(t)
  BY <1>1, <1>2, KeptState
<1>4. InBody' = InBody /\ Team' = Team
  <2>1. pc'[0] = pc[0] /\ at'[0] = at[0] /\ Released(0)' = Released(0)
    BY <1>0, <1>2, <1>3, ZeroThread DEF Kept
  <2> QED BY <1>1, <2>1 DEF InBody, Team
<1>5. Outside(w) /\ (Outside(w)' <=> pc'[w] \in Waiting)
  BY <1>1 DEF Outside, Released, Waiting
<1>6. Member(w)'
  <2>1. last'[w].count <= nGraph.count
    <3>1. last'[w] = last[w] \/ last'[w] = nGraph
      BY <1>0, WaitEffect
    <3>2. last[w].count <= nGraph.count /\ nGraph.count <= nGraph.count
      BY <1>0 DEF TeamInv, Fields
    <3> QED BY <3>1, <3>2
  <2>2. CASE last'[w] = last[w] /\ pc'[w] \in Waiting
    BY <1>0, <1>1, <1>4, <1>5, <2>1, <2>2 DEF TeamInv, Member
  <2>3. CASE nGraph # last[w] /\ last'[w] = nGraph /\ (pc'[w] = "start" <=> w < nGraph.n)
    <3>1. w \in Team <=> w < nGraph.n
      BY <1>0, ZeroThread, TeamType DEF Team
    <3>2. w \in Team => InBody
      BY <1>0, <2>3 DEF TeamInv
    <3>3. pc'[w] = "start" => pc'[w] \in InGraph /\ pc'[w] \notin Waiting
      BY DEF InGraph, Waiting
    <3> QED BY <1>1, <1>4, <1>5, <2>1, <2>3, <3>1, <3>2, <3>3 DEF Member
  <2> QED BY <1>0, <2>2, <2>3, WaitEffect
<1>7. \A v \in Workers : Member(v)'
  <2> TAKE v \in Workers
  <2>1. CASE v # w
    BY <1>0, <1>1, <1>2, <1>3, <1>4, <2>1, ZeroThread DEF TeamInv, Member, Kept
  <2> QED BY <1>6, <2>1
<1>8. \A t \in Threads : ~Outside(t)' /\ pc'[t] \in InGraph \ {"start"} => nth'[t] = nGraph'.n
  BY <1>0, <1>1, <1>2, <1>3, <1>5 DEF TeamInv, Kept
<1>9. pc'[0] = pc[0]
  BY <1>0, <1>2, ZeroThread DEF Kept
<1> QED BY <1>0, <1>1, <1>2, <1>4, <1>5, <1>7, <1>8, <1>9 DEF TeamInv, Member

\* The barrier opens: t goes first, the others of the team are released.
Opens(t) ==
  /\ pc[t] \in {"enter", "release"} /\ Local(t)
  /\ \A u \in Team \ {t} : Arrived(u) /\ Released(u)'
  /\ \E l, k, c : LeavesTo(t, l, k, c) /\ Moves(t, l, k, c, nth[t], at[t], passed[t], wdata[t])
  /\ nPassed' \in Nat /\ nPassed' >= nPassed
  /\ UNCHANGED <<nGraph, last, abort, currentChunk, ec, done>>

LEMMA ReleaseOpens == ASSUME IInv, NEW t \in Threads, Release(t) PROVE Opens(t)
<1>0. Fields /\ TeamInv /\ BarrierInv
  BY DEF IInv, Types
<1>1. /\ pc[t] = "release" /\ nPassed' = nPassed + 1 /\ nPassed \in Nat
      /\ \E l, k, c : LeavesTo(t, l, k, c) /\ Moves(t, l, k, c, nth[t], at[t], passed[t], wdata[t])
      /\ UNCHANGED <<nGraph, last, abort, currentChunk, ec, done>>
  BY <1>0, ReleaseEffect, LocalsType
<1>2. Local(t)
  BY <1>1 DEF Moves
<1>3. \A u \in Team \ {t} : Arrived(u) /\ Released(u)'
  <2> TAKE u \in Team \ {t}
  <2>1. Arrived(u) /\ u \in Threads \ {t}
    BY <1>0, <1>1, TeamType DEF BarrierInv
  <2>2. Kept(u)
    BY <1>0, <1>2, <2>1, LocalKeeps
  <2> QED BY <1>1, <2>1, <2>2 DEF Arrived, Released, Kept
<1> QED BY <1>1, <1>2, <1>3 DEF Opens

LEMMA EnterOpens == ASSUME IInv, NEW t \in Threads, Enter(t), nGraph.n = 1 PROVE Opens(t)
<1>0. Fields /\ TeamInv
  BY DEF IInv, Types
<1>1. /\ pc[t] = "enter" /\ nPassed' = nPassed /\ nPassed \in Nat
      /\ \E l, k, c : LeavesTo(t, l, k, c) /\ Moves(t, l, k, c, nth[t], at[t], passed[t], wdata[t])
      /\ UNCHANGED <<nGraph, last, abort, currentChunk, ec, done>>
  BY <1>0, EnterEffect, LocalsType DEF Scalars
<1>2. Local(t)
  BY <1>1 DEF Moves
<1>3. Team \ {t} = {}
  BY <1>0, <1>1, ArrivedInside, InsideTeam DEF Team
<1> QED BY <1>1, <1>2, <1>3 DEF Opens

LEMMA OpensPoint ==
  ASSUME IInv, NEW t \in Threads, Opens(t)
  PROVE  /\ Inside(t) /\ InBody /\ t \in Team /\ 0 \in Team /\ Team \subseteq Threads
         /\ nth[t] = nGraph.n /\ nGraph.n \in Nat /\ nGraph.n > 0 /\ Team' = Team
         /\ \A u \in Threads \ {t} : Kept(u) /\ (Outside(u) => Outside(u)')
         /\ at'[t] = at[t] /\ nth'[t] = nth[t] /\ wdata'[t] = wdata[t] /\ passed'[t] = passed[t]
         /\ \/ at[t] = "mid" /\ pc'[t] = "compute" /\ chunk'[t] = t /\ node'[t] = node[t]
            \/ at[t] = "between" /\ pc'[t] = "node" /\ node'[t] = node[t] + 1
            \/ at[t] = "final" /\ pc'[t] = (IF t = 0 THEN "idle" ELSE "top")
<1>0. Fields /\ Types /\ TeamInv /\ BarrierInv
  BY DEF IInv, Types
<1>1. Inside(t) /\ Local(t) /\ Team' = Team /\ pc[t] # "start"
  BY ArrivedInside DEF Opens, Team
<1>2. /\ InBody /\ t \in Team /\ 0 \in Team /\ Team \subseteq Threads
      /\ nth[t] = nGraph.n /\ nGraph.n \in Nat /\ nGraph.n > 0
  BY <1>0, <1>1, InsideTeam, TeamType
<1>3. \A u \in Threads \ {t} : Kept(u) /\ (Outside(u) => Outside(u)')
  <2> TAKE u \in Threads \ {t}
  <2>1. Kept(u) /\ passed[u] \in Nat /\ nPassed \in Nat
    BY <1>0, <1>1, LocalKeeps, LocalsType
  <2>2. Outside(u) => Outside(u)'
    BY <1>0, <2>1 DEF Outside, Released, Kept, BarrierInv, Opens
  <2> QED BY <2>1, <2>2
<1>4. PICK l, k, c : LeavesTo(t, l, k, c) /\ Moves(t, l, k, c, nth[t], at[t], passed[t], wdata[t])
  BY DEF Opens
<1>5. at[t] = "mid" => t < NumChunks(node[t], nth[t])
  <2>1. SUFFICES ASSUME at[t] = "mid" PROVE t < NumChunks(node[t], nth[t])
    OBVIOUS
  <2>2. node[t] \in Nodes /\ nth[t] \in 1..N /\ t \in Nat /\ t < nth[t]
    BY <1>0, <1>2, <2>1, LocalsType DEF Types, Team, Opens
  <2> QED BY <2>2, NodeParts
<1> QED BY <1>1, <1>2, <1>3, <1>4, <1>5 DEF LeavesTo, Moves

LEMMA TeamOpens ==
  ASSUME IInv, NEW t \in Threads, Opens(t), at[t] = "final" => \A u \in Team \ {t} : at[u] = "final",
         at[t] # "final" => \A u \in Team \ {t} : at[u] # "final"
  PROVE  TeamInv' /\ (InBody' <=> at[t] # "final")
<1>0. TeamInv /\ UNCHANGED <<nGraph, last>> /\ \A u \in Team \ {t} : Arrived(u) /\ Released(u)'
  BY DEF IInv, Opens
<1>1. /\ InBody /\ t \in Team /\ 0 \in Team /\ Team \subseteq Threads /\ nGraph.n > 0
      /\ Team' = Team /\ nth'[t] = nGraph.n /\ Inside(t)
      /\ \A u \in Threads \ {t} : Kept(u) /\ (Outside(u) => Outside(u)')
      /\ \/ at[t] # "final" /\ pc'[t] \in {"compute", "node"}
         \/ at[t] = "final" /\ pc'[t] = (IF t = 0 THEN "idle" ELSE "top")
  BY OpensPoint
<1>2. \A u \in Threads : ~Outside(u) => u \in Team
  BY <1>0, <1>1 DEF TeamInv, Workers
<1>3. CASE at[t] = "final"
  <2>1. \A u \in Team \ {t} : Outside(u)' /\ pc'[u] = "spin" /\ at'[u] = "final"
    BY <1>0, <1>1, <1>3 DEF Outside, Kept, Arrived
  <2>2. t # 0 => Outside(t)'
    BY <1>1, <1>3 DEF Outside, Waiting
  <2>3. \A w \in Workers : Outside(w)'
    BY <1>1, <1>2, <2>1, <2>2, ZeroThread DEF Workers
  <2>4. ~InBody' /\ pc'[0] \notin Waiting
    <3>1. CASE t = 0
      BY <1>1, <1>3, <3>1 DEF InBody, InGraph, Waiting
    <3>2. CASE t # 0
      BY <1>0, <1>1, <2>1, <3>2 DEF InBody, Waiting
    <3> QED BY <3>1, <3>2
  <2>5. \A w \in Workers : last[w].count <= nGraph.count /\ (w \in Team => last[w] = nGraph)
    <3> TAKE w \in Workers
    <3>1. w \in Team => ~Outside(w)
      BY <1>0, <1>1 DEF Inside, Outside, Waiting, Arrived, Released
    <3> QED BY <1>0, <3>1 DEF TeamInv
  <2>6. \A u \in Threads : ~Outside(u)' /\ pc'[u] \in InGraph \ {"start"} => nth'[u] = nGraph'.n
    <3> TAKE u \in Threads
    <3>1. CASE u = 0 /\ t = 0
      BY <1>1, <1>3, <3>1 DEF InGraph
    <3>2. CASE u = 0 /\ t # 0
      BY <1>1, <2>1, <3>2
    <3> QED BY <2>3, <3>1, <3>2 DEF Workers
  <2> QED BY <1>0, <1>1, <1>3, <2>3, <2>4, <2>5, <2>6 DEF TeamInv
<1>4. CASE at[t] # "final"
  <2>1. pc'[t] \in InGraph /\ ~Outside(t)'
    BY <1>1, <1>4 DEF Outside, Released, InGraph, Waiting
  <2>2. \A u \in Team \ {t} : ~Outside(u)' /\ pc'[u] = "spin" /\ ~Outside(u) /\ pc'[u] \in InGraph
    BY <1>0, <1>1, <1>4 DEF Outside, Kept, Arrived, Released, Waiting, InGraph
  <2>3. InBody' /\ pc'[0] \notin Waiting
    <3>1. ~Outside(0)' /\ pc'[0] \in InGraph
      BY <1>1, <2>1, <2>2
    <3> QED BY <3>1 DEF InBody, Outside, InGraph, Waiting
  <2>4. \A w \in Workers : Member(w)'
    <3> TAKE w \in Workers
    <3>1. CASE w \in Team
      <4>1. ~Outside(w)' /\ pc'[w] \in InGraph /\ ~Outside(w)
        BY <1>1, <2>1, <2>2, <3>1 DEF Inside
      <4> QED BY <1>0, <1>1, <2>3, <3>1, <4>1 DEF Member, TeamInv
    <3>2. CASE w \notin Team
      <4>1. Outside(w)'
        BY <1>1, <1>2, <3>2, ZeroThread
      <4> QED BY <1>0, <1>1, <3>2, <4>1 DEF Member, TeamInv
    <3> QED BY <3>1, <3>2
  <2>5. \A u \in Threads : ~Outside(u)' /\ pc'[u] \in InGraph \ {"start"} => nth'[u] = nGraph'.n
    <3> TAKE u \in Threads
    <3>1. CASE u \in Team \ {t}
      <4>1. nth[u] = nGraph.n
        BY <1>0, <1>1, <2>2, <3>1 DEF TeamInv, Kept
      <4> QED BY <1>0, <1>1, <3>1, <4>1 DEF Kept
    <3>2. CASE u \notin Team
      BY <1>1, <1>2, <3>2
    <3> QED BY <1>0, <1>1, <3>1, <3>2
  <2> QED BY <1>0, <1>1, <1>4, <2>3, <2>4, <2>5 DEF TeamInv, Member
<1> QED BY <1>3, <1>4

\* A released thread goes on: out of the graph, or to the next thing in it.
LEMMA TeamSpin ==
  ASSUME IInv, NEW t \in Threads, Spin(t)
  PROVE  /\ TeamInv' /\ InBody' = InBody /\ Team' = Team
         /\ Released(t) /\ Local(t) /\ UNCHANGED Scalars
         /\ at'[t] = at[t] /\ nth'[t] = nth[t] /\ wdata'[t] = wdata[t] /\ passed'[t] = passed[t]
         /\ \/ at[t] = "mid" /\ pc'[t] = "compute" /\ chunk'[t] = t /\ node'[t] = node[t]
            \/ at[t] = "between" /\ pc'[t] = "node" /\ node'[t] = node[t] + 1
            \/ at[t] = "final" /\ pc'[t] = (IF t = 0 THEN "idle" ELSE "top")
<1>0. Fields /\ Types /\ TeamInv
  BY DEF IInv, Types
<1>1. pc[t] = "spin" /\ passed[t] # nPassed /\ UNCHANGED Scalars
  BY <1>0, SpinEffect
<1>2. PICK l, k, c : LeavesTo(t, l, k, c) /\ Moves(t, l, k, c, nth[t], at[t], passed[t], wdata[t])
  BY <1>0, SpinEffect
<1>3. Released(t) /\ Local(t) /\ Team' = Team
  BY <1>1, <1>2 DEF Released, Moves, Scalars, Team
<1>4. at[t] # "final" => /\ Inside(t) /\ nth[t] = nGraph.n /\ t \in Team
                         /\ nGraph.n \in 1..N
  <2>1. SUFFICES ASSUME at[t] # "final"
                 PROVE  Inside(t) /\ nth[t] = nGraph.n /\ t \in Team /\ nGraph.n \in 1..N
    OBVIOUS
  <2>2. Inside(t)
    BY <1>1, <2>1 DEF Inside, Outside, InGraph, Waiting
  <2> QED BY <1>0, <1>1, <2>2, InsideTeam, LocalsType
<1>5. at[t] = "mid" => t < NumChunks(node[t], nth[t])
  <2>1. SUFFICES ASSUME at[t] = "mid" PROVE t < NumChunks(node[t], nth[t])
    OBVIOUS
  <2>2. node[t] \in Nodes /\ nth[t] \in 1..N /\ t \in Nat /\ t < nth[t]
    BY <1>0, <1>1, <1>4, <2>1, LocalsType DEF Types, Team
  <2> QED BY <2>2, NodeParts
<1>6. /\ at'[t] = at[t] /\ nth'[t] = nth[t] /\ wdata'[t] = wdata[t] /\ passed'[t] = passed[t]
      /\ \/ at[t] = "mid" /\ pc'[t] = "compute" /\ chunk'[t] = t /\ node'[t] = node[t]
         \/ at[t] = "between" /\ pc'[t] = "node" /\ node'[t] = node[t] + 1
         \/ at[t] = "final" /\ pc'[t] = (IF t = 0 THEN "idle" ELSE "top")
  BY <1>2, <1>5 DEF LeavesTo, Moves
<1>7. CASE at[t] # "final"
  <2>1. Inside(t)'
    BY <1>6, <1>7 DEF Inside, Outside, Released, InGraph, Waiting
  <2>2. TeamInv' /\ InBody'
    BY <1>1, <1>3, <1>4, <1>6, <1>7, <2>1, TeamStays DEF Scalars
  <2>3. InBody
    BY <1>0, <1>4, <1>7, InsideTeam
  <2> QED BY <1>1, <1>3, <1>6, <2>2, <2>3 DEF InBody
<1>8. CASE at[t] = "final"
  <2>1. \A u \in Threads \ {t} : Kept(u) /\ Released(u)' = Released(u) /\ Outside(u)' = Outside(u)
    BY <1>0, <1>1, <1>3, LocalKeeps, KeptState DEF Scalars
  <2>2. InBody' = InBody
    <3>1. CASE t = 0
      BY <1>3, <1>6, <1>8, <3>1 DEF InBody, InGraph
    <3>2. CASE t # 0
      BY <2>1, <3>2, ZeroThread DEF InBody, Kept
    <3> QED BY <3>1, <3>2
  <2>3. t # 0 => Outside(t) /\ Outside(t)'
    BY <1>3, <1>6, <1>8 DEF Outside, Waiting
  <2>4. pc'[0] \notin Waiting /\ (pc'[0] \in InGraph => nGraph.n > 0)
    <3>1. CASE t = 0
      BY <1>6, <1>8, <3>1 DEF InGraph, Waiting
    <3>2. CASE t # 0
      BY <1>0, <2>1, <3>2, ZeroThread DEF TeamInv, Kept
    <3> QED BY <3>1, <3>2
  <2>5. \A w \in Workers : Member(w)'
    <3> TAKE w \in Workers
    <3>1. CASE w = t
      BY <1>0, <1>1, <1>3, <2>2, <2>3, <3>1, ZeroThread DEF TeamInv, Member, Scalars, Workers
    <3>2. CASE w # t
      BY <1>0, <1>1, <1>3, <2>1, <2>2, <3>2, ZeroThread DEF TeamInv, Member, Scalars, Kept
    <3> QED BY <3>1, <3>2
  <2>6. \A u \in Threads : ~Outside(u)' /\ pc'[u] \in InGraph \ {"start"} => nth'[u] = nGraph'.n
    <3> TAKE u \in Threads
    <3>1. CASE u = t
      BY <1>6, <1>8, <2>3, <3>1 DEF InGraph
    <3>2. CASE u # t
      BY <1>0, <1>1, <2>1, <3>2 DEF TeamInv, Kept, Scalars
    <3> QED BY <3>1, <3>2
  <2> QED BY <1>1, <1>3, <1>6, <2>2, <2>4, <2>5, <2>6 DEF TeamInv, Member, Scalars
<1> QED BY <1>7, <1>8

-----------------------------------------------------------------------------
(* The team is in step.                                                      *)

LEMMA FirstKept ==
  ASSUME NEW u \in Threads, Kept(u), nPassed' = nPassed, nGraph' = nGraph,
         NEW k \in 1..(Len(Graph) + 1), First(u, k),
         abort' = abort \/ (abort' = k + 1 /\ k \in Nodes /\ abort # k),
         u = 0 /\ Held(u, "mid") => currentChunk' = currentChunk
  PROVE  First(u, k)'
<1>1. /\ AtHead(u)' <=> AtHead(u)
      /\ Pos(u)' = Pos(u)
      /\ \A who : Held(u, who)' <=> Held(u, who)
      /\ Worked(u, k)' <=> Worked(u, k)
  BY KeptState
<1>2. \A j : Clear(j, k) => Clear(j, k)'
  BY DEF Clear
<1>3. /\ \A o : Running(k, o) => Running(k, o)'
      /\ k \notin Nodes \/ abort = k => k \notin Nodes \/ abort' = k
  BY DEF Running
<1> QED BY <1>1, <1>2, <1>3 DEF First, Kept

\* A thread that is held by a barrier: where it came from.
LEMMA HeldFirst ==
  ASSUME NEW u \in Threads, pc[u] \in {"enter", "arrive", "release"} \/ Arrived(u),
         NEW k, First(u, k)
  PROVE  /\ node[u] = k
         /\ \/ at[u] = "mid" /\ Running(k, "mul_mat") /\ wdata[u] = k /\ (u = 0 => currentChunk = nGraph.n)
            \/ at[u] = "between" /\ Running(k, "plain") /\ k < Len(Graph) /\ Worked(u, k)
            \/ at[u] = "final" /\ Running(k, "plain") /\ k = Len(Graph) /\ Worked(u, k)
            \/ at[u] = "final" /\ (k \notin Nodes \/ abort = k)
<1>1. ~AtHead(u) /\ pc[u] \notin {"quantize", "compute", "claim", "after"}
  BY DEF AtHead, Outside, Arrived, Released, Waiting
<1> QED BY <1>1 DEF First, Worked, Held

LEMMA HeldSecond ==
  ASSUME NEW u \in Threads, pc[u] \in {"enter", "arrive", "release"} \/ Arrived(u),
         NEW k, Second(u, k)
  PROVE  /\ node[u] = k
         /\ \/ at[u] = "between" /\ k < Len(Graph)
            \/ at[u] = "final" /\ k = Len(Graph)
<1>1. ~Released(u) /\ pc[u] \notin {"quantize", "compute", "claim", "after"}
  BY DEF Arrived, Released
<1> QED BY <1>1 DEF Second, Worked, Held

\* A thread on its way to a node is not in it.
LEMMA HeadOnly ==
  ASSUME NEW u \in Threads, NEW k, AtHead(u)
  PROVE  /\ ~Second(u, k) /\ ~Worked(u, k) /\ (First(u, k) <=> Pos(u) <= k /\ Clear(Pos(u), k))
<1>1. /\ \A who : ~Held(u, who)
      /\ pc[u] \notin {"quantize", "compute", "claim", "after"}
      /\ ~(Released(u) /\ at[u] = "mid")
  BY DEF AtHead, Outside, Held, Arrived, Released, Waiting
<1> QED BY <1>1 DEF Second, Worked, First

\* The data when no thread of the team begins or ends a part.
LEMMA FirstDoneKept ==
  ASSUME NEW k, FirstDone(k), UNCHANGED <<nGraph, done>>,
         Finished(k)' = Finished(k),
         \A u \in Team : pc'[u] # "claim" /\ (pc'[u] = "compute" => chunk'[u] = u)
  PROVE  FirstDone(k)'
  BY DEF FirstDone, Before, Team

LEMMA SecondDoneKept ==
  ASSUME NEW k, SecondDone(k), UNCHANGED <<nGraph, done, currentChunk>>,
         \A u \in Team : Portion(u, k)' /\ chunk'[u] = chunk[u]
                           /\ (pc'[u] = "compute" <=> pc[u] = "compute")
  PROVE  SecondDone(k)'
  BY DEF SecondDone, Before, Team

LEMMA PortionKept ==
  ASSUME NEW u \in Threads, Kept(u), chunk'[u] = chunk[u], NEW k, Portion(u, k),
         UNCHANGED <<nPassed, nGraph, done, currentChunk>>
  PROVE  Portion(u, k)'
<1>1. Released(u)' <=> Released(u)
  BY KeptState
<1> QED BY <1>1 DEF Portion, Kept

\* A thread outside, now or after a step, is on its way to the first node.
LEMMA OutsideHead ==
  ASSUME NEW t \in Threads
  PROVE  /\ Outside(t) => AtHead(t) /\ Pos(t) = 1 /\ pc[t] \notin {"claim", "compute"}
         /\ Outside(t)' => AtHead(t)' /\ Pos(t)' = 1 /\ pc'[t] \notin {"claim", "compute"}
<1>1. ASSUME Outside(t) PROVE AtHead(t) /\ Pos(t) = 1 /\ pc[t] \notin {"claim", "compute"}
  <2>1. CASE pc[t] \in Waiting
    BY <1>1, <2>1 DEF AtHead, Pos, Waiting
  <2>2. CASE Released(t) /\ at[t] = "final"
    BY <1>1, <2>2 DEF AtHead, Pos, Released
  <2> QED BY <1>1, <2>1, <2>2 DEF Outside
<1>2. ASSUME Outside(t)' PROVE AtHead(t)' /\ Pos(t)' = 1 /\ pc'[t] \notin {"claim", "compute"}
  <2>1. CASE pc'[t] \in Waiting
    BY <1>2, <2>1 DEF AtHead, Pos, Waiting
  <2>2. CASE Released(t)' /\ at'[t] = "final"
    BY <1>2, <2>2 DEF AtHead, Pos, Released
  <2> QED BY <1>2, <2>1, <2>2 DEF Outside
<1> QED BY <1>1, <1>2

\* A thread on its way to a node is not in it, nor after the step.
LEMMA HeadNotWorked ==
  ASSUME NEW u \in Threads, NEW k
  PROVE  /\ AtHead(u) => ~Worked(u, k)
         /\ AtHead(u)' => ~Worked(u, k)'
<1>1. ASSUME AtHead(u), Worked(u, k) PROVE FALSE
  BY <1>1 DEF AtHead, Worked, Outside, Held, Arrived, Released, Waiting
<1>2. ASSUME AtHead(u)', Worked(u, k)' PROVE FALSE
  BY <1>2 DEF AtHead, Worked, Outside, Held, Arrived, Released, Waiting
<1> QED BY <1>1, <1>2

LEMMA StepCaller == ASSUME IInv, CallerStep PROVE Lockstep' /\ ResultInv'
<1>0. Fields /\ TeamInv /\ ResultInv
  BY DEF IInv, Types
<1>1. /\ InBody' => pc[0] = "prepared"
      /\ \A w \in Workers : Outside(w) /\ Outside(w)'
  BY TeamCaller
<1>2. CASE pc[0] = "prepared"
  <2>1. /\ pc'[0] = "start" /\ done' = {} /\ UNCHANGED graphVars
    BY <1>0, <1>2, CallerEffect
  <2>2. \A t \in Threads : AtHead(t)' /\ Pos(t)' = 1 /\ pc'[t] \notin {"claim", "compute"}
    <3> TAKE t \in Threads
    <3>1. CASE t = 0
      BY <2>1, <3>1 DEF AtHead, Pos
    <3>2. CASE t # 0
      BY <1>1, <3>2, OutsideHead DEF Workers
    <3> QED BY <3>1, <3>2
  <2>3. Team' \subseteq Threads
    BY <1>0, <1>2, CallerEffect, Lengths DEF Team, Threads
  <2>4. FirstHalf(1)'
    <3>1. \A t \in Threads : Clear(Pos(t), 1)' /\ Pos(t)' <= 1
      BY <2>2 DEF Clear
    <3>2. \A t \in Threads : First(t, 1)'
      BY <2>2, <3>1 DEF First
    <3> QED BY <2>3, <3>2 DEF FirstHalf
  <2>5. Finished(1)' = {}
    BY <2>2, <2>3, HeadNotWorked DEF Finished
  <2>6. FirstDone(1)'
    BY <2>1, <2>2, <2>3, <2>5, NothingPrior DEF FirstDone, Before
  <2>7. Lockstep'
    BY <2>4, <2>6, Lengths DEF Lockstep, InFirst
  <2>8. ResultInv'
    BY <1>0, <1>2, <2>1, Lengths DEF ResultInv, graphVars, InBody, Released
  <2> QED BY <2>7, <2>8
<1>3. CASE pc[0] # "prepared"
  <2>1. Lockstep'
    BY <1>1, <1>3 DEF Lockstep
  <2>2. \/ pc'[0] = "prepared" /\ abort' = 0 /\ ec' = "success"
        \/ pc'[0] \in {"idle", "join", "freed"} /\ UNCHANGED <<abort, ec>>
    BY <1>0, <1>3, CallerEffect DEF graphVars
  <2>3. ResultInv'
    BY <1>0, <2>2, Lengths DEF ResultInv, InGraph
  <2> QED BY <2>1, <2>3
<1> QED BY <1>2, <1>3

\* A worker outside stays there, or begins the graph.
LEMMA OutsideOn ==
  ASSUME IInv, NEW w \in Workers, InBody' = InBody, Team' = Team, Outside(w),
         Outside(w)' \/ pc'[w] = "start", \A t \in Threads \ {w} : Kept(t),
         \A t \in Threads \ {w} : chunk'[t] = chunk[t],
         UNCHANGED <<nGraph, abort, currentChunk, nPassed, done>>
  PROVE  Lockstep'
<1>0. Fields /\ TeamInv /\ Lockstep /\ w \in Threads /\ w # 0
  BY ZeroThread DEF IInv, Types, Workers
<1>1. /\ InBody' = InBody /\ Team' = Team /\ Outside(w) /\ (Outside(w)' \/ pc'[w] = "start")
      /\ \A t \in Threads \ {w} : Kept(t)
  OBVIOUS
<1>2. /\ UNCHANGED <<nGraph, abort, currentChunk, nPassed, done>>
      /\ \A t \in Threads \ {w} : chunk'[t] = chunk[t]
  OBVIOUS
<1>3. /\ AtHead(w) /\ AtHead(w)' /\ Pos(w) = 1 /\ Pos(w)' = 1
      /\ pc[w] \notin {"claim", "compute"} /\ pc'[w] \notin {"claim", "compute"}
  <2>1. CASE Outside(w)'
    BY <1>0, <1>1, <2>1, OutsideHead
  <2>2. CASE pc'[w] = "start"
    BY <1>0, <1>1, <2>2, OutsideHead DEF AtHead, Pos
  <2> QED BY <1>1, <2>1, <2>2
<1>4. Team \subseteq Threads
  BY <1>0, TeamType
<1>5. ASSUME NEW k \in 1..(Len(Graph) + 1), InFirst(k) PROVE InFirst(k)'
  <2>1. \A u \in Team : First(u, k)'
    <3> TAKE u \in Team
    <3>1. CASE u = w
      <4>1. Pos(w) <= k /\ Clear(Pos(w), k)
        BY <1>3, <1>5, <3>1, HeadOnly, <1>4 DEF InFirst, FirstHalf
      <4> QED BY <1>2, <1>3, <3>1, <4>1 DEF First, Clear
    <3>2. CASE u # w
      BY <1>1, <1>2, <1>4, <1>5, <3>2, FirstKept DEF InFirst, FirstHalf
    <3> QED BY <3>1, <3>2
  <2>2. ~Worked(w, k) /\ ~Worked(w, k)'
    BY <1>3 DEF Worked, Held, AtHead, Outside, Arrived, Released, Waiting
  <2>3. Finished(k)' = Finished(k)
    <3>1. \A u \in Team : Worked(u, k)' /\ pc'[u] # "compute" <=> Worked(u, k) /\ pc[u] # "compute"
      BY <1>1, <1>2, <1>4, <2>2, KeptState DEF Kept
    <3>2. Running(k, "plain")' <=> Running(k, "plain")
      BY <1>2 DEF Running
    <3> QED BY <1>1, <3>1, <3>2 DEF Finished
  <2>4. FirstDone(k)'
    BY <1>1, <1>2, <1>3, <1>4, <1>5, <2>3, FirstDoneKept DEF InFirst, FirstDone, Kept
  <2> QED BY <1>1, <2>1, <2>4 DEF InFirst, FirstHalf
<1>6. ASSUME NEW k \in 1..(Len(Graph) + 1), InSecond(k) PROVE InSecond(k)'
  <2>1. w \notin Team
    BY <1>3, <1>4, <1>6, HeadOnly DEF InSecond, SecondHalf
  <2>2. \A u \in Team : Kept(u) /\ u \in Threads /\ chunk'[u] = chunk[u]
    BY <1>1, <1>2, <1>4, <2>1
  <2>3. \A u \in Team : (Second(u, k)' <=> Second(u, k)) /\ wdata'[u] = wdata[u]
    BY <1>2, <2>2, KeptState DEF Kept
  <2>4. SecondHalf(k)'
    BY <1>1, <1>2, <1>6, <2>3 DEF InSecond, SecondHalf, Running
  <2>5. SecondDone(k)'
    <3>1. \A u \in Team : Portion(u, k)'
      BY <1>2, <1>6, <2>2, PortionKept DEF InSecond, SecondDone
    <3> QED BY <1>2, <1>6, <2>2, <3>1, SecondDoneKept DEF InSecond, Kept
  <2> QED BY <2>4, <2>5 DEF InSecond
<1> QED BY <1>0, <1>1, <1>5, <1>6 DEF Lockstep

LEMMA StepWait ==
  ASSUME IInv, NEW w \in Workers, WaitStep(w) \/ SpuriousWake(w)
  PROVE  Lockstep' /\ ResultInv'
<1>0. Fields /\ ResultInv /\ w \in Threads /\ w # 0
  BY ZeroThread DEF IInv, Types, Workers
<1>1. /\ InBody' = InBody /\ Team' = Team /\ Outside(w) /\ (Outside(w)' \/ pc'[w] = "start")
      /\ \A t \in Threads \ {w} : Kept(t)
  BY TeamWait
<1>2. UNCHANGED <<nGraph, abort, currentChunk, ec, nPassed, chunk, done>>
  BY <1>0, WaitEffect DEF graphVars, barVars, workVars
<1>3. Lockstep'
  BY <1>1, <1>2, OutsideOn
<1>4. pc'[0] = pc[0]
  BY <1>0, <1>1, ZeroThread DEF Kept
<1> QED BY <1>0, <1>1, <1>2, <1>3, <1>4 DEF ResultInv, Computed, Before

\* What a step in the graph leaves alone when it does not touch the barrier.
Quiet(t) ==
  /\ Local(t) /\ Inside(t) /\ ~Arrived(t) /\ pc[t] \notin {"arrive", "release"}
  /\ UNCHANGED <<nGraph, last, nBarrier, nPassed>>
  /\ pc'[t] \in {"node", "quantize", "compute", "claim", "after", "enter", "arrive"}
  /\ pc'[t] = "arrive" => passed'[t] = nPassed /\ nGraph.n # 1
  /\ nth'[t] = nGraph.n
  /\ (abort' = abort /\ ec' = ec) \/ ec' = "aborted"

\* The others of the team during a step of t.
Others(t) ==
  /\ InBody /\ InBody' /\ Team' = Team /\ Team \subseteq Threads /\ t \in Team /\ 0 \in Team
  /\ nGraph.n \in 1..N /\ UNCHANGED <<nGraph, nPassed>>
  /\ \A u \in Team \ {t} : Kept(u) /\ chunk'[u] = chunk[u]

LEMMA InBodyResult ==
  ASSUME ResultInv, InBody', (abort' = abort /\ ec' = ec) \/ ec' = "aborted"
  PROVE  ResultInv'
  BY DEF ResultInv, InBody, InGraph

LEMMA QuietStep ==
  ASSUME IInv, NEW t \in Threads, Quiet(t)
  PROVE  BarrierInv' /\ TeamInv' /\ ResultInv' /\ Others(t)
<1>0. Fields /\ TeamInv /\ ResultInv
  BY DEF IInv, Types
<1>1. Inside(t)'
  BY DEF Quiet, Inside, Outside, Released, InGraph, Waiting
<1>2. BarrierInv'
  BY BarrierQuiet DEF Quiet
<1>3. TeamInv' /\ InBody' /\ Team' = Team
  BY <1>1, TeamStays DEF Quiet
<1>4. ResultInv'
  BY <1>0, <1>3, InBodyResult DEF Quiet
<1>5. /\ InBody /\ t \in Team /\ 0 \in Team /\ Team \subseteq Threads /\ nGraph.n \in 1..N
      /\ \A u \in Team \ {t} : Kept(u) /\ chunk'[u] = chunk[u]
  BY <1>0, InsideTeam, TeamType, LocalKeeps, LocalsType DEF Quiet
<1> QED BY <1>2, <1>3, <1>4, <1>5 DEF Quiet, Others

LEMMA FirstOthers ==
  ASSUME NEW t \in Threads, Others(t), NEW k \in 1..(Len(Graph) + 1), InFirst(k),
         abort' = abort \/ (abort' = k + 1 /\ k \in Nodes /\ abort # k),
         currentChunk' = currentChunk \/ t = 0, First(t, k)'
  PROVE  FirstHalf(k)'
<1>1. \A u \in Team \ {t} : First(u, k)'
  BY FirstKept DEF Others, InFirst, FirstHalf
<1> QED BY <1>1 DEF Others, FirstHalf

LEMMA SecondOthers ==
  ASSUME NEW t \in Threads, Others(t), NEW k \in 1..(Len(Graph) + 1), InSecond(k),
         abort' = abort \/ (abort' = k + 1 /\ abort # k), Second(t, k)', wdata'[t] = k
  PROVE  SecondHalf(k)'
<1>1. \A u \in Team \ {t} : Second(u, k)' /\ wdata'[u] = k
  BY KeptState DEF Others, InSecond, SecondHalf, Kept
<1>2. Running(k, "mul_mat")'
  BY DEF InSecond, SecondHalf, Running
<1> QED BY <1>1, <1>2 DEF Others, SecondHalf

LEMMA FinishedOthers ==
  ASSUME NEW t \in Threads, Others(t), NEW k \in 1..(Len(Graph) + 1),
         Running(k, "plain")' <=> Running(k, "plain")
  PROVE  Finished(k)' \ {t} = Finished(k) \ {t}
<1>1. \A u \in Team \ {t} : (Worked(u, k)' <=> Worked(u, k)) /\ pc'[u] = pc[u]
  BY KeptState DEF Others, Kept
<1> QED BY <1>1 DEF Finished, Others

\* A step that leaves the data alone.
LEMMA FirstSame ==
  ASSUME NEW t \in Threads, Others(t), NEW k \in 1..(Len(Graph) + 1), InFirst(k),
         abort' = abort \/ (abort' = k + 1 /\ k \in Nodes /\ abort # k),
         currentChunk' = currentChunk \/ t = 0, First(t, k)', done' = done,
         t \in Finished(k)' <=> t \in Finished(k),
         pc'[t] # "claim", pc'[t] = "compute" => chunk'[t] = t
  PROVE  InFirst(k)'
<1>1. FirstHalf(k)'
  BY FirstOthers
<1>2. Running(k, "plain")' <=> Running(k, "plain")
  BY DEF Running
<1>3. Finished(k)' = Finished(k)
  BY <1>2, FinishedOthers
<1>4. FirstDone(k)'
  BY <1>3, FirstDoneKept DEF InFirst, FirstDone, Others, Kept
<1> QED BY <1>1, <1>4 DEF InFirst

LEMMA SecondSame ==
  ASSUME NEW t \in Threads, Others(t), NEW k \in 1..(Len(Graph) + 1), InSecond(k),
         abort' = abort \/ (abort' = k + 1 /\ abort # k), Second(t, k)', wdata'[t] = wdata[t],
         UNCHANGED <<currentChunk, done>>,
         pc[t] \notin {"compute", "claim"} /\ pc'[t] \notin {"compute", "claim"},
         ~Released(t) /\ ~Released(t)'
  PROVE  InSecond(k)'
<1>1. SecondHalf(k)'
  BY SecondOthers DEF InSecond, SecondHalf, Others
<1>2. \A u \in Team \ {t} : Portion(u, k)'
  BY PortionKept DEF Others, InSecond, SecondDone
<1>3. Portion(t, k)'
  BY DEF Others, InSecond, SecondDone, Portion
<1>4. \A c \in nGraph.n..(currentChunk - 1) :
        c < NumChunks(k, nGraph.n) =>
          <<k, c>> \in done \/ \E u \in Team : pc'[u] = "compute" /\ chunk'[u] = c
  BY DEF Others, InSecond, SecondDone, Kept
<1>5. \A u, v \in Team : pc'[u] = "compute" /\ pc'[v] = "compute" /\ chunk'[u] = chunk'[v] => u = v
  BY DEF Others, InSecond, SecondDone, Kept
<1>6. SecondDone(k)'
  BY <1>2, <1>3, <1>4, <1>5 DEF SecondDone, Before, Others, InSecond
<1> QED BY <1>1, <1>6 DEF InSecond

\* The steps that stay on their side of a barrier and touch no data.
LEMMA LockstepKept ==
  ASSUME IInv, NEW t \in Threads, Others(t),
         \A k \in 1..(Len(Graph) + 1) : (InFirst(k) => Lockstep') /\ (InSecond(k) => Lockstep')
  PROVE  Lockstep'
  BY DEF IInv, Lockstep, Others

LEMMA StepStart ==
  ASSUME IInv, NEW t \in Threads, Start(t)
  PROVE  BarrierInv' /\ TeamInv' /\ Lockstep' /\ ResultInv'
<1>1. /\ pc[t] = "start" /\ UNCHANGED Scalars
      /\ Moves(t, "node", 1, chunk[t], nGraph.n, at[t], passed[t], wdata[t])
  BY StartEffect DEF IInv, Types
<1>2. AtHead(t) /\ AtHead(t)' /\ Pos(t) = 1 /\ Pos(t)' = 1
  BY <1>1 DEF AtHead, Pos, Moves
<1>3. Quiet(t)
  BY <1>1 DEF Quiet, Moves, Scalars, Inside, Outside, Arrived, Released, InGraph, Waiting
<1>4. BarrierInv' /\ TeamInv' /\ ResultInv' /\ Others(t)
  BY <1>3, QuietStep
<1>5. ASSUME NEW k \in 1..(Len(Graph) + 1), InFirst(k) PROVE Lockstep'
  <2>1. First(t, k)'
    <3>1. Pos(t) <= k /\ Clear(Pos(t), k)
      BY <1>2, <1>4, <1>5, HeadOnly DEF InFirst, FirstHalf, Others
    <3> QED BY <1>1, <1>2, <3>1 DEF First, Clear, Scalars
  <2>2. InFirst(k)'
    BY <1>1, <1>2, <1>4, <1>5, <2>1, FirstSame, HeadNotWorked DEF Scalars, Finished, Moves
  <2> QED BY <2>2 DEF Lockstep
<1>6. ASSUME NEW k \in 1..(Len(Graph) + 1), InSecond(k) PROVE Lockstep'
  BY <1>2, <1>4, <1>6, HeadOnly DEF InSecond, SecondHalf, Others
<1> QED BY <1>4, <1>5, <1>6, LockstepKept

\* At the head of the node loop: the whole team may pass a node over.
LEMMA StepNextNode ==
  ASSUME IInv, NEW t \in Threads, NextNode(t)
  PROVE  BarrierInv' /\ TeamInv' /\ Lockstep' /\ ResultInv'
<1>0. Fields /\ TeamInv
  BY DEF IInv, Types
<1>1. /\ pc[t] = "node" /\ UNCHANGED Scalars /\ AtHead(t) /\ Pos(t) = node[t]
      /\ node[t] \in 1..(Len(Graph) + 1) /\ Inside(t)
  BY <1>0, NextNodeEffect, LocalsType DEF AtHead, Pos, Inside, Outside, Released, InGraph, Waiting
<1>2. nth[t] = nGraph.n
  BY <1>0, <1>1, InsideTeam
<1>3. Quiet(t)
  BY <1>0, <1>1, <1>2, NextNodeEffect DEF Quiet, Moves, Scalars, Arrived
<1>4. BarrierInv' /\ TeamInv' /\ ResultInv' /\ Others(t)
  BY <1>3, QuietStep
<1>5. ASSUME NEW k \in 1..(Len(Graph) + 1), InFirst(k) PROVE Lockstep'
  <2>1. node[t] <= k /\ Clear(node[t], k)
    BY <1>1, <1>4, <1>5, HeadOnly DEF InFirst, FirstHalf, Others
  <2>2. node[t] # k => node[t] \in Nodes /\ Graph[node[t]].op = "nop" /\ abort # node[t]
    BY <1>1, <2>1, Lengths DEF Clear
  <2>3. t \notin Finished(k) /\ ~Released(t)'
    BY <1>1, <1>3, HeadNotWorked DEF Finished, Released, Quiet
  <2>4. CASE node[t] \notin Nodes \/ abort = node[t]
    <3>1. /\ node'[t] = k /\ pc'[t] = "enter" /\ at'[t] = "final"
          /\ k \notin Nodes \/ abort = k
      BY <1>0, <2>2, <2>4, NextNodeEffect DEF Moves
    <3>2. First(t, k)'
      BY <1>1, <3>1 DEF First, Held, Scalars
    <3>3. t \notin Finished(k)'
      BY <1>1, <3>1 DEF Finished, Running, Scalars
    <3> QED BY <1>1, <1>4, <1>5, <2>3, <3>1, <3>2, <3>3, FirstSame DEF Lockstep, Scalars
  <2>5. CASE node[t] \in Nodes /\ abort # node[t] /\ Graph[node[t]].op = "nop"
    <3>1. pc'[t] = "node" /\ node'[t] = node[t] + 1 /\ AtHead(t)' /\ Pos(t)' = node[t] + 1
      BY <1>0, <2>5, NextNodeEffect DEF Moves, AtHead, Pos
    <3>2. ~Worked(t, k)' /\ ~Worked(t, k + 1)'
      BY <3>1, HeadNotWorked
    <3>3. CASE node[t] # k
      <4>1. node[t] + 1 <= k
        BY <1>1, <2>1, <3>3
      <4>2. Clear(Pos(t), k)'
        BY <1>1, <2>1, <3>1 DEF Clear, Scalars
      <4>3. First(t, k)'
        BY <3>1, <4>1, <4>2 DEF First
      <4> QED BY <1>1, <1>4, <1>5, <2>3, <3>1, <3>2, <4>3, FirstSame DEF Lockstep, Finished, Scalars
    <3>4. CASE node[t] = k
      <4>0. k \in Nodes /\ k + 1 \in 1..(Len(Graph) + 1) /\ abort # k /\ Graph[k].op = "nop"
        BY <2>5, <3>4, Lengths
      <4>1. \A u \in Team : AtHead(u) /\ Pos(u) <= k /\ Clear(Pos(u), k)
        BY <1>5, <4>0 DEF InFirst, FirstHalf, First, Running
      <4>2. \A u \in Team \ {t} : AtHead(u)' /\ Pos(u)' = Pos(u)
        BY <1>1, <1>4, <4>1, KeptState DEF Others, Scalars
      <4>3. \A u \in Team : First(u, k + 1)'
        <5> TAKE u \in Team
        <5>1. CASE u = t
          <6>1. Pos(u)' <= k + 1 /\ Clear(Pos(u), k + 1)'
            BY <3>1, <3>4, <5>1 DEF Clear
          <6> QED BY <3>1, <5>1, <6>1 DEF First
        <5>2. CASE u # t
          <6>1. Pos(u)' <= k + 1
            <7>1. Pos(u) \in Int
              BY <1>0, <1>4, LocalsType DEF Pos, Others
            <7> QED BY <4>1, <4>2, <5>2, <7>1
          <6>2. Clear(Pos(u), k + 1)'
            <7>1. Pos(u) \in Int
              BY <1>0, <1>4, LocalsType DEF Pos, Others
            <7>2. \A i \in Pos(u)..((k + 1) - 1) : i = k \/ i \in Pos(u)..(k - 1)
              BY <7>1
            <7> QED BY <1>1, <4>0, <4>1, <4>2, <5>2, <7>2 DEF Clear, Scalars
          <6> QED BY <4>2, <5>2, <6>1, <6>2 DEF First
        <5> QED BY <5>1, <5>2
      <4>4. FirstHalf(k + 1)'
        BY <1>4, <4>3 DEF FirstHalf, Others
      <4>5. Finished(k) = {} /\ Finished(k + 1)' = {}
        <5>1. \A u \in Team : AtHead(u)' /\ u \in Threads
          BY <1>4, <3>1, <4>2 DEF Others
        <5> QED BY <1>4, <4>1, <5>1, HeadNotWorked DEF Finished, Others
      <4>6. Before(k + 1)' = Before(k)
        <5>1. PartsOf(k, nGraph.n) = {} /\ nGraph' = nGraph
          BY <1>1, <4>0 DEF PartsOf, Scalars
        <5>2. Prior(k + 1, nGraph.n) = Prior(k, nGraph.n)
          <6>1. \A k1 : {<<k1, c>> : c \in {}} = {}
            OBVIOUS
          <6>2. Prior(k + 1, nGraph.n) = Prior(k, nGraph.n) \cup {<<k, c>> : c \in PartsOf(k, nGraph.n)}
            BY <4>0, PriorNext
          <6> QED BY <5>1, <6>1, <6>2
        <5> QED BY <5>1, <5>2 DEF Before
      <4>7. FirstDone(k + 1)'
        BY <1>1, <1>4, <1>5, <3>1, <4>5, <4>6 DEF InFirst, FirstDone, Others, Kept, Scalars
      <4> QED BY <4>0, <4>4, <4>7 DEF Lockstep, InFirst
    <3> QED BY <3>3, <3>4
  <2>6. CASE node[t] \in Nodes /\ abort # node[t] /\ Graph[node[t]].op = "plain"
    <3>1. /\ node'[t] = k /\ pc'[t] = "compute" /\ chunk'[t] = t /\ node[t] = k
      BY <1>0, <2>2, <2>6, NextNodeEffect DEF Moves
    <3>2. First(t, k)'
      BY <1>1, <2>6, <3>1 DEF First, Worked, Running, Scalars
    <3>3. t \notin Finished(k)'
      BY <3>1 DEF Finished
    <3> QED BY <1>1, <1>4, <1>5, <2>3, <3>1, <3>2, <3>3, FirstSame DEF Lockstep, Scalars
  <2>7. CASE node[t] \in Nodes /\ abort # node[t] /\ Graph[node[t]].op = "mul_mat"
    <3>1. /\ node'[t] = k /\ pc'[t] = "quantize" /\ node[t] = k
      BY <1>0, <2>2, <2>7, NextNodeEffect DEF Moves
    <3>2. First(t, k)'
      BY <1>1, <2>7, <3>1 DEF First, Running, Scalars
    <3>3. t \notin Finished(k)'
      BY <1>1, <2>7, <3>1 DEF Finished, Running, Scalars
    <3> QED BY <1>1, <1>4, <1>5, <2>3, <3>1, <3>2, <3>3, FirstSame DEF Lockstep, Scalars
  <2> QED BY <2>4, <2>5, <2>6, <2>7, Ops
<1>6. ASSUME NEW k \in 1..(Len(Graph) + 1), InSecond(k) PROVE Lockstep'
  BY <1>1, <1>4, <1>6, HeadOnly DEF InSecond, SecondHalf, Others
<1> QED BY <1>4, <1>5, <1>6, LockstepKept

LEMMA StepQuantize ==
  ASSUME IInv, NEW t \in Threads, Quantize(t)
  PROVE  BarrierInv' /\ TeamInv' /\ Lockstep' /\ ResultInv'
<1>0. Fields /\ TeamInv
  BY DEF IInv, Types
<1>1. /\ pc[t] = "quantize"
      /\ Moves(t, "enter", node[t], chunk[t], nth[t], "mid", passed[t], node[t])
      /\ currentChunk' = (IF t = 0 THEN nth[t] ELSE currentChunk)
      /\ UNCHANGED <<nGraph, last, abort, ec, nBarrier, nPassed, done>>
  BY <1>0, QuantizeEffect
<1>2. Inside(t) /\ nth[t] = nGraph.n
  <2>1. Inside(t)
    BY <1>1 DEF Inside, Outside, Released, InGraph, Waiting
  <2> QED BY <1>0, <1>1, <2>1, InsideTeam
<1>3. Quiet(t)
  BY <1>1, <1>2 DEF Quiet, Moves, Arrived
<1>4. BarrierInv' /\ TeamInv' /\ ResultInv' /\ Others(t)
  BY <1>3, QuietStep
<1>5. ASSUME NEW k \in 1..(Len(Graph) + 1), InFirst(k) PROVE Lockstep'
  <2>1. node[t] = k /\ Running(k, "mul_mat")
    <3>1. First(t, k)
      BY <1>4, <1>5 DEF InFirst, FirstHalf, Others
    <3> QED BY <1>1, <3>1 DEF First, AtHead, Outside, Released, Held, Arrived, Worked, Waiting
  <2>2. First(t, k)'
    BY <1>1, <1>2, <2>1 DEF First, Held, Moves, Running
  <2>3. t \notin Finished(k) /\ t \notin Finished(k)'
    BY <1>1, <2>1 DEF Finished, Running
  <2>4. /\ currentChunk' = currentChunk \/ t = 0
        /\ pc'[t] = "enter" /\ done' = done /\ abort' = abort
    BY <1>1 DEF Moves
  <2>5. InFirst(k)'
    BY <1>4, <1>5, <2>2, <2>3, <2>4, FirstSame
  <2> QED BY <2>5 DEF Lockstep
<1>6. ASSUME NEW k \in 1..(Len(Graph) + 1), InSecond(k) PROVE Lockstep'
  BY <1>1, <1>4, <1>6 DEF InSecond, SecondHalf, Others, Second, Worked, Held, Arrived, Released
<1> QED BY <1>4, <1>5, <1>6, LockstepKept

\* After a node: the caller may set abort to the next one.
LEMMA StepAfterNode ==
  ASSUME IInv, NEW t \in Threads, AfterNode(t)
  PROVE  BarrierInv' /\ TeamInv' /\ Lockstep' /\ ResultInv'
<1>0. Fields /\ TeamInv
  BY DEF IInv, Types
<1>1. /\ pc[t] = "after"
      /\ Moves(t, "enter", node[t], chunk[t], nth[t],
               IF node[t] < Len(Graph) THEN "between" ELSE "final", passed[t], wdata[t])
      /\ \/ UNCHANGED <<abort, ec>>
         \/ abort' = node[t] + 1 /\ ec' = "aborted"
      /\ UNCHANGED <<nGraph, last, currentChunk, nBarrier, nPassed, done>>
  BY <1>0, AfterNodeEffect
<1>2. Inside(t) /\ nth[t] = nGraph.n
  <2>1. Inside(t)
    BY <1>1 DEF Inside, Outside, Released, InGraph, Waiting
  <2> QED BY <1>0, <1>1, <2>1, InsideTeam
<1>3. Quiet(t) /\ ~Released(t) /\ ~Released(t)' /\ pc'[t] = "enter"
  BY <1>1, <1>2 DEF Quiet, Moves, Arrived, Released
<1>4. BarrierInv' /\ TeamInv' /\ ResultInv' /\ Others(t)
  BY <1>3, QuietStep
<1>5. node[t] \in Nodes
  BY <1>1 DEF IInv, Types
<1>6. ASSUME NEW k \in 1..(Len(Graph) + 1), Worked(t, k), abort # k
      PROVE  /\ k \in Nodes /\ Worked(t, k)'
             /\ abort' = abort \/ abort' = k + 1
  <2>1. node[t] = k
    BY <1>6 DEF Worked
  <2>2. Worked(t, k)'
    BY <1>1, <1>5, <2>1, Lengths DEF Worked, Held, Moves
  <2> QED BY <1>1, <1>5, <2>1, <2>2
<1>7. ASSUME NEW k \in 1..(Len(Graph) + 1), InFirst(k) PROVE Lockstep'
  <2>1. Worked(t, k) /\ Running(k, "plain")
    <3>1. First(t, k)
      BY <1>4, <1>7 DEF InFirst, FirstHalf, Others
    <3> QED BY <1>1, <3>1 DEF First, AtHead, Outside, Released, Held, Arrived, Waiting
  <2>2. /\ k \in Nodes /\ abort # k /\ Worked(t, k)'
        /\ abort' = abort \/ abort' = k + 1
    BY <1>6, <2>1 DEF Running
  <2>3. First(t, k)' /\ Running(k, "plain")'
    BY <2>1, <2>2 DEF First, Running
  <2>4. t \in Finished(k) /\ t \in Finished(k)'
    BY <1>1, <1>3, <1>4, <2>1, <2>2, <2>3 DEF Finished, Others
  <2>5. InFirst(k)'
    BY <1>1, <1>3, <1>4, <1>7, <2>2, <2>3, <2>4, FirstSame
  <2> QED BY <2>5 DEF Lockstep
<1>8. ASSUME NEW k \in 1..(Len(Graph) + 1), InSecond(k) PROVE Lockstep'
  <2>1. Worked(t, k) /\ abort # k
    BY <1>1, <1>4, <1>8 DEF InSecond, SecondHalf, Others, Second, Released, Running
  <2>2. (abort' = abort \/ abort' = k + 1) /\ Second(t, k)'
    BY <1>6, <2>1 DEF Second
  <2>3. InSecond(k)'
    BY <1>1, <1>3, <1>4, <1>8, <2>1, <2>2, SecondSame DEF Moves
  <2> QED BY <2>3 DEF Lockstep
<1> QED BY <1>4, <1>7, <1>8, LockstepKept

\* A part ends: it is the thread's own, or one it had claimed.
LEMMA StepEndPart ==
  ASSUME IInv, NEW t \in Threads, EndPart(t)
  PROVE  BarrierInv' /\ TeamInv' /\ Lockstep' /\ ResultInv'
<1>0. Fields /\ TeamInv
  BY DEF IInv, Types
<1>1. /\ pc[t] = "compute"
      /\ Moves(t, IF nth[t] >= NumChunks(node[t], nth[t]) THEN "after" ELSE "claim",
               node[t], chunk[t], nth[t], at[t], passed[t], wdata[t])
      /\ done' = done \cup {<<node[t], chunk[t]>>}
      /\ UNCHANGED <<nGraph, last, abort, currentChunk, ec, nBarrier, nPassed>>
  BY <1>0, EndPartEffect
<1>2. Inside(t) /\ nth[t] = nGraph.n
  <2>1. Inside(t)
    BY <1>1 DEF Inside, Outside, Released, InGraph, Waiting
  <2> QED BY <1>0, <1>1, <2>1, InsideTeam
<1>3. Quiet(t) /\ ~Released(t) /\ ~Released(t)' /\ pc'[t] \in {"after", "claim"}
  BY <1>1, <1>2 DEF Quiet, Moves, Arrived, Released
<1>4. BarrierInv' /\ TeamInv' /\ ResultInv' /\ Others(t)
  BY <1>3, QuietStep
<1>5. node[t] \in Nodes
  BY <1>1 DEF IInv, Types
<1>6. ASSUME NEW k \in 1..(Len(Graph) + 1), InFirst(k) PROVE Lockstep'
  <2>1. First(t, k) /\ t \in Team /\ FirstDone(k)
    BY <1>4, <1>6 DEF InFirst, FirstHalf, Others
  <2>2. Running(k, "plain") /\ Worked(t, k) /\ node[t] = k
    BY <1>1, <2>1 DEF First, AtHead, Outside, Released, Held, Arrived, Waiting, Worked
  <2>3. pc'[t] = "after" /\ chunk[t] = t
    <3>1. NumChunks(k, nGraph.n) = nGraph.n
      BY <1>4, <2>2, NodeParts DEF Running, Others
    <3>2. nGraph.n >= nGraph.n
      BY <1>4 DEF Others
    <3> QED BY <1>1, <1>2, <2>1, <2>2, <3>1, <3>2 DEF Moves, FirstDone
  <2>4. Running(k, "plain")' /\ Worked(t, k)' /\ First(t, k)'
    BY <1>1, <2>2, <2>3 DEF Running, Worked, First, Moves
  <2>5. FirstHalf(k)'
    BY <1>1, <1>4, <1>6, <2>4, FirstOthers
  <2>6. Finished(k)' = Finished(k) \cup {t}
    <3>1. Finished(k)' \ {t} = Finished(k) \ {t}
      BY <1>4, <2>2, <2>4, FinishedOthers
    <3>2. t \in Finished(k)'
      BY <1>4, <2>1, <2>3, <2>4 DEF Finished, Others
    <3>3. t \notin Finished(k)
      BY <1>1 DEF Finished
    <3> QED BY <3>1, <3>2, <3>3
  <2>7. done' = Before(k)' \cup {<<k, u>> : u \in Finished(k)'}
    <3>1. Before(k)' = Before(k)
      BY <1>1 DEF Before
    <3> QED BY <1>1, <2>1, <2>2, <2>3, <2>6, <3>1 DEF FirstDone
  <2>8. FirstDone(k)'
    BY <1>4, <2>1, <2>3, <2>7 DEF FirstDone, Others, Kept
  <2> QED BY <2>5, <2>8 DEF Lockstep, InFirst
<1>7. ASSUME NEW k \in 1..(Len(Graph) + 1), InSecond(k) PROVE Lockstep'
  <2>1. /\ Second(t, k) /\ t \in Team /\ wdata[t] = k /\ SecondDone(k) /\ Running(k, "mul_mat")
    BY <1>4, <1>7 DEF InSecond, SecondHalf, Others
  <2>2. Worked(t, k) /\ node[t] = k /\ k \in Nodes
    BY <1>1, <2>1 DEF Second, Released, Worked, Running
  <2>3. Second(t, k)' /\ wdata'[t] = k
    BY <1>1, <1>3, <2>1, <2>2 DEF Second, Worked, Moves
  <2>4. SecondHalf(k)'
    BY <1>1, <1>4, <1>7, <2>3, SecondOthers
  <2> DEFINE n == nGraph.n
             c0 == chunk[t]
  <2>5. /\ n \in Nat /\ \A u \in Team : u \in Nat /\ u < n
        /\ NumChunks(k, n) \in Nat /\ currentChunk \in Nat
    BY <1>0, <1>4, <2>2, NodeParts, LocalsType, ZeroThread DEF Others, Team
  <2>6. /\ c0 \in PartsOf(k, n) /\ <<k, c0>> \notin done
        /\ c0 = t \/ c0 \in n..(currentChunk - 1)
        /\ c0 # t => <<k, t>> \in done
        /\ c0 < currentChunk
        /\ \A u \in Team \ {t} : c0 # u
    BY <1>1, <1>3, <2>1, <2>5 DEF SecondDone, Portion
  <2>7. done' = done \cup {<<k, c0>>} /\ Before(k)' = Before(k)
    BY <1>1, <2>2 DEF Before
  <2>8. \A p \in done' \ Before(k) : \E c \in PartsOf(k, n) : p = <<k, c>> /\ c < currentChunk
    BY <2>1, <2>6, <2>7 DEF SecondDone
  <2>9. \A u \in Team \ {t} : Portion(u, k)'
    <3> TAKE u \in Team \ {t}
    <3>1. /\ Released(u)' <=> Released(u)
          /\ Kept(u) /\ chunk'[u] = chunk[u]
      BY <1>4, KeptState DEF Others
    <3>2. pc[u] = "compute" => chunk[u] # c0
      BY <1>1, <2>1 DEF SecondDone
    <3>3. /\ <<k, u>> \in done' <=> <<k, u>> \in done
          /\ pc[u] = "compute" => (<<k, chunk[u]>> \in done' <=> <<k, chunk[u]>> \in done)
      BY <2>6, <2>7, <3>2
    <3>4. Portion(u, k)
      BY <2>1 DEF SecondDone
    <3> QED BY <1>1, <3>1, <3>3, <3>4 DEF Portion, Kept
  <2>10. Portion(t, k)'
    <3>1. <<k, t>> \in done'
      BY <2>6, <2>7
    <3>2. pc'[t] = "claim" => NumChunks(k, n) > n
      BY <1>1, <1>2, <2>2, <2>5 DEF Moves
    <3>3. pc'[t] = "after" => NumChunks(k, n) <= n
      BY <1>1, <1>2, <2>2, <2>5 DEF Moves
    <3> QED BY <1>1, <1>3, <3>1, <3>2, <3>3 DEF Portion
  <2>11. \A u, v \in Team : pc'[u] = "compute" /\ pc'[v] = "compute" /\ chunk'[u] = chunk'[v] => u = v
    BY <1>3, <1>4, <2>1 DEF Others, Kept, SecondDone
  <2>12. \A c \in n..(currentChunk - 1) :
           c < NumChunks(k, n) => <<k, c>> \in done' \/ \E u \in Team : pc'[u] = "compute" /\ chunk'[u] = c
    BY <1>4, <2>1, <2>7 DEF Others, Kept, SecondDone
  <2>13. SecondDone(k)'
    BY <1>1, <1>4, <2>1, <2>7, <2>8, <2>9, <2>10, <2>11, <2>12 DEF SecondDone, Others
  <2> QED BY <2>4, <2>13 DEF Lockstep, InSecond
<1> QED BY <1>4, <1>6, <1>7, LockstepKept

\* A thread claims the next chunk, if there is one.
LEMMA StepClaim ==
  ASSUME IInv, NEW t \in Threads, Claim(t)
  PROVE  BarrierInv' /\ TeamInv' /\ Lockstep' /\ ResultInv'
<1>0. Fields /\ TeamInv
  BY DEF IInv, Types
<1>1. /\ pc[t] = "claim"
      /\ Moves(t, IF currentChunk < NumChunks(node[t], nth[t]) THEN "compute" ELSE "after",
               node[t], currentChunk, nth[t], at[t], passed[t], wdata[t])
      /\ currentChunk' = currentChunk + 1
      /\ UNCHANGED <<nGraph, last, abort, ec, nBarrier, nPassed, done>>
  BY <1>0, ClaimEffect
<1>2. Inside(t) /\ nth[t] = nGraph.n
  <2>1. Inside(t)
    BY <1>1 DEF Inside, Outside, Released, InGraph, Waiting
  <2> QED BY <1>0, <1>1, <2>1, InsideTeam
<1>3. Quiet(t) /\ ~Released(t) /\ ~Released(t)' /\ pc'[t] \in {"after", "compute"}
  BY <1>1, <1>2 DEF Quiet, Moves, Arrived, Released
<1>4. BarrierInv' /\ TeamInv' /\ ResultInv' /\ Others(t)
  BY <1>3, QuietStep
<1>5. ASSUME NEW k \in 1..(Len(Graph) + 1), InFirst(k) PROVE Lockstep'
  BY <1>1, <1>4, <1>5 DEF InFirst, FirstDone, Others
<1>6. ASSUME NEW k \in 1..(Len(Graph) + 1), InSecond(k) PROVE Lockstep'
  <2>1. /\ Second(t, k) /\ t \in Team /\ wdata[t] = k /\ SecondDone(k) /\ Running(k, "mul_mat")
    BY <1>4, <1>6 DEF InSecond, SecondHalf, Others
  <2>2. Worked(t, k) /\ node[t] = k /\ k \in Nodes
    BY <1>1, <2>1 DEF Second, Released, Worked, Running
  <2>3. Second(t, k)' /\ wdata'[t] = k
    BY <1>1, <1>3, <2>1, <2>2 DEF Second, Worked, Moves
  <2>4. SecondHalf(k)'
    BY <1>1, <1>4, <1>6, <2>3, SecondOthers
  <2> DEFINE n == nGraph.n
             c0 == currentChunk
  <2>5. /\ n \in Nat /\ \A u \in Team : u \in Nat /\ u < n
        /\ NumChunks(k, n) \in Nat /\ c0 \in Nat /\ c0 >= n
    BY <1>0, <1>4, <2>1, <2>2, NodeParts, LocalsType, ZeroThread DEF Others, Team, SecondDone
  <2>6. /\ c0 < NumChunks(k, n) => c0 \in PartsOf(k, n)
        /\ <<k, c0>> \notin done
    <3>1. <<k, c0>> \notin Before(k)
      BY <2>2, PriorNext DEF Before
    <3>2. c0 < NumChunks(k, n) => c0 \in PartsOf(k, n)
      BY <2>1, <2>5 DEF PartsOf, Running
    <3> QED BY <2>1, <2>5, <3>1, <3>2 DEF SecondDone
  <2>7. /\ chunk'[t] = c0
        /\ pc'[t] = (IF c0 < NumChunks(k, n) THEN "compute" ELSE "after")
    BY <1>1, <1>2, <2>2 DEF Moves
  <2>8. \A u \in Team : pc[u] = "compute" => chunk[u] < c0 /\ chunk[u] \in Nat
    <3> TAKE u \in Team
    <3>1. pc[u] = "compute" => chunk[u] = u \/ chunk[u] \in n..(c0 - 1)
      BY <2>1 DEF SecondDone, Portion
    <3>2. u \in Nat /\ u < c0
      BY <2>5
    <3> QED BY <2>5, <3>1, <3>2
  <2>9. \A u \in Team \ {t} : Portion(u, k)'
    <3> TAKE u \in Team \ {t}
    <3>1. /\ Released(u)' <=> Released(u)
          /\ Kept(u) /\ chunk'[u] = chunk[u]
      BY <1>4, KeptState DEF Others
    <3>2. Portion(u, k)
      BY <2>1 DEF SecondDone
    <3>3. /\ NumChunks(k, n) <= c0 => NumChunks(k, n) <= c0 + 1
          /\ \A c : c \in n..(c0 - 1) => c \in n..((c0 + 1) - 1)
      BY <2>5
    <3> QED BY <1>1, <3>1, <3>2, <3>3 DEF Portion, Kept
  <2>10. Portion(t, k)'
    <3>1. <<k, t>> \in done'
      BY <1>1, <1>3, <2>1 DEF SecondDone, Portion
    <3>2. c0 \in n..((c0 + 1) - 1)
      BY <2>5
    <3>3. pc'[t] = "after" => NumChunks(k, n) <= c0 + 1
      BY <2>5, <2>7
    <3> QED BY <1>1, <1>3, <2>6, <2>7, <3>1, <3>2, <3>3 DEF Portion
  <2>11. \A u, v \in Team : pc'[u] = "compute" /\ pc'[v] = "compute" /\ chunk'[u] = chunk'[v] => u = v
    BY <1>4, <2>1, <2>5, <2>7, <2>8 DEF Others, Kept, SecondDone
  <2>12. \A c \in n..((c0 + 1) - 1) :
           c < NumChunks(k, n) => <<k, c>> \in done' \/ \E u \in Team : pc'[u] = "compute" /\ chunk'[u] = c
    <3> TAKE c \in n..((c0 + 1) - 1)
    <3>1. CASE c = c0
      BY <2>1, <2>7, <3>1
    <3>2. CASE c # c0
      <4>1. c \in n..(c0 - 1)
        BY <2>5, <3>2
      <4> QED BY <1>1, <1>4, <2>1, <4>1 DEF Others, Kept, SecondDone
    <3> QED BY <3>1, <3>2
  <2>13. \A p \in done \ Before(k) : \E c \in PartsOf(k, n) : p = <<k, c>> /\ c < c0 + 1
    <3> TAKE p \in done \ Before(k)
    <3>1. PICK c \in PartsOf(k, n) : p = <<k, c>> /\ c < c0
      BY <2>1 DEF SecondDone
    <3>2. c < c0 + 1
      BY <2>5, <3>1 DEF PartsOf
    <3> QED BY <3>1, <3>2
  <2>14. SecondDone(k)'
    BY <1>1, <1>4, <2>1, <2>5, <2>9, <2>10, <2>11, <2>12, <2>13 DEF SecondDone, Others, Before
  <2> QED BY <2>4, <2>14 DEF Lockstep, InSecond
<1> QED BY <1>4, <1>5, <1>6, LockstepKept

\* A thread held by a barrier that stays held.
LEMMA HeldOn ==
  ASSUME IInv, NEW t \in Threads, Others(t), pc[t] \in {"enter", "arrive"},
         pc'[t] \in {"arrive", "release"} \/ Arrived(t)',
         at'[t] = at[t], node'[t] = node[t], wdata'[t] = wdata[t],
         UNCHANGED <<abort, currentChunk, done>>
  PROVE  Lockstep'
<1>1. /\ pc'[t] \in {"arrive", "release", "spin"} /\ ~Released(t) /\ ~Released(t)'
      /\ \A who : at[t] = who => Held(t, who)'
  BY DEF Arrived, Released, Held
<1>2. ASSUME NEW k \in 1..(Len(Graph) + 1), Worked(t, k) PROVE Worked(t, k)'
  BY <1>1, <1>2 DEF Worked, Held
<1>3. ASSUME NEW k \in 1..(Len(Graph) + 1), InFirst(k) PROVE Lockstep'
  <2>1. First(t, k) /\ t \in Team
    BY <1>3 DEF InFirst, FirstHalf, Others
  <2>2. First(t, k)'
    BY <1>1, <1>2, <2>1, HeldFirst DEF First, Running, Others
  <2>3. Running(k, "plain")' <=> Running(k, "plain")
    BY DEF Running
  <2>4. t \in Finished(k)' <=> t \in Finished(k)
    <3>1. CASE Running(k, "plain")
      <4>1. Worked(t, k) /\ Worked(t, k)'
        <5>1. Worked(t, k)
          BY <2>1, <3>1, HeldFirst DEF Running, Worked, Held
        <5> QED BY <1>2, <5>1
      <4> QED BY <1>1, <2>1, <2>3, <3>1, <4>1 DEF Finished, Others
    <3>2. CASE ~Running(k, "plain")
      BY <2>3, <3>2 DEF Finished
    <3> QED BY <3>1, <3>2
  <2>5. InFirst(k)'
    BY <1>1, <1>3, <2>2, <2>4, FirstSame
  <2> QED BY <2>5 DEF Lockstep
<1>4. ASSUME NEW k \in 1..(Len(Graph) + 1), InSecond(k) PROVE Lockstep'
  <2>1. Second(t, k)
    BY <1>4 DEF InSecond, SecondHalf, Others
  <2>2. Second(t, k)'
    BY <1>1, <1>2, <2>1 DEF Second
  <2>3. InSecond(k)'
    BY <1>1, <1>4, <2>2, SecondSame
  <2> QED BY <2>3 DEF Lockstep
<1> QED BY <1>3, <1>4, LockstepKept

LEMMA StepEnterArrive ==
  ASSUME IInv, NEW t \in Threads, Enter(t), nGraph.n # 1
  PROVE  BarrierInv' /\ TeamInv' /\ Lockstep' /\ ResultInv'
<1>0. Fields /\ TeamInv
  BY DEF IInv, Types
<1>1. /\ pc[t] = "enter" /\ UNCHANGED Scalars
      /\ Moves(t, "arrive", node[t], chunk[t], nth[t], at[t], nPassed, wdata[t])
  BY <1>0, EnterEffect
<1>2. Inside(t) /\ nth[t] = nGraph.n
  BY <1>0, <1>1, ArrivedInside, InsideTeam
<1>3. Quiet(t)
  BY <1>1, <1>2 DEF Quiet, Moves, Arrived, Scalars
<1>4. BarrierInv' /\ TeamInv' /\ ResultInv' /\ Others(t)
  BY <1>3, QuietStep
<1>5. Lockstep'
  BY <1>1, <1>4, HeldOn DEF Moves, Scalars
<1> QED BY <1>4, <1>5

LEMMA StepArrive ==
  ASSUME IInv, NEW t \in Threads, Arrive(t)
  PROVE  BarrierInv' /\ TeamInv' /\ Lockstep' /\ ResultInv'
<1>0. Fields /\ TeamInv /\ BarrierInv /\ ResultInv
  BY DEF IInv, Types
<1>1. /\ pc[t] = "arrive" /\ UNCHANGED <<nGraph, last, abort, currentChunk, ec, nPassed, done>>
      /\ Moves(t, IF nBarrier = nGraph.n - 1 THEN "release" ELSE "spin",
               node[t], chunk[t], nth[t], at[t], passed[t], wdata[t])
  BY <1>0, ArriveEffect
<1>2. /\ Inside(t) /\ nth[t] = nGraph.n /\ passed[t] = nPassed
      /\ t \in Team /\ 0 \in Team /\ InBody
  BY <1>0, <1>1, ArrivedInside, InsideTeam DEF BarrierInv
<1>3. /\ pc'[t] = "release" \/ Arrived(t)'
      /\ Inside(t)'
  BY <1>1, <1>2 DEF Moves, Arrived, Inside, Outside, Released, InGraph, Waiting
<1>4. TeamInv' /\ InBody' /\ Team' = Team
  BY <1>1, <1>2, <1>3, TeamStays DEF Moves
<1>5. Others(t)
  BY <1>0, <1>1, <1>2, <1>4, LocalKeeps, TeamType, LocalsType, InsideTeam DEF Others, Moves
<1>6. Lockstep'
  BY <1>1, <1>3, <1>5, HeldOn DEF Moves
<1> QED BY <1>0, <1>1, <1>4, <1>6, BarrierArrive, InBodyResult

\* A thread that was let go leaves: into the second half, to the next node, or
\* out of the graph.
LEMMA StepSpin ==
  ASSUME IInv, NEW t \in Threads, Spin(t)
  PROVE  BarrierInv' /\ TeamInv' /\ Lockstep' /\ ResultInv'
<1>0. Fields /\ TeamInv /\ ResultInv /\ Lockstep
  BY DEF IInv, Types
<1>1. /\ TeamInv' /\ InBody' = InBody /\ Team' = Team
      /\ Released(t) /\ Local(t) /\ UNCHANGED Scalars
      /\ at'[t] = at[t] /\ nth'[t] = nth[t] /\ wdata'[t] = wdata[t] /\ passed'[t] = passed[t]
      /\ \/ at[t] = "mid" /\ pc'[t] = "compute" /\ chunk'[t] = t /\ node'[t] = node[t]
         \/ at[t] = "between" /\ pc'[t] = "node" /\ node'[t] = node[t] + 1
         \/ at[t] = "final" /\ pc'[t] = (IF t = 0 THEN "idle" ELSE "top")
  BY TeamSpin
<1>2. /\ pc[t] = "spin" /\ ~Arrived(t) /\ ~Released(t)'
      /\ Team \subseteq Threads
      /\ \A u \in Threads \ {t} : Kept(u) /\ chunk'[u] = chunk[u]
  BY <1>0, <1>1, LocalKeeps, TeamType DEF Released, Arrived
<1>3. ResultInv'
  <2>1. pc'[0] \in InGraph => pc[0] \in InGraph
    <3>1. CASE t = 0
      BY <1>2, <3>1 DEF InGraph
    <3>2. CASE t # 0
      BY <1>2, <3>2, ZeroThread DEF Kept
    <3> QED BY <3>1, <3>2
  <2>2. pc'[0] = "prepared" => pc[0] = "prepared"
    <3>1. CASE t = 0
      BY <1>1, <3>1
    <3>2. CASE t # 0
      BY <1>2, <3>2, ZeroThread DEF Kept
    <3> QED BY <3>1, <3>2
  <2> QED BY <1>0, <1>1, <2>1, <2>2 DEF ResultInv, Computed, Before, Scalars
<1>4. ASSUME at[t] = "mid" PROVE Lockstep'
  <2>1. pc'[t] = "compute" /\ chunk'[t] = t /\ node'[t] = node[t]
    BY <1>1, <1>4
  <2>2. Inside(t)
    BY <1>2, <1>4 DEF Inside, Outside, InGraph, Waiting
  <2>3. Others(t)
    BY <1>0, <1>1, <1>2, <2>2, InsideTeam, LocalsType DEF Others, Scalars
  <2>4. ASSUME NEW k \in 1..(Len(Graph) + 1), InFirst(k) PROVE Lockstep'
    <3>1. First(t, k)
      BY <2>3, <2>4 DEF InFirst, FirstHalf, Others
    <3> QED BY <1>2, <1>4, <3>1 DEF First, AtHead, Outside, Held, Worked, Waiting
  <2>5. ASSUME NEW k \in 1..(Len(Graph) + 1), InSecond(k) PROVE Lockstep'
    <3>1. Second(t, k) /\ t \in Team /\ wdata[t] = k /\ SecondDone(k) /\ Running(k, "mul_mat")
      BY <2>3, <2>5 DEF InSecond, SecondHalf, Others
    <3>2. node[t] = k /\ k \in Nodes
      BY <3>1 DEF Second, Worked, Running
    <3>3. Second(t, k)'
      BY <2>1, <3>2 DEF Second, Worked
    <3>4. SecondHalf(k)'
      BY <1>1, <2>3, <2>5, <3>1, <3>3, SecondOthers DEF Scalars
    <3> DEFINE n == nGraph.n
    <3>5. n \in 1..N /\ t \in Nat /\ t < n /\ t \in PartsOf(k, n)
      BY <2>3, <3>1, <3>2, NodeParts, ZeroThread DEF Others, Team, PartsOf, Running
    <3>6. \A u \in Team \ {t} : Portion(u, k)'
      BY <1>1, <2>3, <3>1, PortionKept DEF Others, SecondDone, Scalars
    <3>7. Portion(t, k)'
      <4>1. <<k, t>> \notin done
        BY <1>1, <3>1 DEF SecondDone, Portion
      <4> QED BY <1>1, <1>2, <2>1, <3>5, <4>1 DEF Portion, Scalars
    <3>8. \A u \in Team \ {t} : pc[u] = "compute" => chunk[u] # t
      <4> TAKE u \in Team \ {t}
      <4>1. pc[u] = "compute" => chunk[u] = u \/ chunk[u] \in n..(currentChunk - 1)
        BY <3>1 DEF SecondDone, Portion
      <4>2. t \notin n..(currentChunk - 1)
        BY <3>5
      <4> QED BY <4>1, <4>2
    <3>9. \A u, v \in Team : pc'[u] = "compute" /\ pc'[v] = "compute" /\ chunk'[u] = chunk'[v] => u = v
      BY <2>1, <2>3, <3>1, <3>8 DEF Others, Kept, SecondDone
    <3>10. \A c \in n..(currentChunk - 1) :
             c < NumChunks(k, n) => <<k, c>> \in done \/ \E u \in Team : pc'[u] = "compute" /\ chunk'[u] = c
      BY <1>2, <2>3, <3>1 DEF Others, Kept, SecondDone
    <3>11. SecondDone(k)'
      BY <1>1, <3>1, <3>6, <3>7, <3>9, <3>10 DEF SecondDone, Scalars, Before
    <3> QED BY <3>4, <3>11 DEF Lockstep, InSecond
  <2> QED BY <2>3, <2>4, <2>5, LockstepKept
<1>5. ASSUME at[t] = "between" PROVE Lockstep'
  <2>1. pc'[t] = "node" /\ node'[t] = node[t] + 1
    BY <1>1, <1>5
  <2>2. Inside(t)
    BY <1>2, <1>5 DEF Inside, Outside, InGraph, Waiting
  <2>3. Others(t)
    BY <1>0, <1>1, <1>2, <2>2, InsideTeam, LocalsType DEF Others, Scalars
  <2>4. AtHead(t) /\ AtHead(t)' /\ Pos(t)' = Pos(t)
    BY <1>1, <1>2, <1>5, <2>1 DEF AtHead, Pos
  <2>5. ASSUME NEW k \in 1..(Len(Graph) + 1), InFirst(k) PROVE Lockstep'
    <3>1. First(t, k)'
      <4>1. Pos(t) <= k /\ Clear(Pos(t), k)
        BY <2>3, <2>4, <2>5, HeadOnly DEF InFirst, FirstHalf, Others
      <4> QED BY <1>1, <2>4, <4>1 DEF First, Clear, Scalars
    <3>2. InFirst(k)'
      BY <1>1, <2>1, <2>3, <2>4, <2>5, <3>1, FirstSame, HeadNotWorked DEF Scalars, Finished
    <3> QED BY <3>2 DEF Lockstep
  <2>6. ASSUME NEW k \in 1..(Len(Graph) + 1), InSecond(k) PROVE Lockstep'
    BY <2>3, <2>4, <2>6, HeadOnly DEF InSecond, SecondHalf, Others
  <2> QED BY <2>3, <2>5, <2>6, LockstepKept
<1>6. ASSUME at[t] = "final" PROVE Lockstep'
  <2>1. ASSUME t = 0 PROVE Lockstep'
    BY <1>1, <1>6, <2>1 DEF Lockstep, InBody
  <2>2. ASSUME t # 0 PROVE Lockstep'
    <3>1. t \in Workers /\ Outside(t) /\ Outside(t)'
      BY <1>1, <1>6, <2>2 DEF Workers, Outside, Waiting
    <3>2. UNCHANGED <<nGraph, abort, currentChunk, nPassed, done>>
      BY <1>1 DEF Scalars
    <3> QED BY <1>1, <1>2, <3>1, <3>2, OutsideOn
  <2> QED BY <2>1, <2>2
<1> QED BY <1>1, <1>3, <1>4, <1>5, <1>6, BarrierSpin DEF Fields

\* The barrier is about to open: t goes first and the others are waiting for it.
Closed(t) == /\ Team \subseteq Threads /\ 0 \in Team /\ t \in Team /\ nGraph.n \in 1..N
             /\ \A u \in Team : pc[u] \in {"enter", "arrive", "release"} \/ Arrived(u)

LEMMA ClosedTeam ==
  ASSUME NEW t, Closed(t), NEW u \in Team
  PROVE  /\ pc[u] \notin {"compute", "claim"} /\ ~Released(u)
         /\ u \in Nat /\ u < nGraph.n
<1>1. pc[u] \notin {"compute", "claim"} /\ ~Released(u)
  BY DEF Closed, Arrived, Released
<1> QED BY <1>1, Lengths DEF Closed, Team

\* When the barrier after a node opens, all its parts are computed.
LEMMA NodeDone ==
  ASSUME NEW t, Closed(t), NEW k \in Nodes,
         (InFirst(k) /\ Running(k, "plain")) \/ InSecond(k), currentChunk \in Nat
  PROVE  done = Before(k + 1)
<1> DEFINE n == nGraph.n
           Own == {<<k, c>> : c \in PartsOf(k, n)}
<1>1. Before(k + 1) = Before(k) \cup Own
  BY PriorNext DEF Before
<1>2. /\ n \in 1..N /\ NumChunks(k, n) \in Nat /\ NumChunks(k, n) >= n
      /\ Graph[k].op = "plain" => NumChunks(k, n) = n
      /\ Graph[k].op # "nop" => PartsOf(k, n) = 0..(NumChunks(k, n) - 1)
  BY NodeParts DEF Closed, PartsOf
<1>3. CASE InFirst(k) /\ Running(k, "plain")
  <2>1. Finished(k) = Team
    <3>1. \A u \in Team : Worked(u, k) /\ pc[u] # "compute"
      <4> TAKE u \in Team
      <4>1. First(u, k) /\ u \in Threads
        BY <1>3 DEF InFirst, FirstHalf, Closed
      <4>2. Worked(u, k)
        BY <1>3, <4>1, HeldFirst DEF Closed, Running, Worked, Held
      <4> QED BY <4>2, ClosedTeam
    <3> QED BY <1>3, <3>1 DEF Finished
  <2>2. PartsOf(k, n) = Team
    BY <1>2, <1>3 DEF Running, Team
  <2> QED BY <1>1, <1>3, <2>1, <2>2 DEF InFirst, FirstDone
<1>4. CASE InSecond(k)
  <2>1. SecondDone(k) /\ Graph[k].op = "mul_mat"
    BY <1>4 DEF InSecond, SecondHalf, Running
  <2>2. Before(k) \subseteq done /\ done \subseteq Before(k) \cup Own
    BY <2>1 DEF SecondDone
  <2>3. \A u \in Team : <<k, u>> \in done
    BY <2>1, ClosedTeam DEF SecondDone, Portion
  <2>4. NumChunks(k, n) <= n \/ NumChunks(k, n) <= currentChunk
    BY <2>1, ClosedTeam DEF Closed, SecondDone, Portion
  <2>5. ASSUME NEW c \in PartsOf(k, n) PROVE <<k, c>> \in done
    <3>1. c \in 0..(NumChunks(k, n) - 1)
      BY <1>2, <2>1, <2>5
    <3>2. CASE c < n
      BY <1>2, <2>3, <3>1, <3>2 DEF Team
    <3>3. CASE c >= n
      <4>1. c \in n..(currentChunk - 1) /\ c < NumChunks(k, n)
        BY <1>2, <2>4, <3>1, <3>3
      <4> QED BY <2>1, <4>1, ClosedTeam DEF SecondDone
    <3> QED BY <1>2, <3>1, <3>2, <3>3
  <2> QED BY <1>1, <2>2, <2>5
<1> QED BY <1>3, <1>4

\* The barrier within a multiplication opens.
LEMMA OpensMid ==
  ASSUME IInv, NEW t \in Threads, Opens(t), Closed(t), NEW k \in 1..(Len(Graph) + 1), InFirst(k),
         Running(k, "mul_mat")
  PROVE  at[t] = "mid" /\ (\A u \in Team : at[u] = "mid") /\ InSecond(k)'
<1> DEFINE n == nGraph.n
<1>1. \A u \in Team : /\ at[u] = "mid" /\ wdata[u] = k /\ node[u] = k
                      /\ u = 0 => currentChunk = n
  <2> TAKE u \in Team
  <2>1. First(u, k) /\ u \in Threads
    BY DEF InFirst, FirstHalf, Closed
  <2> QED BY <2>1, HeldFirst DEF Closed, Running
<1>2. /\ \A u \in Team \ {t} : Kept(u) /\ Released(u)' /\ pc'[u] = "spin"
      /\ pc'[t] = "compute" /\ chunk'[t] = t /\ node'[t] = k /\ wdata'[t] = k /\ Team' = Team
      /\ UNCHANGED <<nGraph, abort, currentChunk, done>>
  BY <1>1, OpensPoint DEF Opens, Closed, Released
<1>3. SecondHalf(k)'
  <2>1. Running(k, "mul_mat")'
    BY <1>2 DEF Running
  <2>2. \A u \in Team : Second(u, k)' /\ wdata'[u] = k
    <3> TAKE u \in Team
    <3>1. CASE u = t
      BY <1>2, <3>1 DEF Second, Worked
    <3>2. CASE u # t
      BY <1>1, <1>2, <3>2 DEF Second, Kept
    <3> QED BY <3>1, <3>2
  <2> QED BY <1>2, <2>1, <2>2 DEF SecondHalf
<1>4. /\ currentChunk = n /\ n \in 1..N /\ n \in Nat /\ NumChunks(k, n) >= n /\ NumChunks(k, n) \in Nat
      /\ PartsOf(k, n) = 0..(NumChunks(k, n) - 1) /\ t \in Nat /\ t < n
  BY <1>1, NodeParts, Lengths, ClosedTeam DEF Closed, Running, PartsOf
<1>5. done = Before(k) /\ Before(k)' = Before(k)
  <2>1. Finished(k) = {}
    BY DEF Finished, Running
  <2> QED BY <1>2, <2>1 DEF InFirst, FirstDone, Before
<1>6. \A c : <<k, c>> \notin done
  BY <1>5, PriorNext DEF Before, Running
<1>7. \A u \in Team : Portion(u, k)'
  <2> TAKE u \in Team
  <2>1. CASE u = t
    <3>1. ~Released(t)'
      BY <1>2 DEF Released
    <3> QED BY <1>2, <1>4, <1>6, <2>1, <3>1 DEF Portion
  <2>2. CASE u # t
    BY <1>2, <1>6, <2>2 DEF Portion
  <2> QED BY <2>1, <2>2
<1>8. \A u, v \in Team : pc'[u] = "compute" /\ pc'[v] = "compute" => u = v
  BY <1>2
<1>9. n..(currentChunk - 1) = {}
  BY <1>4
<1>10. SecondDone(k)'
  BY <1>2, <1>4, <1>5, <1>7, <1>8, <1>9 DEF SecondDone
<1> QED BY <1>1, <1>3, <1>10 DEF InSecond, Closed

\* The barrier between two nodes opens.
LEMMA OpensBetween ==
  ASSUME IInv, NEW t \in Threads, Opens(t), Closed(t), NEW k \in Nodes,
         \A u \in Team : at[u] = "between" /\ node[u] = k, done = Before(k + 1)
  PROVE  InFirst(k + 1)'
<1>1. /\ \A u \in Team \ {t} : Kept(u) /\ Released(u)' /\ pc'[u] = "spin"
      /\ pc'[t] = "node" /\ node'[t] = k + 1 /\ Team' = Team
      /\ UNCHANGED <<nGraph, done>>
  BY OpensPoint DEF Opens, Closed, Released
<1>2. \A u \in Team : /\ AtHead(u)' /\ Pos(u)' = k + 1
                      /\ pc'[u] \notin {"compute", "claim"}
  <2> TAKE u \in Team
  <2>1. CASE u = t
    BY <1>1, <2>1 DEF AtHead, Pos
  <2>2. CASE u # t
    BY <1>1, <2>2 DEF AtHead, Pos, Kept
  <2> QED BY <2>1, <2>2
<1>3. FirstHalf(k + 1)'
  <2>1. k + 1 \in Int /\ Clear(k + 1, k + 1)' /\ k + 1 <= k + 1
    BY Lengths DEF Clear
  <2> QED BY <1>1, <1>2, <2>1 DEF FirstHalf, First
<1>4. Finished(k + 1)' = {}
  BY <1>1, <1>2, HeadNotWorked DEF Finished, Closed
<1>5. Before(k + 1)' = Before(k + 1)
  BY <1>1 DEF Before
<1>6. FirstDone(k + 1)'
  BY <1>1, <1>2, <1>4, <1>5 DEF FirstDone
<1> QED BY <1>3, <1>6 DEF InFirst

LEMMA StepOpens ==
  ASSUME IInv, NEW t \in Threads, Opens(t)
  PROVE  TeamInv' /\ Lockstep' /\ ResultInv' /\ Closed(t) /\ (at[t] = "final" => Computed)
<1>0. Fields /\ TeamInv /\ Lockstep /\ ResultInv /\ currentChunk \in Nat
  BY LocalsType DEF IInv, Types
<1>1. /\ InBody /\ Team' = Team /\ Closed(t)
      /\ UNCHANGED <<nGraph, abort, ec, done>>
  <2>1. nGraph.n \in 1..N
    BY <1>0, OpensPoint, LocalsType
  <2> QED BY <2>1, OpensPoint DEF Opens, Closed
<1>2. PICK k \in 1..(Len(Graph) + 1) : InFirst(k) \/ InSecond(k)
  BY <1>0, <1>1 DEF Lockstep
<1> DEFINE Complete == k \in Nodes /\ ((InFirst(k) /\ Running(k, "plain")) \/ InSecond(k))
           Cut == InFirst(k) /\ (k \notin Nodes \/ abort = k)
<1>3. InFirst(k) => k \notin Nodes \/ abort = k \/ Running(k, "mul_mat") \/ Running(k, "plain")
  <2>1. 0 \in Team /\ 0 \in Threads
    BY <1>1 DEF Closed
  <2>2. InFirst(k) => First(0, k)
    BY <2>1 DEF InFirst, FirstHalf
  <2> QED BY <1>1, <2>1, <2>2, HeldFirst DEF Closed
<1>4. \/ InFirst(k) /\ Running(k, "mul_mat")
      \/ Complete /\ k < Len(Graph)
      \/ Complete /\ k = Len(Graph)
      \/ Cut
  <2>1. InSecond(k) => k \in Nodes
    BY DEF InSecond, SecondHalf, Running
  <2>2. k \in Nodes => k < Len(Graph) \/ k = Len(Graph)
    BY Lengths
  <2> QED BY <1>2, <1>3, <2>1, <2>2 DEF Running
<1>5. Complete => \A u \in Team : /\ node[u] = k
                                  /\ k < Len(Graph) => at[u] = "between"
                                  /\ k = Len(Graph) => at[u] = "final"
  <2> SUFFICES ASSUME Complete, NEW u \in Team
               PROVE  /\ node[u] = k
                      /\ k < Len(Graph) => at[u] = "between"
                      /\ k = Len(Graph) => at[u] = "final"
    OBVIOUS
  <2>1. u \in Threads /\ (pc[u] \in {"enter", "arrive", "release"} \/ Arrived(u)) /\ Len(Graph) \in Nat
    BY <1>1, Lengths DEF Closed
  <2>2. CASE InFirst(k) /\ Running(k, "plain")
    <3>1. First(u, k)
      BY <2>2 DEF InFirst, FirstHalf
    <3> QED BY <2>1, <2>2, <3>1, HeldFirst DEF Running
  <2>3. CASE InSecond(k)
    <3>1. Second(u, k)
      BY <2>3 DEF InSecond, SecondHalf
    <3> QED BY <2>1, <3>1, HeldSecond
  <2> QED BY <2>2, <2>3
<1>6. Cut => \A u \in Team : at[u] = "final"
  <2> SUFFICES ASSUME Cut, NEW u \in Team PROVE at[u] = "final"
    OBVIOUS
  <2>1. u \in Threads /\ (pc[u] \in {"enter", "arrive", "release"} \/ Arrived(u)) /\ First(u, k)
    BY <1>1 DEF Closed, InFirst, FirstHalf
  <2> QED BY <2>1, HeldFirst DEF Running
<1>7. Complete => done = Before(k + 1)
  BY <1>0, <1>1, NodeDone
<1>8. ASSUME InFirst(k), Running(k, "mul_mat") PROVE TeamInv' /\ Lockstep' /\ ResultInv' /\ at[t] # "final"
  <2>1. at[t] = "mid" /\ (\A u \in Team : at[u] = "mid") /\ InSecond(k)'
    BY <1>1, <1>8, OpensMid
  <2>2. TeamInv' /\ InBody'
    BY <2>1, TeamOpens
  <2> QED BY <1>0, <1>1, <2>1, <2>2, InBodyResult DEF Lockstep
<1>9. ASSUME Complete, k < Len(Graph) PROVE TeamInv' /\ Lockstep' /\ ResultInv' /\ at[t] # "final"
  <2>1. \A u \in Team : at[u] = "between" /\ node[u] = k
    BY <1>5, <1>9
  <2>2. InFirst(k + 1)'
    BY <1>1, <1>7, <1>9, <2>1, OpensBetween
  <2>3. TeamInv' /\ InBody'
    BY <1>1, <2>1, TeamOpens DEF Closed
  <2>4. k + 1 \in 1..(Len(Graph) + 1)
    BY <1>9, Lengths
  <2> QED BY <1>0, <1>1, <2>1, <2>2, <2>3, <2>4, InBodyResult DEF Lockstep, Closed
<1>10. ASSUME (Complete /\ k = Len(Graph)) \/ Cut PROVE TeamInv' /\ Lockstep' /\ ResultInv' /\ Computed
  <2>1. \A u \in Team : at[u] = "final"
    BY <1>5, <1>6, <1>10
  <2>2. TeamInv' /\ ~InBody'
    BY <1>1, <2>1, TeamOpens DEF Closed
  <2>3. Computed
    <3>1. CASE Complete /\ k = Len(Graph)
      BY <1>7, <3>1 DEF Computed
    <3>2. CASE Cut
      <4>1. Finished(k) = {}
        BY <3>2 DEF Finished, Running
      <4>2. done = Before(k)
        BY <3>2, <4>1 DEF InFirst, FirstDone
      <4>3. k \notin Nodes => k = Len(Graph) + 1
        BY Lengths
      <4> QED BY <1>0, <3>2, <4>2, <4>3 DEF ResultInv, Computed
    <3> QED BY <1>10, <3>1, <3>2
  <2>4. pc'[0] # "prepared"
    <3>1. 0 \in Threads /\ 0 \in Team
      BY <1>1 DEF Closed
    <3>2. t = 0 \/ pc'[0] = pc[0]
      BY <3>1, OpensPoint DEF Kept
    <3>3. pc[0] # "prepared"
      BY <1>1, <3>1 DEF Closed, Arrived
    <3> QED BY <3>2, <3>3, OpensPoint
  <2>5. \A i : Before(i)' = Before(i)
    BY <1>1 DEF Before
  <2> QED BY <1>0, <1>1, <2>2, <2>3, <2>4, <2>5 DEF ResultInv, Lockstep, Computed
<1> QED BY <1>1, <1>4, <1>8, <1>9, <1>10

LEMMA StepCompute ==
  ASSUME IInv, NEW t \in Threads, ComputeStep(t)
  PROVE  BarrierInv' /\ TeamInv' /\ Lockstep' /\ ResultInv'
<1>0. Fields
  BY DEF IInv, Types
<1>1. CASE Enter(t) /\ nGraph.n = 1
  <2>1. Opens(t) /\ pc[t] = "enter" /\ UNCHANGED Scalars
    BY <1>0, <1>1, EnterOpens, EnterEffect
  <2>2. BarrierInv'
    <3>1. Inside(t) /\ Local(t) /\ ~Arrived(t) /\ pc'[t] \in {"compute", "node", "idle", "top"}
      BY <2>1, OpensPoint DEF Opens, Arrived
    <3> QED BY <2>1, <3>1, BarrierQuiet DEF Scalars
  <2> QED BY <2>1, <2>2, StepOpens
<1>2. CASE Release(t)
  BY <1>2, ReleaseOpens, StepOpens, BarrierRelease
<1> QED BY <1>1, <1>2, StepStart, StepNextNode, StepQuantize, StepEndPart, StepClaim, StepAfterNode,
           StepEnterArrive, StepArrive, StepSpin DEF ComputeStep

-----------------------------------------------------------------------------
(* The theorems.                                                             *)

LEMMA Inductive == IInv /\ [Next]_vars => IInv'
<1> SUFFICES ASSUME IInv, [Next]_vars PROVE IInv'
  OBVIOUS
<1>1. Flags' /\ Types'
  BY FlagsStep, TypesStep DEF IInv
<1>2. ASSUME CallerStep PROVE TeamInv' /\ BarrierInv' /\ Lockstep' /\ ResultInv'
  BY <1>2, TeamCaller, BarrierCaller, StepCaller
<1>3. ASSUME NEW w \in Workers, WaitStep(w) \/ SpuriousWake(w)
      PROVE  TeamInv' /\ BarrierInv' /\ Lockstep' /\ ResultInv'
  BY <1>3, TeamWait, BarrierWait, StepWait
<1>4. ASSUME UNCHANGED vars PROVE TeamInv' /\ BarrierInv' /\ Lockstep' /\ ResultInv'
  <2>1. UNCHANGED <<nGraph, abort, currentChunk, ec, nBarrier, nPassed, passed, at, node, nth, chunk,
                    wdata, done, pc, last>>
    BY <1>4 DEF vars, poolVars, graphVars, barVars, workVars
  <2>2. Team' = Team /\ (InBody' <=> InBody)
        /\ \A t : (Arrived(t)' <=> Arrived(t)) /\ (Released(t)' <=> Released(t))
    BY <2>1 DEF Team, InBody, Arrived, Released
  <2>3. TeamInv' /\ BarrierInv' /\ ResultInv'
    BY <2>1, <2>2 DEF IInv, TeamInv, BarrierInv, ResultInv, Computed, Outside, Before
  <2>4. \A k : (InFirst(k)' <=> InFirst(k)) /\ (InSecond(k)' <=> InSecond(k))
    <3> TAKE k
    <3>1. \A t : /\ AtHead(t)' <=> AtHead(t)
                 /\ Pos(t)' = Pos(t)
                 /\ \A j : Worked(t, j)' <=> Worked(t, j)
                 /\ \A who : Held(t, who)' <=> Held(t, who)
      BY <2>1, <2>2 DEF AtHead, Pos, Worked, Held, Outside
    <3>2. /\ \A i, j : Clear(i, j)' <=> Clear(i, j)
          /\ \A o : Running(k, o)' <=> Running(k, o)
      BY <2>1 DEF Clear, Running
    <3>3. FirstHalf(k)' <=> FirstHalf(k)
      BY <2>1, <2>2, <3>1, <3>2 DEF FirstHalf, First
    <3>4. SecondHalf(k)' <=> SecondHalf(k)
      BY <2>1, <2>2, <3>1, <3>2 DEF SecondHalf, Second
    <3>5. Finished(k)' = Finished(k)
      BY <2>1, <2>2, <3>1, <3>2 DEF Finished
    <3>6. FirstDone(k)' <=> FirstDone(k)
      BY <2>1, <2>2, <3>5 DEF FirstDone, Before
    <3>7. SecondDone(k)' <=> SecondDone(k)
      BY <2>1, <2>2 DEF SecondDone, Before, Portion
    <3> QED BY <3>3, <3>4, <3>6, <3>7 DEF InFirst, InSecond
  <2> QED BY <2>2, <2>3, <2>4 DEF IInv, Lockstep
<1>5. TeamInv' /\ BarrierInv' /\ Lockstep' /\ ResultInv'
  BY <1>2, <1>3, <1>4, StepCompute DEF Next, CallerStep, Freed
<1> QED BY <1>1, <1>5 DEF IInv

LEMMA Invariance == Spec => []IInv
<1> QED BY InitIInv, Inductive, PTL DEF Spec

\* The pool's fields and the threads' locals keep the types of ggml-cpu.c, for
\* any number of threads and any graph.
THEOREM TypeCorrect == Spec => []TypeOK
<1>1. IInv => TypeOK
  <2>1. Flags /\ Types => TypeOK
    <3>1. Flags => stop \in BOOLEAN /\ pause \in BOOLEAN
      BY Zenon DEF Flags
    <3>2. Types => Fields
      BY DEF Types
    <3> QED BY <3>1, <3>2, Zenon DEF Fields, TypeOK
  <2> QED BY <2>1 DEF IInv
<1> QED BY <1>1, Invariance, PTL

\* When a thread multiplies, the shared buffer holds the whole converted input
\* of its node: the barrier in mul_mat separates every conversion from every use.
THEOREM BufferIsWhole == Spec => []WorkBufferIsWhole
<1>1. IInv => WorkBufferIsWhole
  <2> SUFFICES ASSUME IInv, NEW t \in Threads,
                      pc[t] \in {"compute", "claim"}, Graph[node[t]].op = "mul_mat"
               PROVE  /\ \A i \in 0..(nth[t] - 1) : wdata[i] = node[t]
                      /\ \A u \in Threads : pc[u] # "quantize"
    BY DEF WorkBufferIsWhole
  <2>0. Fields /\ TeamInv /\ Lockstep /\ node[t] \in Nodes
    BY DEF IInv, Types
  <2>1. InBody /\ t \in Team /\ nth[t] = nGraph.n
    <3>1. Inside(t)
      BY DEF Inside, Outside, Released, InGraph, Waiting
    <3> QED BY <2>0, <3>1, InsideTeam
  <2>2. PICK k \in 1..(Len(Graph) + 1) : InFirst(k) \/ InSecond(k)
    BY <2>0, <2>1 DEF Lockstep
  <2>3. ~InFirst(k)
    <3>1. SUFFICES ASSUME InFirst(k) PROVE FALSE
      OBVIOUS
    <3>2. First(t, k)
      BY <2>1, <3>1 DEF InFirst, FirstHalf
    <3> QED BY <3>2 DEF First, AtHead, Outside, Released, Waiting, Held, Arrived, Worked, Running
  <2>4. SecondHalf(k)
    BY <2>2, <2>3 DEF InSecond
  <2>5. node[t] = k
    BY <2>1, <2>4 DEF SecondHalf, Second, Worked
  <2>6. \A i \in 0..(nth[t] - 1) : wdata[i] = node[t]
    BY <2>1, <2>4, <2>5 DEF SecondHalf, Team
  <2>7. ASSUME NEW u \in Threads, pc[u] = "quantize" PROVE FALSE
    <3>1. Inside(u)
      BY <2>7 DEF Inside, Outside, Released, InGraph, Waiting
    <3>2. Second(u, k)
      BY <2>0, <2>4, <3>1, InsideTeam DEF SecondHalf
    <3> QED BY <2>7, <3>2 DEF Second, Worked, Held, Arrived, Released
  <2> QED BY <2>6, <2>7
<1> QED BY <1>1, Invariance, PTL

\* While the caller is outside a graph no worker uses the pool's parameters, so
\* it may reset them without the mutex.
THEOREM ParametersAreOwned == Spec => []CallerOwnsParameters
<1>1. IInv => CallerOwnsParameters
  <2> SUFFICES ASSUME IInv, pc[0] \notin InGraph, NEW w \in Workers
               PROVE  \/ pc[w] \in Waiting
                      \/ pc[w] \in {"spin", "release"} /\ at[w] = "final"
    BY DEF CallerOwnsParameters
  <2>1. ~InBody
    BY DEF InBody
  <2>2. Outside(w)
    BY <2>1 DEF IInv, TeamInv
  <2> QED BY <2>2 DEF Outside, Released
<1> QED BY <1>1, Invariance, PTL

-----------------------------------------------------------------------------
(* The pool evaluates graphs as GraphEval says.                              *)

Run    == pc[0] \in InGraph
Doing  == [t \in Threads |-> IF pc[t] = "compute" THEN <<node[t], chunk[t]>> ELSE <<>>]
Status == IF Run THEN ec ELSE "none"

\* A part that is being computed is one of the current node, nobody else's and
\* not done yet, and the nodes before it are.
Sound(t) ==
  /\ Run /\ node[t] \in Nodes /\ chunk[t] \in PartsOf(node[t], nGraph.n)
  /\ <<node[t], chunk[t]>> \notin done /\ Before(node[t]) \subseteq done
  /\ \A u \in Threads \ {t} : pc[u] = "compute" => <<node[u], chunk[u]>> # <<node[t], chunk[t]>>

AllSound == \A t \in Threads : pc[t] = "compute" => Sound(t)

LEMMA ComputeSound == IInv => AllSound
<1> SUFFICES ASSUME IInv, NEW t \in Threads, pc[t] = "compute" PROVE Sound(t)
  BY DEF AllSound
<1>0. Fields /\ TeamInv /\ Lockstep /\ node[t] \in Nodes
  BY DEF IInv, Types
<1>1. \A u \in Threads : pc[u] = "compute" => Inside(u) /\ u \in Team
  <2> SUFFICES ASSUME NEW u \in Threads, pc[u] = "compute" PROVE Inside(u) /\ u \in Team
    OBVIOUS
  <2>1. Inside(u)
    BY DEF Inside, Outside, Released, InGraph, Waiting
  <2> QED BY <1>0, <2>1, InsideTeam
<1>2. InBody /\ Run /\ nGraph.n \in 1..N
  BY <1>0, <1>1, InsideTeam, LocalsType DEF InBody, Run
<1>3. PICK k \in 1..(Len(Graph) + 1) : InFirst(k) \/ InSecond(k)
  BY <1>0, <1>2 DEF Lockstep
<1>4. CASE InFirst(k)
  <2>1. \A u \in Threads : pc[u] = "compute" => node[u] = k /\ chunk[u] = u /\ Running(k, "plain")
    <3> SUFFICES ASSUME NEW u \in Threads, pc[u] = "compute"
                 PROVE  node[u] = k /\ chunk[u] = u /\ Running(k, "plain")
      OBVIOUS
    <3>1. First(u, k) /\ chunk[u] = u
      BY <1>1, <1>4 DEF InFirst, FirstHalf, FirstDone
    <3> QED BY <3>1 DEF First, AtHead, Outside, Released, Waiting, Held, Arrived, Worked
  <2>2. t \in PartsOf(k, nGraph.n)
    <3>1. NumChunks(k, nGraph.n) = nGraph.n
      BY <1>0, <1>2, <2>1, NodeParts DEF Running
    <3> QED BY <1>1, <2>1, <3>1 DEF PartsOf, Running, Team
  <2>3. <<k, t>> \notin done /\ Before(k) \subseteq done
    <3>1. <<k, t>> \notin Before(k)
      BY <1>0, <2>1, PriorNext DEF Before
    <3>2. t \notin Finished(k)
      BY DEF Finished
    <3> QED BY <1>4, <3>1, <3>2 DEF InFirst, FirstDone
  <2> QED BY <1>0, <1>2, <2>1, <2>2, <2>3 DEF Sound
<1>5. CASE InSecond(k)
  <2>1. SecondDone(k) /\ \A u \in Threads : pc[u] = "compute" => u \in Team /\ node[u] = k
    <3> SUFFICES ASSUME NEW u \in Threads, pc[u] = "compute" PROVE u \in Team /\ node[u] = k
      BY <1>5 DEF InSecond
    <3>1. Second(u, k)
      BY <1>1, <1>5 DEF InSecond, SecondHalf
    <3> QED BY <1>1, <3>1 DEF Second, Worked
  <2>2. chunk[t] \in PartsOf(k, nGraph.n) /\ <<k, chunk[t]>> \notin done /\ Before(k) \subseteq done
    BY <2>1 DEF SecondDone, Portion
  <2>3. \A u \in Threads \ {t} : pc[u] = "compute" => chunk[u] # chunk[t]
    BY <2>1 DEF SecondDone
  <2> QED BY <1>0, <1>2, <2>1, <2>2, <2>3 DEF Sound
<1> QED BY <1>3, <1>4, <1>5

LEMMA ComputeSoundNext == IInv' => AllSound'
  BY ComputeSound, PTL

\* A step the caller of the pool cannot see.
LEMMA Stutters ==
  ASSUME Run' <=> Run, UNCHANGED <<nGraph, done>>, Run => ec' = ec,
         \A t \in Threads : IF pc'[t] = "compute"
                              THEN pc[t] = "compute" /\ node'[t] = node[t] /\ chunk'[t] = chunk[t]
                              ELSE pc[t] # "compute"
  PROVE  UNCHANGED Eval!vars
<1>1. Doing' = Doing
  BY DEF Doing
<1>2. Status' = Status
  BY Zenon DEF Status
<1>3. (pc'[0] \in InGraph) = (pc[0] \in InGraph)
  BY SMT DEF Run
<1> QED BY <1>1, <1>2, <1>3, Zenon DEF Eval!vars, Doing, Status, Run

\* A thread begins a part.
LEMMA Begins ==
  ASSUME IInv, IInv', NEW t \in Threads, pc[t] # "compute", pc'[t] = "compute", Run, Run',
         UNCHANGED <<nGraph, done, ec>>,
         \A u \in Threads \ {t} : pc'[u] = pc[u] /\ node'[u] = node[u] /\ chunk'[u] = chunk[u]
  PROVE  Eval!Begin(t)
<1> DEFINE p == <<node'[t], chunk'[t]>>
<1>1. Sound(t)'
  BY ComputeSoundNext DEF AllSound
<1>2. /\ node'[t] \in Nodes /\ chunk'[t] \in PartsOf(node'[t], nGraph.n)
      /\ p \notin done /\ Before(node'[t]) \subseteq done
      /\ \A u \in Threads \ {t} : pc[u] = "compute" => <<node[u], chunk[u]>> # p
  BY <1>1 DEF Sound, Before
<1>3. p \in Eval!Parts \ done
  BY <1>2 DEF Eval!Parts
<1>4. \A u \in Threads : Doing[u] # p
  <2> TAKE u \in Threads
  <2>1. CASE pc[u] = "compute"
    BY <1>2, <2>1 DEF Doing
  <2>2. CASE pc[u] # "compute"
    <3>1. Doing[u] = <<>>
      BY <2>2 DEF Doing
    <3>2. Len(p) = 2 /\ Len(<<>>) = 0
      OBVIOUS
    <3> QED BY <3>1, <3>2
  <2> QED BY <2>1, <2>2
<1>5. Eval!PartsBefore(p[1]) \subseteq done
  <2>1. p[1] = node'[t]
    OBVIOUS
  <2> QED BY <1>2, <2>1, PriorIsBefore
<1>6. Doing[t] = <<>> /\ Doing' = [Doing EXCEPT ![t] = p]
  BY DEF Doing
<1>7. nGraph'.n = nGraph.n /\ done' = done /\ Status' = Status
  BY Zenon DEF Status
<1>8. (pc'[0] \in InGraph) = (pc[0] \in InGraph)
  BY SMT DEF Run
<1> HIDE DEF p
<1> QED BY <1>3, <1>4, <1>5, <1>6, <1>7, <1>8, Zenon DEF Eval!Begin, Doing, Status, Run

\* The call returns.
LEMMA Returns ==
  ASSUME Computed, Run, ~Run', \A t \in Threads : pc[t] # "compute" /\ pc'[t] # "compute",
         UNCHANGED <<nGraph, done, ec>>
  PROVE  Eval!Return
<1>1. Doing' = Doing /\ \A t \in Threads : Doing[t] = <<>>
  BY DEF Doing
<1>2. \/ done = Eval!Parts
      \/ Status = "aborted" /\ \E k \in Nodes : done = Eval!PartsBefore(k)
  BY PriorIsBefore DEF Computed, Status
<1>3. Status' = "none" /\ done' = done /\ nGraph'.n = nGraph.n
  BY Zenon DEF Status
<1>4. (pc'[0] \in InGraph) = FALSE
  BY SMT DEF Run
<1> QED BY <1>1, <1>2, <1>3, <1>4, Zenon DEF Eval!Return, Eval!Idle, Doing, Status, Run

LEMMA EvalInit == Init => Eval!Init
<1> SUFFICES ASSUME Init PROVE Eval!Init
  OBVIOUS
<1>1. ~Run /\ nGraph.n = 0 /\ done = {} /\ \A t \in Threads : pc[t] # "compute"
  BY ZeroThread DEF Init, Run, InGraph
<1>2. Doing = [t \in Threads |-> <<>>]
  BY <1>1 DEF Doing
<1>3. Status = "none"
  BY <1>1, Zenon DEF Status
<1>4. (pc[0] \in InGraph) = FALSE
  BY <1>1, SMT DEF Run
<1> QED BY <1>1, <1>2, <1>3, <1>4, Zenon DEF Eval!Init, Doing, Status, Run

LEMMA EvalCaller == ASSUME IInv, CallerStep PROVE Eval!Call \/ UNCHANGED Eval!vars
<1>0. Fields /\ ResultInv
  BY DEF IInv, Types
<1>1. \A t \in Threads : pc[t] # "compute" /\ pc'[t] # "compute"
  <2> TAKE t \in Threads
  <2>1. CASE t = 0
    BY <1>0, <2>1, CallerEffect
  <2>2. CASE t # 0
    <3>1. Outside(t) /\ Outside(t)'
      BY <2>2, TeamCaller DEF Workers
    <3> QED BY <3>1, OutsideHead
  <2> QED BY <2>1, <2>2
<1>2. ~Run
  BY <1>0, CallerEffect DEF Run, InGraph
<1>3. CASE pc[0] = "prepared"
  <2>1. /\ pc'[0] = "start" /\ nGraph'.n \in 1..N /\ done' = {} /\ ec' = "success"
    BY <1>0, <1>3, CallerEffect DEF ResultInv, graphVars
  <2>2. Run'
    BY <2>1 DEF Run, InGraph
  <2>3. Doing' = Doing
    BY <1>1 DEF Doing
  <2>4. Status' = "success"
    BY <2>1, <2>2, Zenon DEF Status
  <2>5. (pc'[0] \in InGraph) = TRUE
    BY <2>2, SMT DEF Run
  <2>6. Eval!Call
    BY <1>2, <2>1, <2>3, <2>4, <2>5, Zenon DEF Eval!Call, Doing, Status, Run
  <2> QED BY <2>6
<1>4. CASE pc[0] # "prepared"
  <2>1. ~Run' /\ UNCHANGED <<nGraph, done>>
    BY <1>0, <1>4, CallerEffect DEF Run, InGraph
  <2> QED BY <1>1, <1>2, <2>1, Stutters
<1> QED BY <1>3, <1>4

LEMMA EvalWait ==
  ASSUME IInv, NEW w \in Workers, WaitStep(w) \/ SpuriousWake(w)
  PROVE  UNCHANGED Eval!vars
<1>0. Fields /\ w \in Threads /\ w # 0
  BY ZeroThread DEF IInv, Types, Workers
<1>1. /\ pc[w] # "compute" /\ pc'[w] # "compute" /\ \A t \in Threads \ {w} : pc'[t] = pc[t]
      /\ UNCHANGED <<nGraph, done, ec, node, chunk>>
  BY <1>0, WaitEffect DEF Fields, Waiting, graphVars, workVars
<1>2. Run' <=> Run
  BY <1>0, <1>1, ZeroThread DEF Run
<1> QED BY <1>1, <1>2, Stutters

\* A thread leaves the barrier, by opening it or because it was let go.
LEMMA EvalLeave ==
  ASSUME IInv, IInv', NEW t \in Threads, pc[t] \in {"enter", "release", "spin"}, Local(t),
         UNCHANGED <<nGraph, done, ec>>,
         \/ at[t] = "mid" /\ pc'[t] = "compute"
         \/ at[t] = "between" /\ pc'[t] = "node"
         \/ at[t] = "final" /\ pc'[t] = (IF t = 0 THEN "idle" ELSE "top"),
         t = 0 /\ at[t] = "final" => Computed /\ \A u \in Threads : pc[u] # "compute"
  PROVE  [Eval!Next]_Eval!vars
<1>0. Fields
  BY DEF IInv, Types
<1>1. \A u \in Threads \ {t} : pc'[u] = pc[u] /\ node'[u] = node[u] /\ chunk'[u] = chunk[u]
  BY <1>0, LocalKeeps DEF Kept
<1>2. pc[t] # "compute" /\ (t = 0 => Run)
  BY DEF Run, InGraph
<1>3. ASSUME at[t] = "mid" PROVE Eval!Begin(t)
  <2>1. pc'[t] = "compute" /\ Run'
    BY <1>3, ComputeSoundNext DEF AllSound, Sound
  <2>2. Run
    BY <1>1, <1>2, <2>1, ZeroThread DEF Run
  <2> QED BY <1>1, <1>2, <2>1, <2>2, Begins
<1>4. ASSUME at[t] = "between" PROVE UNCHANGED Eval!vars
  <2>1. pc'[t] = "node" /\ (t = 0 => Run')
    BY <1>4 DEF Run, InGraph
  <2>2. Run' <=> Run
    BY <1>1, <1>2, <2>1, ZeroThread DEF Run
  <2> QED BY <1>1, <1>2, <2>1, <2>2, Stutters
<1>5. ASSUME at[t] = "final", t # 0 PROVE UNCHANGED Eval!vars
  <2>1. pc'[t] = "top" /\ (Run' <=> Run)
    BY <1>1, <1>5, ZeroThread DEF Run
  <2> QED BY <1>1, <1>2, <2>1, Stutters
<1>6. ASSUME at[t] = "final", t = 0 PROVE Eval!Return
  <2>1. pc'[t] = "idle" /\ ~Run'
    BY <1>6 DEF Run, InGraph
  <2>2. \A u \in Threads : pc[u] # "compute" /\ pc'[u] # "compute"
    BY <1>1, <1>6, <2>1
  <2> QED BY <1>2, <1>6, <2>1, <2>2, Returns
<1>7. (\E u \in Threads : Eval!Begin(u)) => Eval!Next
  BY Zenon DEF Eval!Next
<1>8. Eval!Return => Eval!Next
  BY Zenon DEF Eval!Next
<1>9. Eval!Next \/ UNCHANGED Eval!vars
  BY <1>3, <1>4, <1>5, <1>6, <1>7, <1>8
<1> QED BY <1>9

LEMMA EvalOpens ==
  ASSUME IInv, IInv', NEW t \in Threads, Opens(t)
  PROVE  [Eval!Next]_Eval!vars
<1>1. Closed(t) /\ (at[t] = "final" => Computed)
  BY StepOpens
<1>2. \A u \in Threads : pc[u] # "compute"
  <2> SUFFICES ASSUME NEW u \in Threads, pc[u] = "compute" PROVE FALSE
    OBVIOUS
  <2>1. Inside(u)
    BY DEF Inside, Outside, Released, InGraph, Waiting
  <2>2. u \in Team
    BY <2>1, InsideTeam DEF IInv, Types
  <2> QED BY <1>1, <2>2, ClosedTeam
<1>3. /\ pc[t] \in {"enter", "release"} /\ Local(t) /\ UNCHANGED <<nGraph, done, ec>>
      /\ \/ at[t] = "mid" /\ pc'[t] = "compute"
         \/ at[t] = "between" /\ pc'[t] = "node"
         \/ at[t] = "final" /\ pc'[t] = (IF t = 0 THEN "idle" ELSE "top")
  BY OpensPoint DEF Opens
<1> QED BY <1>1, <1>2, <1>3, EvalLeave

LEMMA EvalSpin ==
  ASSUME IInv, IInv', NEW t \in Threads, Spin(t)
  PROVE  [Eval!Next]_Eval!vars
<1>1. /\ Released(t) /\ Local(t) /\ UNCHANGED <<nGraph, done, ec>>
      /\ \/ at[t] = "mid" /\ pc'[t] = "compute"
         \/ at[t] = "between" /\ pc'[t] = "node"
         \/ at[t] = "final" /\ pc'[t] = (IF t = 0 THEN "idle" ELSE "top")
  BY TeamSpin DEF Scalars
<1>2. ASSUME t = 0, at[t] = "final" PROVE Computed /\ \A u \in Threads : pc[u] # "compute"
  <2>1. ~InBody /\ pc[0] \in InGraph
    BY <1>1, <1>2 DEF InBody, Released, InGraph
  <2>2. \A u \in Threads : ~Inside(u)
    BY <2>1, NobodyInside DEF IInv
  <2>3. \A u \in Threads : pc[u] # "compute"
    BY <2>2 DEF Inside, Outside, Released, InGraph, Waiting
  <2> QED BY <2>1, <2>3 DEF IInv, ResultInv
<1> QED BY <1>1, <1>2, EvalLeave DEF Released

\* The other steps of a thread in the graph.
LEMMA EvalBody ==
  ASSUME IInv, IInv', NEW t \in Threads,
         \/ Start(t) \/ NextNode(t) \/ Quantize(t) \/ EndPart(t) \/ Claim(t) \/ AfterNode(t)
         \/ (Enter(t) /\ nGraph.n # 1) \/ Arrive(t)
  PROVE  [Eval!Next]_Eval!vars
<1>0. Fields
  BY DEF IInv, Types
<1>1. /\ Local(t) /\ nGraph' = nGraph /\ pc[t] \in InGraph /\ pc'[t] \in InGraph
      /\ \A u \in Threads \ {t} : pc'[u] = pc[u] /\ node'[u] = node[u] /\ chunk'[u] = chunk[u]
  <2>1. Local(t) /\ nGraph' = nGraph
    BY ComputeTypes DEF ComputeStep, IInv
  <2>2. pc[t] \in InGraph /\ pc'[t] \in InGraph
    BY <1>0, StartEffect, NextNodeEffect, QuantizeEffect, EndPartEffect, ClaimEffect, AfterNodeEffect,
       EnterEffect, ArriveEffect DEF Moves, InGraph
  <2> QED BY <1>0, <2>1, <2>2, LocalKeeps DEF Kept
<1>2. Run' <=> Run
  BY <1>1, ZeroThread DEF Run
<1>3. Run
  <2>1. ~Outside(t)
    BY <1>0, StartEffect, NextNodeEffect, QuantizeEffect, EndPartEffect, ClaimEffect, AfterNodeEffect,
       EnterEffect, ArriveEffect DEF Outside, Released, Waiting
  <2> QED BY <1>0, <1>1, <2>1, InsideTeam DEF Inside, InBody, IInv, Run
<1>4. (\E u \in Threads : Eval!Begin(u) \/ Eval!End(u)) \/ Eval!Abort => Eval!Next
  BY Zenon DEF Eval!Next
<1>5. CASE Start(t) \/ Quantize(t) \/ (Enter(t) /\ nGraph.n # 1) \/ Arrive(t)
  <2>1. UNCHANGED <<done, ec>> /\ pc[t] # "compute" /\ pc'[t] # "compute"
    BY <1>0, <1>5, StartEffect, QuantizeEffect, EnterEffect, ArriveEffect DEF Moves, Scalars
  <2> QED BY <1>1, <1>2, <2>1, Stutters
<1>6. CASE NextNode(t) \/ Claim(t)
  <2>1. UNCHANGED <<done, ec>> /\ pc[t] # "compute"
    BY <1>0, <1>6, NextNodeEffect, ClaimEffect DEF Scalars
  <2>2. CASE pc'[t] = "compute"
    <3>1. Eval!Begin(t)
      BY <1>1, <1>2, <1>3, <2>1, <2>2, Begins
    <3> QED BY <1>4, <3>1
  <2>3. CASE pc'[t] # "compute"
    BY <1>1, <1>2, <2>1, <2>3, Stutters
  <2> QED BY <2>2, <2>3
<1>7. CASE EndPart(t)
  <2>1. /\ pc[t] = "compute" /\ pc'[t] # "compute" /\ ec' = ec
        /\ done' = done \cup {<<node[t], chunk[t]>>}
    BY <1>0, <1>7, EndPartEffect DEF Moves
  <2>2. Doing[t] = <<node[t], chunk[t]>> /\ Doing' = [Doing EXCEPT ![t] = <<>>]
    BY <1>1, <2>1 DEF Doing
  <2>3. Doing[t] # <<>>
    <3>1. Len(<<node[t], chunk[t]>>) = 2 /\ Len(<<>>) = 0
      OBVIOUS
    <3> QED BY <2>2, <3>1
  <2>4. Status' = Status
    BY <1>2, <2>1, Zenon DEF Status
  <2>5. (pc'[0] \in InGraph) = (pc[0] \in InGraph)
    BY <1>2, SMT DEF Run
  <2>6. done' = done \cup {Doing[t]} /\ nGraph'.n = nGraph.n
    BY <1>1, <2>1, <2>2
  <2>7. Eval!End(t)
    BY <2>2, <2>3, <2>4, <2>5, <2>6, Zenon DEF Eval!End, Doing, Status, Run
  <2> QED BY <1>4, <2>7
<1>8. CASE AfterNode(t)
  <2>1. /\ pc[t] # "compute" /\ pc'[t] # "compute" /\ done' = done
        /\ ec' = ec \/ ec' = "aborted"
    BY <1>0, <1>8, AfterNodeEffect DEF Moves
  <2>2. CASE ec' = ec
    BY <1>1, <1>2, <2>1, <2>2, Stutters
  <2>3. CASE ec' = "aborted"
    <3>1. Doing' = Doing
      BY <1>1, <2>1 DEF Doing
    <3>2. Status' = "aborted"
      BY <1>2, <1>3, <2>3, Zenon DEF Status
    <3>3. (pc'[0] \in InGraph) = (pc[0] \in InGraph)
      BY <1>2, SMT DEF Run
    <3>4. nGraph'.n = nGraph.n
      BY <1>1
    <3>5. Eval!Abort
      BY <1>3, <2>1, <3>1, <3>2, <3>3, <3>4, Zenon DEF Eval!Abort, Doing, Status, Run
    <3> QED BY <1>4, <3>5
  <2> QED BY <2>1, <2>2, <2>3
<1> QED BY <1>5, <1>6, <1>7, <1>8

LEMMA EvalStep == IInv /\ IInv' /\ [Next]_vars => [Eval!Next]_Eval!vars
<1> SUFFICES ASSUME IInv, IInv', [Next]_vars PROVE [Eval!Next]_Eval!vars
  OBVIOUS
<1>1. ASSUME CallerStep PROVE [Eval!Next]_Eval!vars
  <2>1. Eval!Call => Eval!Next
    BY Zenon DEF Eval!Next
  <2> QED BY <1>1, <2>1, EvalCaller
<1>2. ASSUME NEW w \in Workers, WaitStep(w) \/ SpuriousWake(w) PROVE [Eval!Next]_Eval!vars
  BY <1>2, EvalWait
<1>3. ASSUME NEW t \in Threads, ComputeStep(t) PROVE [Eval!Next]_Eval!vars
  <2>1. CASE Enter(t) /\ nGraph.n = 1
    BY <2>1, EnterOpens, EvalOpens
  <2>2. CASE Release(t)
    BY <2>2, ReleaseOpens, EvalOpens
  <2>3. CASE Spin(t)
    BY <2>3, EvalSpin
  <2> QED BY <1>3, <2>1, <2>2, <2>3, EvalBody DEF ComputeStep
<1>4. ASSUME UNCHANGED vars PROVE [Eval!Next]_Eval!vars
  <2>1. UNCHANGED <<pc, nGraph, done, ec, node, chunk>>
    BY <1>4 DEF vars, poolVars, graphVars, workVars
  <2>2. Run' <=> Run
    BY <2>1 DEF Run
  <2> QED BY <2>1, <2>2, Stutters
<1> QED BY <1>1, <1>2, <1>3, <1>4 DEF Next, CallerStep, Freed

\* Every execution of the pool evaluates its graphs as one thread would: node
\* by node, each part once, and success only when the whole graph is computed.
THEOREM PoolEvaluatesGraphs == Spec => EvaluatesGraphs
<1> QED BY EvalInit, EvalStep, Invariance, PTL DEF Spec, EvaluatesGraphs, Eval!Spec
=============================================================================
