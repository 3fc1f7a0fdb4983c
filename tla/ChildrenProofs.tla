--------------------------- MODULE ChildrenProofs ---------------------------
(***************************************************************************)
(* Processes and their children, for any number of threads and generations *)
(* of fork, provided that processes end youngest first: sys_exit finds the *)
(* process and the list node it looks for, and no loop over a list is      *)
(* endless; wait() returns only when no child is left.                     *)
(***************************************************************************)
EXTENDS ThreadsProofs

(* A loop over an empty list looks at nothing. *)
LEMMA CrawlNothing ==
    ASSUME NEW N, NEW next \in [N -> N \cup {NULL}], NEW stop
    PROVE  Crawl(next, NULL, stop) = {}
<1>1. Covers(next, NULL, stop, {})
  BY DEF Covers
<1> QED
  BY <1>1, CrawlLeast

-----------------------------------------------------------------------------
(***************************************************************************)
(* The lists of children.  fork copies the parent's list head to the       *)
(* child, so the lists share nodes; what keeps them usable is age: links   *)
(* lead from older to younger children, so the node of the youngest        *)
(* process is the last on every list it is on.                             *)
(***************************************************************************)
Processes == LiveThreads \ {Main}
UsedNodes == JoinNode \ joinFree
ListOf(t) == Crawl(joinNext, joinHead[t], {})
ParentOf(n) == parent[joinChild[n]]       \* of the child a node stands for

AgeInv == \A t, u \in Processes : t < u => pid[t] < pid[u]

NodesInv ==
    /\ parent[Main] = NULL
    /\ \A t \in Thread : pc[t] = "new" => parent[t] = NULL /\ joinHead[t] = NULL
    /\ \A t \in Processes : parent[t] # NULL =>
          /\ parent[t] \in Processes /\ parent[t] < t
          /\ \E n \in UsedNodes : joinChild[n] = t
    /\ \A n \in UsedNodes : joinChild[n] \in Processes /\ ParentOf(n) # NULL
    /\ \A m, n \in UsedNodes : joinChild[m] = joinChild[n] => m = n
    /\ \A n \in joinFree : joinChild[n] \notin Processes /\ joinChild[n] <= created

LinksInv ==
    /\ \A n \in UsedNodes : joinNext[n] # NULL =>
          joinNext[n] \in UsedNodes /\ joinChild[n] < joinChild[joinNext[n]]
    /\ \A t \in Processes : joinHead[t] # NULL =>
          /\ joinHead[t] \in UsedNodes
          /\ t = ParentOf(joinHead[t]) \/ joinChild[joinHead[t]] < t
    /\ \A n \in UsedNodes : n \in ListOf(ParentOf(n))
    /\ \A m, n \in UsedNodes : joinNext[m] = n =>
          m \in ListOf(ParentOf(n)) /\ joinHead[ParentOf(n)] # n

EndsInv == \A t \in Processes : joinHead[t] # NULL => \E e \in ListOf(t) : joinNext[e] = NULL

JoinInv == AgeInv /\ NodesInv /\ LinksInv /\ EndsInv /\ NeverCrashes

(* A step that leaves the processes and their children alone. *)
LEMMA JoinFrame ==
    ASSUME JoinInv, UNCHANGED <<joinHead, joinNext, joinChild, joinFree, parent, pid, created>>,
           Processes' = Processes,
           \A t \in Thread : pc'[t] = "new" => pc[t] = "new",
           halted' \notin {"fault", "loop"}
    PROVE  JoinInv'
<1>1. AgeInv'
  BY DEF JoinInv, AgeInv
<1>2. NodesInv'
  BY DEF JoinInv, NodesInv, UsedNodes, ParentOf
<1>3. LinksInv'
  BY DEF JoinInv, LinksInv, UsedNodes, ParentOf, ListOf
<1>4. EndsInv'
  BY DEF JoinInv, EndsInv, ListOf
<1> QED
  BY <1>1, <1>2, <1>3, <1>4 DEF JoinInv, NeverCrashes

LEMMA DispatchHalts ==
    ASSUME NEW q, Dispatch(q) PROVE halted' \in {"panic", halted}
  BY DEF Dispatch

(* The steps of Main and Start, the timer, and the calls that neither      *)
(* create nor end a process.                                               *)
LEMMA RotateKeepsJoins ==
    ASSUME IInv, JoinInv,
           MainSchedules \/ Yield \/ irq_timer \/ trap \/ sleep \/ wait \/ wait_return
             \/ doread \/ doread_return \/ do_execve
    PROVE  JoinInv'
<1>1. /\ halted = "no" /\ currentThread \in Thread /\ pc \in [Thread -> Where]
      /\ UNCHANGED <<procs, joins>>
  BY DEF MainSchedules, Yield, irq_timer, trap, sleep, wait, wait_return, doread,
         doread_return, do_execve, UserCalls, Executing, IInv, TypeOK
<1>2. halted' \notin {"fault", "loop"}
  <2>1. CASE wait \/ doread
    BY <1>1, <2>1 DEF wait, doread
  <2>2. CASE MainSchedules
    BY <1>1, <2>2, DispatchHalts DEF MainSchedules
  <2>3. ASSUME Requeue(runQueue) PROVE halted' \notin {"fault", "loop"}
    BY <1>1, <2>3, DispatchHalts DEF Requeue
  <2>4. CASE irq_timer
    <3>1. /\ runQueue \in ListType(Thread) /\ WellLinked(runQueue)
          /\ currentThread \notin Members(runQueue)
      BY <1>1 DEF IInv, TypeOK, SchedulerInv
    <3>2. CrawlEnds(runQueue.next, runQueue.head, {currentThread})
      BY <3>1, ThreadFacts, CrawlToTheEnd
    <3> QED
      BY <2>3, <2>4, <3>2 DEF irq_timer
  <2>5. CASE Yield \/ trap \/ sleep \/ wait_return \/ doread_return \/ do_execve
    BY <2>3, <2>5 DEF Yield, trap, sleep, wait_return, doread_return, do_execve
  <2> QED
    BY <2>1, <2>2, <2>4, <2>5
<1>3. \A t \in Thread \ {Main} : pc'[t] = pc[t] \/ (pc[t] \in Live /\ pc'[t] \in Live)
  <2>1. CASE MainSchedules
    <3>1. currentThread = Main /\ pc' = [pc EXCEPT ![currentThread] = "gone"]
      BY <1>1, <2>1, ThreadFacts DEF MainSchedules, Executing, Goto, IInv, ProcessInv
    <3> QED
      BY <1>1, <3>1
  <2>2. CASE wait \/ doread \/ wait_return \/ doread_return
    <3>1. /\ pc[currentThread] \in Live
          /\ \E at \in Live : pc' = [pc EXCEPT ![currentThread] = at]
      BY <2>2 DEF wait, doread, wait_return, doread_return, UserCalls, Executing, Goto, Live
    <3> QED
      BY <1>1, <3>1
  <2>3. CASE Yield \/ irq_timer \/ trap \/ sleep \/ do_execve
    BY <2>3 DEF Yield, irq_timer, trap, sleep, do_execve
  <2> QED
    BY <2>1, <2>2, <2>3
<1>4. Processes' = Processes
  BY <1>3 DEF Processes, LiveThreads
<1>5. \A t \in Thread : pc'[t] = "new" => pc[t] = "new"
  <2>1. IInv'
    BY MainSchedulesKeeps, YieldKeeps, TimerKeeps, SleepKeeps, BlockKeeps, ReturnKeeps,
       ExecveKeeps
  <2> QED
    BY <1>1, <2>1 DEF IInv, ProcessInv, procs
<1> QED
  BY <1>1, <1>2, <1>4, <1>5, JoinFrame DEF procs, joins

(* A new process is the youngest. *)
LEMMA NewIsYoungest ==
    ASSUME IInv, JoinInv, NewThread, Processes' = Processes \cup {k_thread}
    PROVE  /\ \A t \in Thread : t > created <=> pc[t] = "new"
           /\ \A t \in Processes : t <= created /\ t < k_thread /\ t \in Thread
           /\ k_thread \in Thread /\ pc[k_thread] = "new" /\ k_thread = created + 1
           /\ created \in Nat /\ created' = k_thread
           /\ \A n \in joinFree : joinChild[n] \notin Processes' /\ joinChild[n] <= created'
           /\ AgeInv'
<1>1. /\ created \in Nat /\ nextFreePid \in Nat /\ pid \in [Thread -> 0..MaxThreads]
      /\ MaxThreads \in Nat
      /\ \A t \in Thread : t > created <=> pc[t] = "new"
      /\ \A t \in Processes : pid[t] \in 2..nextFreePid
  BY ThreadsAssumption DEF IInv, TypeOK, ProcessInv, Processes
<1>2. k_thread \in Thread /\ pc[k_thread] = "new"
  BY NewThreadFacts
<1>3. /\ k_thread = created + 1 /\ created' = k_thread
      /\ pid' = [pid EXCEPT ![k_thread] = nextFreePid + 1]
  BY DEF NewThread, k_thread
<1>4. \A t \in Processes : t <= created /\ t < k_thread /\ t \in Thread
  BY <1>1, <1>3, ThreadFacts DEF Processes, LiveThreads, Live
<1>5. AgeInv'
  <2>1. \A t \in Processes : pid'[t] = pid[t] /\ pid[t] \in Nat /\ pid[t] < nextFreePid + 1
    BY <1>1, <1>3, <1>4
  <2>2. pid'[k_thread] = nextFreePid + 1
    BY <1>1, <1>2, <1>3
  <2>3. ASSUME NEW t \in Processes \cup {k_thread}, NEW u \in Processes \cup {k_thread}, t < u
        PROVE  pid'[t] < pid'[u]
    <3>1. t \in Processes
      BY <1>1, <1>3, <1>4, <2>3, ThreadFacts
    <3>2. CASE u \in Processes
      BY <2>1, <2>3, <3>1, <3>2 DEF JoinInv, AgeInv
    <3>3. CASE u = k_thread
      BY <2>1, <2>2, <3>1, <3>3
    <3> QED
      BY <2>3, <3>2, <3>3
  <2> QED
    BY <2>3 DEF AgeInv
<1>6. ASSUME NEW n \in joinFree
      PROVE  joinChild[n] \notin Processes' /\ joinChild[n] <= created'
  <2>1. joinChild[n] \in Thread \cup {NULL}
    BY DEF IInv, TypeOK
  <2>2. joinChild[n] \in Nat
    BY <1>1, <2>1 DEF NULL, Thread
  <2>3. joinChild[n] <= created /\ joinChild[n] \notin Processes
    BY DEF JoinInv, NodesInv
  <2> QED
    BY <1>1, <1>3, <2>2, <2>3
<1> QED
  BY <1>1, <1>2, <1>3, <1>4, <1>5, <1>6

LEMMA ExecKeepsJoins ==
    ASSUME IInv, JoinInv, do_exec PROVE JoinInv'
<1>1. /\ NewThread /\ halted' = "no" /\ pc[currentThread] = "boot"
      /\ pc' = [pc EXCEPT ![k_thread] = "run", ![currentThread] = "run"]
      /\ UNCHANGED <<joinHead, joinNext, joinChild, joinFree, parent>>
  BY DEF do_exec, Executing, joins
<1>2. /\ pc \in [Thread -> Where] /\ currentThread \in Thread
      /\ k_thread \in Thread /\ pc[k_thread] = "new" /\ k_thread # Main
      /\ joinChild \in [JoinNode -> Thread \cup {NULL}] /\ joinFree \subseteq JoinNode
  BY Zenon, <1>1, NewThreadFacts DEF IInv, TypeOK
<1>3. Processes' = Processes \cup {k_thread}
  BY <1>1, <1>2 DEF Processes, LiveThreads, Live
<1>4. /\ \A t \in Processes : t < k_thread /\ t \in Thread
      /\ k_thread = created + 1 /\ created \in Nat /\ created' = k_thread
      /\ \A n \in joinFree : joinChild[n] \notin Processes' /\ joinChild[n] <= created'
      /\ AgeInv'
  BY <1>1, <1>3, NewIsYoungest
<1>5. parent[k_thread] = NULL /\ joinHead[k_thread] = NULL
  BY <1>2 DEF JoinInv, NodesInv
<1>6. UsedNodes' = UsedNodes
  BY <1>1 DEF UsedNodes
<1>7. NodesInv'
  <2>1. \A t \in Thread : pc'[t] = "new" => pc[t] = "new"
    BY <1>1, <1>2
  <2>3. \A t \in Processes' : parent[t] # NULL =>
          /\ parent[t] \in Processes' /\ parent[t] < t
          /\ \E n \in UsedNodes : joinChild[n] = t
    BY <1>3, <1>5 DEF JoinInv, NodesInv
  <2>4. \A n \in UsedNodes : joinChild[n] \in Processes' /\ parent[joinChild[n]] # NULL
    BY <1>3 DEF JoinInv, NodesInv, ParentOf
  <2>5. \A m, n \in UsedNodes : joinChild[m] = joinChild[n] => m = n
    BY DEF JoinInv, NodesInv
  <2>6. \A t \in Thread : pc[t] = "new" => parent[t] = NULL /\ joinHead[t] = NULL
    BY DEF JoinInv, NodesInv
  <2>7. \A t \in Processes' : parent'[t] # NULL =>
          /\ parent'[t] \in Processes' /\ parent'[t] < t
          /\ \E n \in UsedNodes' : joinChild'[n] = t
    BY <1>1, <1>6, <2>3
  <2>8. /\ \A n \in UsedNodes' : joinChild'[n] \in Processes' /\ parent'[joinChild'[n]] # NULL
        /\ \A m, n \in UsedNodes' : joinChild'[m] = joinChild'[n] => m = n
        /\ \A n \in joinFree' : joinChild'[n] \notin Processes' /\ joinChild'[n] <= created'
        /\ \A t \in Thread : pc'[t] = "new" => parent'[t] = NULL /\ joinHead'[t] = NULL
    BY Zenon, <1>1, <1>6, <1>4, <2>1, <2>4, <2>5, <2>6
  <2>9. parent'[Main] = NULL
    BY <1>1 DEF JoinInv, NodesInv
  <2> QED
    BY <2>7, <2>8, <2>9 DEF NodesInv, ParentOf
<1>8. LinksInv'
  BY <1>1, <1>3, <1>5, <1>6 DEF JoinInv, LinksInv, ListOf, ParentOf
<1>9. EndsInv'
  BY <1>1, <1>3, <1>5 DEF JoinInv, EndsInv, ListOf
<1> QED
  BY <1>1, <1>4, <1>7, <1>8, <1>9 DEF JoinInv, NeverCrashes

(* The lists of the processes lie within the nodes in use. *)
LEMMA ListFacts ==
    ASSUME IInv, JoinInv
    PROVE  /\ joinNext \in [JoinNode -> JoinNode \cup {NULL}]
           /\ joinHead \in [Thread -> JoinNode \cup {NULL}]
           /\ joinChild \in [JoinNode -> Thread \cup {NULL}]
           /\ parent \in [Thread -> Thread \cup {NULL}]
           /\ joinFree \subseteq JoinNode /\ UsedNodes \subseteq JoinNode
           /\ NULL \notin JoinNode /\ Processes \subseteq Thread
           /\ \A n \in UsedNodes :
                 /\ joinNext[n] \in UsedNodes \cup {NULL}
                 /\ joinChild[n] \in Processes /\ ParentOf(n) \in Processes
           /\ \A t \in Processes :
                 joinHead[t] \in UsedNodes \cup {NULL} /\ ListOf(t) \subseteq UsedNodes
<1>1. /\ joinNext \in [JoinNode -> JoinNode \cup {NULL}]
      /\ joinHead \in [Thread -> JoinNode \cup {NULL}]
      /\ joinChild \in [JoinNode -> Thread \cup {NULL}]
      /\ parent \in [Thread -> Thread \cup {NULL}]
      /\ joinFree \subseteq JoinNode /\ UsedNodes \subseteq JoinNode
      /\ Processes \subseteq Thread
  BY DEF IInv, TypeOK, UsedNodes, Processes, LiveThreads
<1>2. NULL \notin JoinNode
  BY Zenon, ThreadFacts DEF JoinNode
<1>3. \A n \in UsedNodes :
         /\ joinNext[n] \in UsedNodes \cup {NULL}
         /\ joinChild[n] \in Processes /\ ParentOf(n) \in Processes
  BY DEF JoinInv, NodesInv, LinksInv, ParentOf
<1>4. \A t \in Processes : joinHead[t] \in UsedNodes \cup {NULL}
  BY DEF JoinInv, LinksInv
<1>5. ASSUME NEW t \in Processes PROVE ListOf(t) \subseteq UsedNodes
  <2>1. Covers(joinNext, joinHead[t], {}, UsedNodes)
    BY <1>3, <1>4 DEF Covers
  <2> QED
    BY <1>1, <2>1, CrawlLeast DEF ListOf
<1> QED
  BY <1>1, <1>2, <1>3, <1>4, <1>5

(* append_join_queue reaches the end of the list it walks along. *)
LEMMA AppendWalks ==
    ASSUME IInv, JoinInv, NEW t \in Processes, NEW n \in joinFree,
           NEW next \in [JoinNode -> JoinNode \cup {NULL}],
           next = [joinNext EXCEPT ![n] = NULL]
    PROVE  /\ CrawlEnds(next, joinHead[t], {})
           /\ Crawl(next, joinHead[t], {}) \subseteq UsedNodes
<1>1. \A u \in UsedNodes : next[u] = joinNext[u]
  BY ListFacts DEF UsedNodes
<1>2. Covers(next, joinHead[t], {}, UsedNodes)
  BY <1>1, ListFacts DEF Covers
<1>3. /\ UsedNodes \in SUBSET JoinNode /\ NULL \notin JoinNode
      /\ joinHead[t] \in JoinNode \cup {NULL}
  BY ListFacts
<1>4. Crawl(next, joinHead[t], {}) \subseteq UsedNodes
  BY Zenon, <1>2, <1>3, CrawlLeast
<1>5. ListOf(t) \subseteq Crawl(next, joinHead[t], {})
  <2> DEFINE C == Crawl(next, joinHead[t], {})
  <2>1. Covers(next, joinHead[t], {}, C)
    BY Zenon, <1>3, CrawlCovers
  <2>2. C \in SUBSET JoinNode /\ C \subseteq UsedNodes
    BY Zenon, <1>3, <1>4
  <2> HIDE DEF C
  <2>3. Covers(joinNext, joinHead[t], {}, C)
    BY <1>1, <2>1, <2>2 DEF Covers
  <2>4. joinNext \in [JoinNode -> JoinNode \cup {NULL}]
    BY ListFacts
  <2> QED
    BY Zenon, <2>2, <2>3, <2>4, CrawlLeast DEF C, ListOf
<1>6. CrawlEnds(next, joinHead[t], {})
  <2>1. ASSUME joinHead[t] # NULL PROVE \E e \in ListOf(t) : joinNext[e] = NULL
    BY <2>1 DEF JoinInv, EndsInv
  <2> QED
    BY Zenon, <1>1, <1>4, <1>5, <2>1 DEF CrawlEnds
<1> QED
  BY Zenon, <1>4, <1>6

LEMMA ForkKeepsJoins ==
    ASSUME IInv, JoinInv, fork PROVE JoinInv'
<1> DEFINE K == k_thread
           P == currentThread
           List(t) == Crawl(joinNext', joinHead'[t], {})
<1>1. /\ halted = "no" /\ pc[P] = "run" /\ P # Start /\ NewThread
      /\ parent' = [parent EXCEPT ![K] = P] /\ pc' = [pc EXCEPT ![K] = "run"]
  BY DEF fork, UserCalls, Executing
<1>2. PICK n \in joinFree :
        /\ append_join_queue(n)
        /\ IF CrawlEnds([joinNext EXCEPT ![n] = NULL], joinHead[P], {})
           THEN Requeue(AppendNode(runQueue, K))
           ELSE halted' = "loop" /\ UNCHANGED <<runQueue, currentThread>>
  BY Zenon DEF fork
<1>3. /\ P \in Processes /\ K \in Thread /\ pc[K] = "new" /\ K # Main /\ K # P
      /\ pc \in [Thread -> Where]
  BY Zenon, <1>1, CallerFacts, NewThreadFacts DEF IInv, TypeOK, Processes
<1>4. Processes' = Processes \cup {K} /\ \A t \in Thread : pc'[t] = "new" => pc[t] = "new"
  BY <1>1, <1>3 DEF Processes, LiveThreads, Live
<1>5. /\ \A t \in Processes : t < K /\ t \in Thread /\ t # K
      /\ \A m \in joinFree : joinChild[m] \notin Processes' /\ joinChild[m] <= created'
      /\ AgeInv'
  BY <1>1, <1>4, NewIsYoungest, ThreadFacts
<1>6. PICK next \in [JoinNode -> JoinNode \cup {NULL}] : next = [joinNext EXCEPT ![n] = NULL]
  BY Zenon, ListFacts
<1>7. PICK walked : walked = Crawl(next, joinHead[P], {})
  OBVIOUS
<1>8. CrawlEnds(next, joinHead[P], {}) /\ walked \subseteq UsedNodes
  BY Zenon, <1>3, <1>6, <1>7, AppendWalks
<1>9. halted' \notin {"fault", "loop"}
  BY <1>1, <1>2, <1>6, <1>8, DispatchHalts DEF Requeue
<1>10. /\ joinChild' = [joinChild EXCEPT ![n] = K] /\ joinFree' = joinFree \ {n}
       /\ joinHead' = [joinHead EXCEPT ![K] = joinHead[P],
                                       ![P] = IF joinHead[P] = NULL THEN n ELSE @]
       /\ joinNext' = [m \in JoinNode |->
                         IF next[m] = NULL /\ m \in walked THEN n ELSE next[m]]
  BY <1>2, <1>6, <1>7 DEF append_join_queue
<1>11. UsedNodes' = UsedNodes \cup {n} /\ n \in JoinNode /\ n \notin UsedNodes /\ n # NULL
  BY <1>10, ListFacts DEF UsedNodes
<1>12. /\ \A u \in UsedNodes :
             /\ joinChild'[u] = joinChild[u] /\ parent'[joinChild[u]] = ParentOf(u)
             /\ ParentOf(u) \in Processes /\ joinChild[u] \in Processes
       /\ joinChild'[n] = K /\ parent'[K] = P
  <2>1. /\ \A u \in UsedNodes : joinChild[u] \in Processes /\ ParentOf(u) \in Processes
        /\ joinChild \in [JoinNode -> Thread \cup {NULL}] /\ UsedNodes \subseteq JoinNode
        /\ parent \in [Thread -> Thread \cup {NULL}]
    BY ListFacts
  <2> QED
    BY <1>1, <1>3, <1>5, <1>10, <1>11, <2>1 DEF ParentOf
<1>13. /\ \A u \in UsedNodes :
             /\ joinNext[u] # NULL => joinNext'[u] = joinNext[u]
             /\ joinNext[u] = NULL => joinNext'[u] = IF u \in walked THEN n ELSE NULL
             /\ next[u] = joinNext[u]
       /\ joinNext'[n] = NULL
  BY <1>6, <1>8, <1>10, <1>11, ListFacts
<1>14. /\ \A t \in Processes :
             /\ joinHead[t] # NULL => joinHead'[t] = joinHead[t]
             /\ joinHead[t] = NULL => joinHead'[t] = IF t = P THEN n ELSE NULL
       /\ joinHead'[K] = joinHead[P]
  BY <1>3, <1>5, <1>10, ListFacts
<1>15. /\ joinHead' \in [Thread -> JoinNode \cup {NULL}]
       /\ joinNext' \in [JoinNode -> JoinNode \cup {NULL}]
       /\ NULL \notin JoinNode
  BY <1>3, <1>5, <1>6, <1>10, <1>11, ListFacts
<1>16. ASSUME NEW t \in Processes PROVE ListOf(t) \subseteq List(t)
  <2>1. CASE joinHead[t] = NULL
    BY <2>1, CrawlNothing, ListFacts DEF ListOf
  <2>2. CASE joinHead[t] # NULL
    <3> DEFINE D == List(t) \cap UsedNodes
    <3>1. Covers(joinNext', joinHead'[t], {}, List(t))
      BY <1>5, <1>15, <1>16, CrawlCovers
    <3>2. joinHead'[t] = joinHead[t] /\ joinHead[t] \in UsedNodes
      BY <1>14, <2>2, ListFacts
    <3>3. \A u \in UsedNodes : joinNext[u] # NULL =>
             joinNext'[u] = joinNext[u] /\ joinNext[u] \in UsedNodes
      BY <1>13, ListFacts
    <3> HIDE DEF List
    <3>4. Covers(joinNext, joinHead[t], {}, D)
      BY <2>2, <3>1, <3>2, <3>3 DEF Covers
    <3>5. D \in SUBSET JoinNode
      BY ListFacts
    <3> QED
      BY <3>4, <3>5, ListFacts, CrawlLeast DEF ListOf
  <2> QED
    BY <2>1, <2>2
<1>17. walked \subseteq ListOf(P)
  <2>1. Covers(joinNext, joinHead[P], {}, ListOf(P)) /\ ListOf(P) \subseteq UsedNodes
    BY <1>3, <1>5, CrawlCovers, ListFacts DEF ListOf
  <2>2. Covers(next, joinHead[P], {}, ListOf(P))
    BY <1>13, <2>1 DEF Covers
  <2>3. ListOf(P) \in SUBSET JoinNode
    BY <2>1, ListFacts
  <2> QED
    BY <1>7, <2>2, <2>3, CrawlLeast
<1>18. n \in List(P)
  <2>1. Covers(joinNext', joinHead'[P], {}, List(P))
    BY <1>3, <1>5, <1>15, CrawlCovers
  <2> HIDE DEF List
  <2>2. CASE joinHead[P] = NULL
    BY <1>3, <1>11, <1>14, <2>1, <2>2 DEF Covers
  <2>3. CASE joinHead[P] # NULL
    <3>1. PICK e \in walked : next[e] = NULL
      BY <1>7, <1>8, <2>3 DEF CrawlEnds
    <3>2. e \in UsedNodes /\ joinNext'[e] = n
      BY <1>8, <1>13, <3>1
    <3>3. e \in List(P)
      BY <1>3, <1>16, <1>17, <3>1
    <3> QED
      BY <1>11, <2>1, <3>2, <3>3 DEF Covers
  <2> QED
    BY <2>2, <2>3
<1>19. NodesInv'
  <2>1. \A t \in Thread : pc'[t] = "new" => parent'[t] = NULL /\ joinHead'[t] = NULL
    <3>1. \A t \in Thread : pc'[t] = "new" => t # K /\ t # P
      BY <1>1, <1>3
    <3>2. \A t \in Thread : t # K /\ t # P => parent'[t] = parent[t] /\ joinHead'[t] = joinHead[t]
      BY <1>1, <1>10, ListFacts
    <3> QED
      BY <1>4, <3>1, <3>2 DEF JoinInv, NodesInv
  <2>2. ASSUME NEW t \in Processes', parent'[t] # NULL
        PROVE  /\ parent'[t] \in Processes' /\ parent'[t] < t
               /\ \E m \in UsedNodes' : joinChild'[m] = t
    <3>1. CASE t = K
      BY <1>3, <1>4, <1>5, <1>11, <1>12, <3>1
    <3>2. CASE t \in Processes
      <4>1. parent'[t] = parent[t]
        BY <1>1, <1>5, <3>2, ListFacts
      <4>2. parent[t] \in Processes /\ parent[t] < t /\ \E m \in UsedNodes : joinChild[m] = t
        BY <2>2, <3>2, <4>1 DEF JoinInv, NodesInv
      <4> QED
        BY <1>4, <1>11, <1>12, <4>1, <4>2
    <3> QED
      BY <1>4, <2>2, <3>1, <3>2
  <2>3. \A m \in UsedNodes' : joinChild'[m] \in Processes' /\ parent'[joinChild'[m]] # NULL
    <3>1. P # NULL /\ \A m \in UsedNodes : ParentOf(m) # NULL
      BY <1>3, <1>5, ThreadFacts DEF JoinInv, NodesInv
    <3> QED
      BY <1>4, <1>11, <1>12, <3>1
  <2>4. \A l, m \in UsedNodes' : joinChild'[l] = joinChild'[m] => l = m
    BY <1>5, <1>11, <1>12 DEF JoinInv, NodesInv
  <2>5. \A m \in joinFree' : joinChild'[m] \notin Processes' /\ joinChild'[m] <= created'
    BY <1>5, <1>10, ListFacts
  <2>6. parent'[Main] = NULL
    BY <1>1, <1>3, ThreadFacts, ListFacts DEF JoinInv, NodesInv
  <2> QED
    BY <2>1, <2>2, <2>3, <2>4, <2>5, <2>6 DEF NodesInv, ParentOf
<1>20. LinksInv'
  <2>1. ASSUME NEW m \in UsedNodes', joinNext'[m] # NULL
        PROVE  joinNext'[m] \in UsedNodes' /\ joinChild'[m] < joinChild'[joinNext'[m]]
    <3>1. m \in UsedNodes
      BY <1>11, <1>13, <2>1
    <3>2. CASE joinNext[m] = NULL
      <4>1. joinNext'[m] = n
        BY <1>13, <2>1, <3>1, <3>2
      <4> QED
        BY <1>5, <1>11, <1>12, <3>1, <4>1
    <3>3. CASE joinNext[m] # NULL
      <4>1. joinNext'[m] = joinNext[m] /\ joinNext[m] \in UsedNodes
            /\ joinChild[m] < joinChild[joinNext[m]]
        BY <1>13, <3>1, <3>3 DEF JoinInv, LinksInv
      <4> QED
        BY <1>11, <1>12, <3>1, <4>1
    <3> QED
      BY <3>2, <3>3
  <2>2. ASSUME NEW t \in Processes', joinHead'[t] # NULL
        PROVE  /\ joinHead'[t] \in UsedNodes'
               /\ \/ t = parent'[joinChild'[joinHead'[t]]]
                  \/ joinChild'[joinHead'[t]] < t
    <3>1. CASE t = K
      <4>1. joinHead'[t] = joinHead[P] /\ joinHead[P] \in UsedNodes
        BY <1>3, <1>14, <2>2, <3>1, ListFacts
      <4> QED
        BY <1>5, <1>11, <1>12, <3>1, <4>1
    <3>2. CASE t \in Processes /\ joinHead[t] = NULL
      BY <1>11, <1>12, <1>14, <2>2, <3>2
    <3>3. CASE t \in Processes /\ joinHead[t] # NULL
      <4>1. /\ joinHead'[t] = joinHead[t] /\ joinHead[t] \in UsedNodes
            /\ t = ParentOf(joinHead[t]) \/ joinChild[joinHead[t]] < t
        BY <1>14, <3>3 DEF JoinInv, LinksInv
      <4> QED
        BY <1>11, <1>12, <4>1
    <3> QED
      BY <1>4, <2>2, <3>1, <3>2, <3>3
  <2>3. ASSUME NEW m \in UsedNodes' PROVE m \in List(parent'[joinChild'[m]])
    <3>1. CASE m = n
      BY <1>12, <1>18, <3>1
    <3>2. CASE m \in UsedNodes
      <4>1. m \in ListOf(ParentOf(m)) /\ ParentOf(m) \in Processes
        BY <1>12, <3>2 DEF JoinInv, LinksInv
      <4>2. m \in List(ParentOf(m))
        BY <1>16, <4>1
      <4> QED
        BY <1>12, <3>2, <4>2
    <3> QED
      BY <1>11, <2>3, <3>1, <3>2
  <2>4. ASSUME NEW l \in UsedNodes', NEW m \in UsedNodes', joinNext'[l] = m
        PROVE  /\ l \in List(parent'[joinChild'[m]])
               /\ joinHead'[parent'[joinChild'[m]]] # m
    <3>0. l \in UsedNodes /\ m # NULL
      BY <1>11, <1>13, <2>4, ListFacts
    <3>1. CASE m = n
      <4>1. l \in walked
        BY <1>11, <1>13, <2>4, <3>0, <3>1, ListFacts
      <4>2. l \in ListOf(P) /\ ListOf(P) \subseteq List(P)
        BY <1>3, <1>16, <1>17, <4>1
      <4>3. joinHead[P] # NULL
        BY Zenon, <1>6, <1>7, <4>1, CrawlNothing
      <4>4. joinHead'[P] \in UsedNodes
        BY <1>3, <1>14, <4>3, ListFacts
      <4> QED
        BY <1>11, <1>12, <3>1, <4>2, <4>4
    <3>2. CASE m # n
      <4>1. m \in UsedNodes /\ joinNext[l] = m
        BY <1>11, <1>13, <2>4, <3>0, <3>2
      <4>2. PICK q \in Processes : q = ParentOf(m) /\ q = parent'[joinChild'[m]]
        BY <1>12, <4>1
      <4>3. l \in ListOf(q) /\ joinHead[q] # m
        BY Zenon, <3>0, <4>1, <4>2 DEF JoinInv, LinksInv
      <4>4. l \in List(q)
        BY <1>16, <4>3
      <4>5. joinHead'[q] # m
        BY <1>14, <3>0, <3>2, <4>3
      <4> QED
        BY <4>2, <4>4, <4>5
    <3> QED
      BY <3>1, <3>2
  <2> QED
    BY <2>1, <2>2, <2>3, <2>4 DEF LinksInv, ListOf, ParentOf
<1>21. EndsInv'
  <2>1. ASSUME NEW t \in Processes', joinHead'[t] # NULL
        PROVE  \E e \in List(t) : joinNext'[e] = NULL
    <3>1. CASE t = K \/ t = P
      <4>1. joinHead'[t] = joinHead'[P]
        BY <1>3, <1>14, <2>1, <3>1
      <4> QED
        BY <1>13, <1>18, <4>1
    <3>2. CASE t \in Processes /\ t # P
      <4>1. joinHead[t] # NULL
        BY <1>14, <2>1, <3>2
      <4>2. PICK e \in ListOf(t) : joinNext[e] = NULL
        BY Zenon, <3>2, <4>1 DEF JoinInv, EndsInv
      <4>3. e \in UsedNodes /\ e \in List(t)
        BY <1>16, <3>2, <4>2, ListFacts
      <4>4. Covers(joinNext', joinHead'[t], {}, List(t))
        BY <1>5, <1>15, <3>2, CrawlCovers
      <4> HIDE DEF List
      <4> QED
        BY <1>11, <1>13, <4>2, <4>3, <4>4 DEF Covers
    <3> QED
      BY <1>4, <2>1, <3>1, <3>2
  <2> QED
    BY <2>1 DEF EndsInv, ListOf
<1> QED
  BY <1>5, <1>9, <1>19, <1>20, <1>21 DEF JoinInv, NeverCrashes

(* A process that ends while it is the youngest: its node is the last of   *)
(* its parent's list, and remove_child finds it.                           *)
LEMMA YoungestFacts ==
    ASSUME LastInFirstOut, IInv, JoinInv, halted = "no", pc[currentThread] = "run",
           currentThread # Start, MayEnd
    PROVE  /\ victim = currentThread /\ victim \in Processes
           /\ \A t \in Processes : t <= victim
           /\ parent[victim] # NULL => \E n \in UsedNodes :
                 /\ NodesOf(victim) = {n} /\ joinNext[n] = NULL
                 /\ n \in Searched /\ ListOf(parent[victim]) \subseteq Searched
           /\ CleanUpSucceeds
<1> DEFINE V == currentThread
<1>1. V \in Processes
  BY CallerFacts DEF Processes
<1>2. /\ \A t \in Processes : pid[t] \in 2..nextFreePid /\ ptable[pid[t]] = t
      /\ nextFreePid \in Nat
  BY DEF IInv, TypeOK, ProcessInv, Processes
<1>3. victim = V /\ pid[V] = nextFreePid
  BY <1>1, <1>2 DEF victim, MayEnd
<1>4. \A t \in Processes : t <= V
  <2> SUFFICES ASSUME NEW t \in Processes, V < t PROVE FALSE
    BY <1>1, ThreadsAssumption DEF Processes, LiveThreads, Thread
  <2>1. pid[V] < pid[t]
    BY <1>1 DEF JoinInv, AgeInv
  <2> QED
    BY <1>2, <1>3, <2>1
<1>5. ASSUME parent[V] # NULL
      PROVE  \E n \in UsedNodes :
                 /\ NodesOf(V) = {n} /\ joinNext[n] = NULL
                 /\ n \in Searched /\ ListOf(parent[V]) \subseteq Searched
  <2>1. PICK n \in UsedNodes : joinChild[n] = V
    BY <1>1, <1>5 DEF JoinInv, NodesInv
  <2>2. parent[V] \in Processes
    BY <1>1, <1>5 DEF JoinInv, NodesInv
  <2>3. NodesOf(V) = {n}
    <3>1. n \in NodesOf(V)
      BY <2>1, ListFacts DEF NodesOf
    <3>2. ASSUME NEW m \in NodesOf(V) PROVE m = n
      <4>1. m \in JoinNode /\ joinChild[m] = V
        BY DEF NodesOf
      <4>2. m \in UsedNodes
        BY <1>1, <4>1 DEF JoinInv, NodesInv, UsedNodes
      <4> QED
        BY <2>1, <4>1, <4>2 DEF JoinInv, NodesInv
    <3> QED
      BY <3>1, <3>2
  <2>4. joinNext[n] = NULL
    <3> SUFFICES ASSUME joinNext[n] # NULL PROVE FALSE
      OBVIOUS
    <3>1. joinNext[n] \in UsedNodes /\ V < joinChild[joinNext[n]]
      BY <2>1 DEF JoinInv, LinksInv
    <3>2. PICK t \in Processes : t = joinChild[joinNext[n]]
      BY <3>1, ListFacts
    <3> QED
      BY <1>1, <1>4, <3>1, <3>2, ThreadsAssumption DEF Processes, LiveThreads, Thread
  <2>5. PICK p \in Processes : p = parent[V]
    BY <2>2
  <2>6. /\ joinHead[p] \in JoinNode \cup {NULL} /\ Searched = Crawl(joinNext, joinHead[p], {n})
        /\ joinNext \in [JoinNode -> JoinNode \cup {NULL}] /\ NULL \notin JoinNode
    BY <1>3, <2>3, <2>5, ListFacts DEF Searched
  <2>7. Searched \subseteq JoinNode /\ Covers(joinNext, joinHead[p], {n}, Searched)
    BY <2>6, CrawlCovers
  <2>8. Covers(joinNext, joinHead[p], {}, Searched)
    BY <2>4, <2>7 DEF Covers
  <2>9. ListOf(p) \subseteq Searched
    BY <2>6, <2>7, <2>8, CrawlLeast DEF ListOf
  <2>10. n \in ListOf(p)
    BY <2>1, <2>5 DEF JoinInv, LinksInv, ParentOf
  <2> QED
    BY <2>3, <2>4, <2>5, <2>9, <2>10
<1>6. CleanUpSucceeds
  <2>1. victim # NULL
    BY <1>1, <1>3, ThreadFacts DEF Processes, LiveThreads
  <2>2. parent[V] # NULL => Searched \cap NodesOf(V) # {}
    BY <1>5
  <2> QED
    BY <1>3, <2>1, <2>2 DEF CleanUpSucceeds
<1> QED
  BY <1>1, <1>3, <1>4, <1>5, <1>6

(* No process is younger than the last thread created. *)
LEMMA CreatedSoFar ==
    ASSUME IInv, NEW t \in Processes
    PROVE  t <= created
<1>1. t \in Thread /\ pc[t] # "new"
  BY DEF Processes, LiveThreads, Live
<1>2. ~ (t > created) /\ created \in Nat
  BY <1>1 DEF IInv, TypeOK, ProcessInv
<1> QED
  BY <1>1, <1>2, ThreadsAssumption DEF Thread

(* A process without a parent ends: no list had a node of it. *)
LEMMA OrphanKeepsJoins ==
    ASSUME IInv, JoinInv, NEW V \in Processes, parent[V] = NULL,
           \A t \in Processes : t <= V,
           UNCHANGED <<joinHead, joinNext, joinChild, joinFree, parent, pid, created>>,
           Processes' = Processes \ {V},
           \A t \in Thread : pc'[t] = "new" => pc[t] = "new",
           halted' \notin {"fault", "loop"}
    PROVE  JoinInv'
<1>1. \A n \in UsedNodes : joinChild[n] \in Processes \ {V}
  BY DEF JoinInv, NodesInv, ParentOf
<1>2. \A t \in Processes : parent[t] # NULL => parent[t] \in Processes \ {V}
  <2> SUFFICES ASSUME NEW t \in Processes, parent[t] = V, V # NULL PROVE FALSE
    BY ThreadFacts DEF JoinInv, NodesInv, Processes, LiveThreads
  <2>1. V < t /\ t <= V
    BY DEF JoinInv, NodesInv
  <2> QED
    BY <2>1, ThreadsAssumption DEF Processes, LiveThreads, Thread
<1>3. AgeInv'
  BY DEF JoinInv, AgeInv
<1>4. UsedNodes' = UsedNodes
  BY DEF UsedNodes
<1>5. NodesInv'
  <2>1. \A t \in Processes' : parent'[t] # NULL =>
          /\ parent'[t] \in Processes' /\ parent'[t] < t
          /\ \E n \in UsedNodes' : joinChild'[n] = t
    BY <1>2, <1>4 DEF JoinInv, NodesInv
  <2>2. /\ \A n \in UsedNodes' : joinChild'[n] \in Processes' /\ parent'[joinChild'[n]] # NULL
        /\ \A m, n \in UsedNodes' : joinChild'[m] = joinChild'[n] => m = n
        /\ \A n \in joinFree' : joinChild'[n] \notin Processes' /\ joinChild'[n] <= created'
        /\ \A t \in Thread : pc'[t] = "new" => parent'[t] = NULL /\ joinHead'[t] = NULL
        /\ parent'[Main] = NULL
    BY <1>1, <1>4 DEF JoinInv, NodesInv, ParentOf
  <2> QED
    BY <2>1, <2>2 DEF NodesInv, ParentOf
<1>6. LinksInv'
  BY <1>4 DEF JoinInv, LinksInv, ListOf, ParentOf
<1>7. EndsInv'
  BY DEF JoinInv, EndsInv, ListOf
<1> QED
  BY <1>3, <1>5, <1>6, <1>7 DEF JoinInv, NeverCrashes

(* A child ends: remove_child takes its node off the one list that can     *)
(* still lead to it.                                                       *)
LEMMA ChildKeepsJoins ==
    ASSUME IInv, JoinInv, victim \in Processes, parent[victim] # NULL,
           \A t \in Processes : t <= victim,
           NEW n \in UsedNodes, NodesOf(victim) = {n}, joinNext[n] = NULL,
           n \in Searched, ListOf(parent[victim]) \subseteq Searched,
           remove_child, UNCHANGED <<parent, pid, created>>,
           Processes' = Processes \ {victim},
           \A t \in Thread : pc'[t] = "new" => pc[t] = "new",
           halted' \notin {"fault", "loop"}
    PROVE  JoinInv'
<1> DEFINE V == victim
           Q == parent[victim]
           List(t) == Crawl(joinNext', joinHead'[t], {})
<1>1. /\ joinHead' = [joinHead EXCEPT ![Q] = IF @ = n THEN joinNext[n] ELSE @]
      /\ joinNext' = [m \in JoinNode |->
            IF joinHead[Q] # n /\ joinNext[m] = n /\ m \in Searched \ {n}
            THEN joinNext[n] ELSE joinNext[m]]
      /\ joinFree' = joinFree \cup {n} /\ joinChild' = joinChild
  <2>1. PICK k \in Searched \cap NodesOf(V) :
          /\ joinHead' = [joinHead EXCEPT ![Q] = IF @ = k THEN joinNext[k] ELSE @]
          /\ joinNext' = [m \in JoinNode |->
                IF /\ joinHead[Q] # k
                   /\ joinNext[m] = k /\ m \in Searched \ {k}
                THEN joinNext[k] ELSE joinNext[m]]
          /\ joinFree' = joinFree \cup {k} /\ joinChild' = joinChild
    BY Zenon DEF remove_child
  <2>2. k = n
    OBVIOUS
  <2> QED
    BY Zenon, <2>1, <2>2
<1>2. joinChild[n] = V /\ ParentOf(n) = Q /\ Q \in Processes /\ n \in JoinNode /\ n # NULL
  <2>1. n \in NodesOf(V)
    OBVIOUS
  <2> QED
    BY <2>1, ListFacts DEF NodesOf, ParentOf
<1>3. \A t, u \in Processes : ~ (t < u /\ u < t) /\ ~ (t < t) /\ ~ (V < t)
  BY ThreadsAssumption DEF Processes, LiveThreads, Thread
<1>4. /\ UsedNodes' = UsedNodes \ {n}
      /\ \A u \in UsedNodes \ {n} : joinChild[u] \in Processes \ {V}
  BY <1>1, <1>2, ListFacts DEF UsedNodes, JoinInv, NodesInv
<1>5. \A t \in Processes : parent[t] # NULL => parent[t] \in Processes \ {V}
  BY <1>3 DEF JoinInv, NodesInv
<1>6. \A u \in UsedNodes \ {n} :
         /\ joinNext[u] = n => joinNext'[u] = NULL
         /\ joinNext[u] # n => joinNext'[u] = joinNext[u]
  <2>1. ASSUME NEW u \in UsedNodes \ {n}, joinNext[u] = n
        PROVE  u \in Searched /\ joinHead[Q] # n
    BY <1>2, <2>1 DEF JoinInv, LinksInv
  <2> QED
    BY <1>1, <2>1, ListFacts
<1>7. \A t \in Processes \ {V} :
         /\ joinHead[t] = n => joinHead'[t] = NULL
         /\ joinHead[t] # n => joinHead'[t] = joinHead[t]
  <2>1. ASSUME NEW t \in Processes \ {V}, joinHead[t] = n PROVE t = Q
    BY <1>2, <1>3, <2>1 DEF JoinInv, LinksInv
  <2> QED
    BY <1>1, <2>1, ListFacts
<1>8. /\ joinHead' \in [Thread -> JoinNode \cup {NULL}]
      /\ joinNext' \in [JoinNode -> JoinNode \cup {NULL}]
      /\ NULL \notin JoinNode /\ Processes \subseteq Thread
  BY <1>1, <1>2, ListFacts
<1>9. ASSUME NEW t \in Processes \ {V} PROVE ListOf(t) \ {n} \subseteq List(t)
  <2> DEFINE D == (List(t) \cap UsedNodes) \cup {n}
  <2>1. Covers(joinNext', joinHead'[t], {}, List(t))
    BY <1>8, <1>9, CrawlCovers
  <2> HIDE DEF List
  <2>2. joinHead[t] # NULL => joinHead[t] \in D
    BY <1>7, <2>1, ListFacts DEF Covers
  <2>3. ASSUME NEW u \in D, joinNext[u] # NULL PROVE joinNext[u] \in D
    <3>1. u \in UsedNodes \ {n} /\ u \in List(t)
      BY <2>3
    <3>2. joinNext[u] # n => joinNext[u] \in List(t)
      BY <1>6, <2>1, <2>3, <3>1 DEF Covers
    <3> QED
      BY <2>3, <3>1, <3>2, ListFacts
  <2>4. Covers(joinNext, joinHead[t], {}, D) /\ D \in SUBSET JoinNode
    BY <1>2, <2>2, <2>3, ListFacts DEF Covers
  <2> HIDE DEF D
  <2>5. ListOf(t) \subseteq D
    BY <2>4, ListFacts, CrawlLeast DEF ListOf
  <2> QED
    BY <2>5 DEF D
<1>10. AgeInv'
  BY DEF JoinInv, AgeInv
<1>11. NodesInv'
  <2>1. ASSUME NEW t \in Processes', parent'[t] # NULL
        PROVE  /\ parent'[t] \in Processes' /\ parent'[t] < t
               /\ \E m \in UsedNodes' : joinChild'[m] = t
    <3>1. parent[t] \in Processes \ {V} /\ parent[t] < t /\ \E m \in UsedNodes : joinChild[m] = t
      BY <1>5, <2>1 DEF JoinInv, NodesInv
    <3> QED
      BY <1>1, <1>2, <1>4, <2>1, <3>1
  <2>2. /\ \A m \in UsedNodes' : joinChild'[m] \in Processes' /\ parent'[joinChild'[m]] # NULL
        /\ \A l, m \in UsedNodes' : joinChild'[l] = joinChild'[m] => l = m
    BY <1>1, <1>4 DEF JoinInv, NodesInv, ParentOf
  <2>3. \A m \in joinFree' : joinChild'[m] \notin Processes' /\ joinChild'[m] <= created'
    <3>1. V <= created
      BY CreatedSoFar
    <3> QED
      BY <1>1, <1>2, <3>1 DEF JoinInv, NodesInv
  <2>4. /\ \A t \in Thread : pc'[t] = "new" => parent'[t] = NULL /\ joinHead'[t] = NULL
        /\ parent'[Main] = NULL
    <3>1. \A t \in Thread : pc[t] = "new" => t # Q
      BY <1>2 DEF Processes, LiveThreads, Live
    <3> QED
      BY <1>1, <3>1, ListFacts DEF JoinInv, NodesInv
  <2> QED
    BY <2>1, <2>2, <2>3, <2>4 DEF NodesInv, ParentOf
<1>12. LinksInv'
  <2>1. ASSUME NEW m \in UsedNodes', joinNext'[m] # NULL
        PROVE  joinNext'[m] \in UsedNodes' /\ joinChild'[m] < joinChild'[joinNext'[m]]
    <3>1. m \in UsedNodes \ {n} /\ joinNext'[m] = joinNext[m] /\ joinNext[m] # n
      BY <1>4, <1>6, <2>1
    <3>2. joinNext[m] \in UsedNodes /\ joinChild[m] < joinChild[joinNext[m]]
      BY <2>1, <3>1 DEF JoinInv, LinksInv
    <3>3. joinNext'[m] \in UsedNodes' /\ joinChild' = joinChild
      BY <1>1, <1>4, <3>1, <3>2
    <3> QED
      BY <3>1, <3>2, <3>3
  <2>2. ASSUME NEW t \in Processes', joinHead'[t] # NULL
        PROVE  /\ joinHead'[t] \in UsedNodes'
               /\ \/ t = parent'[joinChild'[joinHead'[t]]]
                  \/ joinChild'[joinHead'[t]] < t
    BY <1>1, <1>4, <1>7, <2>2 DEF JoinInv, LinksInv, ParentOf
  <2>3. ASSUME NEW m \in UsedNodes' PROVE m \in List(parent'[joinChild'[m]])
    <3>1. PICK q \in Processes \ {V} : q = ParentOf(m) /\ q = parent'[joinChild'[m]]
      BY <1>1, <1>4, <1>5, <2>3, ListFacts DEF ParentOf, JoinInv, NodesInv
    <3>2. m \in ListOf(q) \ {n}
      BY Zenon, <1>4, <2>3, <3>1 DEF JoinInv, LinksInv
    <3> QED
      BY <1>9, <3>1, <3>2
  <2>4. ASSUME NEW l \in UsedNodes', NEW m \in UsedNodes', joinNext'[l] = m
        PROVE  /\ l \in List(parent'[joinChild'[m]])
               /\ joinHead'[parent'[joinChild'[m]]] # m
    <3>1. PICK q \in Processes \ {V} : q = ParentOf(m) /\ q = parent'[joinChild'[m]]
      BY <1>1, <1>4, <1>5, <2>4, ListFacts DEF ParentOf, JoinInv, NodesInv
    <3>2. joinNext[l] = m /\ m # NULL
      BY <1>4, <1>6, <2>4, ListFacts
    <3>3. l \in ListOf(q) \ {n} /\ joinHead[q] # m
      BY Zenon, <1>4, <2>4, <3>1, <3>2 DEF JoinInv, LinksInv
    <3>4. l \in List(q) /\ joinHead'[q] # m
      BY <1>7, <1>9, <3>1, <3>2, <3>3
    <3> QED
      BY <3>1, <3>4
  <2> QED
    BY <2>1, <2>2, <2>3, <2>4 DEF LinksInv, ListOf, ParentOf
<1>13. EndsInv'
  <2>1. ASSUME NEW t \in Processes \ {V}, joinHead'[t] # NULL
        PROVE  \E e \in List(t) : joinNext'[e] = NULL
    <3>1. joinHead[t] # NULL /\ joinHead[t] # n
      BY <1>2, <1>7, <2>1
    <3>2. PICK e \in ListOf(t) : joinNext[e] = NULL
      BY Zenon, <3>1 DEF JoinInv, EndsInv
    <3>3. ListOf(t) \subseteq UsedNodes
      BY ListFacts
    <3>4. CASE e # n
      BY <1>2, <1>6, <1>9, <3>2, <3>3, <3>4
    <3>5. CASE n \in ListOf(t)
      <4>1. PICK m \in ListOf(t) \ {n} : joinNext[m] = n
        <5> SUFFICES ASSUME \A m \in ListOf(t) \ {n} : joinNext[m] # n PROVE FALSE
          OBVIOUS
        <5>1. Covers(joinNext, joinHead[t], {}, ListOf(t))
          BY ListFacts, CrawlCovers DEF ListOf
        <5>2. Covers(joinNext, joinHead[t], {}, ListOf(t) \ {n})
          BY <3>1, <5>1 DEF Covers
        <5>3. ListOf(t) \ {n} \in SUBSET JoinNode
          BY <3>3, ListFacts
        <5>4. ListOf(t) \subseteq ListOf(t) \ {n}
          BY <5>2, <5>3, ListFacts, CrawlLeast DEF ListOf
        <5> QED
          BY <3>5, <5>4
      <4> QED
        BY <1>6, <1>9, <3>3, <4>1
    <3> QED
      BY <3>2, <3>4, <3>5
  <2> QED
    BY <2>1 DEF EndsInv, ListOf
<1> QED
  BY <1>10, <1>11, <1>12, <1>13 DEF JoinInv, NeverCrashes

LEMMA EndKeepsJoins ==
    ASSUME LastInFirstOut, IInv, JoinInv, exit \/ kill PROVE JoinInv'
<1>1. /\ halted = "no" /\ pc[currentThread] = "run" /\ currentThread # Start /\ MayEnd
  BY DEF exit, kill, UserCalls, Executing
<1>2. CleanUpSucceeds /\ victim = currentThread /\ victim \in Processes
  BY <1>1, YoungestFacts
<1>3. \E end \in {"exited", "killed"} : Goto(end) /\ sys_exit
  BY <1>2 DEF exit, kill, CrashInCleanUp
<1>4. PICK end \in {"exited", "killed"} : Goto(end) /\ sys_exit
  BY <1>3
<1>5. halted' \notin {"fault", "loop"}
  <2>1. \E q : Dispatch(q)
    BY <1>2 DEF exit, kill, CrashInCleanUp, Requeue
  <2> QED
    BY <1>1, <2>1, DispatchHalts
<1>6. /\ Processes' = Processes \ {victim} /\ UNCHANGED <<parent, pid, created>>
      /\ \A t \in Thread : pc'[t] = "new" => pc[t] = "new"
  <2>1. /\ UNCHANGED <<parent, pid, created>> /\ pc'[currentThread] = end
        /\ \A t \in Thread : t # currentThread => pc'[t] = pc[t]
    BY <1>1, <1>4, SysExitFacts
  <2> QED
    BY <1>2, <2>1 DEF Processes, LiveThreads, Live
<1>7. CASE parent[victim] = NULL
  <2>1. UNCHANGED joins
    BY <1>4, <1>7 DEF sys_exit
  <2>2. \A t \in Processes : t <= victim
    BY <1>1, YoungestFacts
  <2> QED
    BY <1>2, <1>5, <1>6, <1>7, <2>1, <2>2, OrphanKeepsJoins DEF joins
<1>8. CASE parent[victim] # NULL
  <2>1. remove_child
    BY <1>4, <1>8 DEF sys_exit
  <2> QED
    BY <1>1, <1>2, <1>5, <1>6, <1>8, <2>1, YoungestFacts, ChildKeepsJoins
<1> QED
  BY <1>7, <1>8

LEMMA InitJoins ==
    ASSUME Init PROVE JoinInv
<1>1. \A t \in Thread : parent[t] = NULL /\ joinHead[t] = NULL
  BY DEF Init
<1>2. UsedNodes = {} /\ joinFree = JoinNode /\ created = 2 /\ halted = "no"
  BY DEF Init, UsedNodes
<1>3. Processes \subseteq {Start}
  BY ThreadFacts DEF Init, Processes, LiveThreads, Live
<1>4. \A n \in joinFree : joinChild[n] = 0
  BY <1>2 DEF Init, NULL
<1>5. 0 \notin Processes
  BY <1>3 DEF Start
<1>6. AgeInv
  BY <1>3 DEF AgeInv, Start
<1>7. NodesInv
  <2>1. Processes \subseteq Thread
    BY DEF Processes, LiveThreads
  <2> QED
    BY <1>1, <1>2, <1>4, <1>5, <2>1, ThreadFacts DEF NodesInv
<1>8. LinksInv
  BY <1>1, <1>2 DEF LinksInv, Processes, LiveThreads
<1>9. EndsInv
  BY <1>1 DEF EndsInv, Processes, LiveThreads
<1> QED
  BY <1>2, <1>6, <1>7, <1>8, <1>9 DEF JoinInv, NeverCrashes

(* The lists of children stay usable: every step of every thread keeps the *)
(* order of age along them.                                                *)
THEOREM JoinListsInvariant ==
    ASSUME LastInFirstOut PROVE Spec => [](IInv /\ JoinInv)
<1>1. ASSUME IInv, JoinInv, [Next]_vars PROVE JoinInv'
  <2>1. CASE UNCHANGED vars
    <3>1. /\ UNCHANGED <<joinHead, joinNext, joinChild, joinFree, parent, pid, created>>
          /\ pc' = pc /\ halted' = halted
      BY <2>1 DEF vars, procs, joins
    <3>2. Processes' = Processes
      BY <3>1 DEF Processes, LiveThreads
    <3> QED
      BY <1>1, <3>1, <3>2, JoinFrame DEF JoinInv, NeverCrashes
  <2>2. CASE Next
    BY <1>1, <2>2, RotateKeepsJoins, ExecKeepsJoins, ForkKeepsJoins, EndKeepsJoins DEF Next
  <2> QED
    BY <1>1, <2>1, <2>2
<1>2. Init => JoinInv
  BY InitJoins
<1> QED
  BY <1>1, <1>2, SchedulerInvariant, PTL DEF Spec

(* While processes end youngest first, remove_child always finds the child *)
(* it is to take off its parent's list, sys_exit finds the process to end, *)
(* and append_join_queue and timer_handler come to the end of their lists. *)
THEOREM KernelNeverCrashes ==
    ASSUME LastInFirstOut PROVE Spec => []NeverCrashes
<1>1. JoinInv => NeverCrashes
  BY DEF JoinInv
<1> QED
  BY <1>1, JoinListsInvariant, PTL

(* While processes end youngest first, wait() returns to a process only    *)
(* when none of its children is left: a child that runs has a node on its  *)
(* parent's list.                                                          *)
THEOREM WaitIsSound ==
    ASSUME LastInFirstOut PROVE Spec => WaitSound
<1> DEFINE W == \A t \in Thread : pc[t] = "wait" /\ pc'[t] = "run" => Children(t) = {}
<1>1. ASSUME IInv, JoinInv, Next, NEW t \in Thread, pc[t] = "wait", pc'[t] = "run"
      PROVE  Children(t) = {}
  <2>1. currentThread \in Thread /\ pc \in [Thread -> Where]
    BY <1>1 DEF IInv, TypeOK
  <2>2. wait_return /\ t = currentThread
    <3>1. CASE MainSchedules \/ wait \/ doread
      BY <1>1, <2>1, <3>1 DEF MainSchedules, wait, doread, Goto
    <3>2. CASE Yield \/ irq_timer \/ trap \/ sleep \/ do_execve
      BY <1>1, <3>2 DEF Yield, irq_timer, trap, sleep, do_execve
    <3>3. CASE doread_return \/ exit \/ kill
      <4>1. \/ pc' = pc
            \/ pc[currentThread] # "wait" /\ \E at : pc' = [pc EXCEPT ![currentThread] = at]
        BY <3>3 DEF doread_return, exit, kill, CrashInCleanUp, Executing, UserCalls, Goto
      <4> QED
        BY <1>1, <2>1, <4>1
    <3>4. CASE do_exec
      <4>1. /\ k_thread \in Thread /\ pc[k_thread] = "new" /\ pc[currentThread] = "boot"
            /\ pc' = [pc EXCEPT ![k_thread] = "run", ![currentThread] = "run"]
        BY <1>1, <3>4, NewThreadFacts DEF do_exec, Executing
      <4> QED
        BY <1>1, <2>1, <4>1
    <3>5. CASE fork
      <4>1. /\ k_thread \in Thread /\ pc[k_thread] = "new"
            /\ pc' = [pc EXCEPT ![k_thread] = "run"]
        BY <1>1, <3>5, NewThreadFacts DEF fork
      <4> QED
        BY <1>1, <2>1, <4>1
    <3>6. CASE wait_return
      BY <1>1, <2>1, <3>6 DEF wait_return, Goto
    <3> QED
      BY <1>1, <3>1, <3>2, <3>3, <3>4, <3>5, <3>6 DEF Next
  <2>3. joinHead[t] = NULL
    BY <2>2 DEF wait_return
  <2>4. ListOf(t) = {}
    BY <1>1, <2>3, ListFacts, CrawlNothing DEF ListOf
  <2>5. ASSUME NEW k \in Children(t) PROVE FALSE
    <3>1. k \in LiveThreads /\ parent[k] = t /\ t # NULL
      BY <1>1, ThreadFacts DEF Children, LiveThreads
    <3>2. k # Main
      <4>1. parent[Main] = NULL
        BY <1>1 DEF JoinInv, NodesInv
      <4> QED
        BY <3>1, <4>1
    <3>3. PICK n \in UsedNodes : joinChild[n] = k
      BY <1>1, <3>1, <3>2 DEF JoinInv, NodesInv, Processes
    <3>4. n \in ListOf(t)
      BY <1>1, <3>1, <3>3 DEF JoinInv, LinksInv, ParentOf
    <3> QED
      BY <2>4, <3>4
  <2> QED
    BY <2>5
<1>2. IInv /\ JoinInv /\ [Next]_vars => [W]_vars
  BY <1>1
<1> QED
  BY <1>2, JoinListsInvariant, PTL DEF Spec, WaitSound
=============================================================================
